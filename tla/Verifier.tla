------------------------------ MODULE Verifier ------------------------------
(***************************************************************************)
(* verify_expr (src/compiler/analysis/verify.rs): the linear state of each *)
(* variable, followed through an expression.  A result is                  *)
(* [err, stack]: the diagnostic code, or None and the states afterwards.   *)
(* The first error wins, as `?` has it.                                    *)
(***************************************************************************)
EXTENDS Expressions

None      == "none"
Available == "available"
Moved     == "moved"
Borrowed  == "borrowed"

Accept(stack) == [err |-> None, stack |-> stack]
Reject(code)  == [err |-> code, stack |-> <<>>]

(* A variable that is read, bare or through $ or ~.                        *)
VerifyRead(i, stack) ==
  IF i >= Len(stack) THEN Reject("E003")
  ELSE IF stack[Len(stack) - i] = Moved THEN Reject("E004")
  ELSE Accept(stack)

MoveError(state) == CASE state = Moved    -> "E005"
                      [] state = Borrowed -> "E016"
                      [] OTHER            -> None

VerifyMove(i, stack) ==
  LET at == Len(stack) - i
  IN IF i >= Len(stack) THEN Reject("E003")
     ELSE IF MoveError(stack[at]) # None THEN Reject(MoveError(stack[at]))
     ELSE Accept([stack EXCEPT ![at] = Moved])

(* A trap sees what is not moved, renumbered, and all of it borrowed.      *)
Captured(stack) == Repeat(Borrowed, Len(SelectSeq(stack, LAMBDA s : s # Moved)))

(* Mutant of Merge: the states after the branches are not compared.        *)
MergeUnchecked(then, else) ==
  IF then.err # None THEN then ELSE else

(* Both branches of a conditional leave the same variables moved.          *)
Merge(then, else) ==
  IF then.err # None THEN then
  ELSE IF else.err # None THEN else
  ELSE IF then.stack # else.stack THEN Reject("E009")
  ELSE else

RECURSIVE Verify(_, _), VerifyAll(_, _)

VerifyAll(args, stack) ==
  IF args = <<>> THEN Accept(stack)
  ELSE LET first == Verify(Head(args), stack)
       IN IF first.err # None THEN first ELSE VerifyAll(Tail(args), first.stack)

VerifyLet(val, body, stack) ==
  LET v == Verify(val, stack)
      b == Verify(body, Append(v.stack, Available))
  IN IF v.err # None THEN v
     ELSE IF b.err # None THEN b
     ELSE Accept(SubSeq(b.stack, 1, Len(stack)))

VerifyIf(cond, then, else, stack) ==
  LET c == Verify(cond, stack)
  IN IF c.err # None THEN c ELSE Merge(Verify(then, c.stack), Verify(else, c.stack))

VerifyTrap(try, fallback, stack) ==
  LET t == Verify(try, Captured(stack))
      f == Verify(fallback, Captured(stack))
  IN IF t.err # None THEN t ELSE IF f.err # None THEN f ELSE Accept(stack)

Verify(e, stack) ==
  CASE e.op \in {"var", "borrow"} -> VerifyRead(e.n, stack)
    [] e.op = "move" -> VerifyMove(e.n, stack)
    [] e.op = "let"  -> VerifyLet(e.args[1], e.args[2], stack)
    [] e.op = "if"   -> VerifyIf(e.args[1], e.args[2], e.args[3], stack)
    [] e.op = "trap" -> VerifyTrap(e.args[1], e.args[2], stack)
    [] OTHER         -> VerifyAll(e.args, stack)

=============================================================================
