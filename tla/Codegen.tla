------------------------------ MODULE Codegen ------------------------------
(***************************************************************************)
(* gen_expr (src/compiler/codegen/expr.rs) and the functions it outlines   *)
(* (parallel.rs), as a translation into instructions over temporaries.     *)
(* The generator keeps its own copy of the verifier's linear states, and   *)
(* decides from them and from the inferred pointers where drops and dups   *)
(* go.  Where the source panics, the result carries the diagnostic and the *)
(* parallel depth it was raised at.                                        *)
(***************************************************************************)
EXTENDS Verifier

CONSTANTS Threshold,         \* config.parallel_threshold
          MaxParallelDepth   \* from the size of the compiler's stack

-----------------------------------------------------------------------------
(* Which parameters hold pointers: infer_constraints, to a fixed point.    *)

Mark(e, ptrs) ==
  IF e.op \in References /\ e.n < Len(ptrs)
  THEN [ptrs EXCEPT ![Len(ptrs) - e.n] = TRUE]
  ELSE ptrs

RECURSIVE MarkAll(_, _), Infer(_, _), InferAll(_, _), FixedPoint(_, _)

MarkAll(args, ptrs) == IF args = <<>> THEN ptrs ELSE MarkAll(Tail(args), Mark(Head(args), ptrs))

InferAll(args, ptrs) == IF args = <<>> THEN ptrs ELSE InferAll(Tail(args), Infer(Head(args), ptrs))

InferLet(val, body, ptrs) ==
  LET p == Infer(val, ptrs)
  IN SubSeq(Infer(body, Append(p, returns_ptr(val, p))), 1, Len(ptrs))

Infer(e, ptrs) ==
  CASE e.op = "let"                   -> InferLet(e.args[1], e.args[2], ptrs)
    [] e.op \in {"seq", "if", "trap"} -> InferAll(e.args, ptrs)
    [] e.op \in {"cat", "len"}        -> InferAll(e.args, MarkAll(e.args, ptrs))
    [] e.op = "call"                  -> MarkAll(e.args, InferAll(e.args, ptrs))
    [] OTHER                          -> ptrs

FixedPoint(body, ptrs) ==
  IF Infer(body, ptrs) = ptrs THEN ptrs ELSE FixedPoint(body, Infer(body, ptrs))

fn_param_ptrs(body, arity) == FixedPoint(body, Repeat(FALSE, arity))

ASSUME CalleeAssumption == fn_param_ptrs(Callee, 2) = <<TRUE, TRUE>>

-----------------------------------------------------------------------------
(* Instructions, and the results of generating code: the diagnostic, the   *)
(* depth it was raised at, the stack of variables, the next temporary, the *)
(* code, its values, and whether a capture has left out a moved variable.  *)

Op(op, dst, src)       == [op |-> op, dst |-> dst, src |-> src, sub |-> <<>>]
Nest(op, dst, src, sub) == [op |-> op, dst |-> dst, src |-> src, sub |-> sub]

Item(state, ptr, val) == [state |-> state, ptr |-> ptr, val |-> val]
States(stack)  == [k \in DOMAIN stack |-> stack[k].state] \o <<>>
Ptrs(stack)    == [k \in DOMAIN stack |-> stack[k].ptr] \o <<>>

Made(stack, next, code, vals, shift) ==
  [err |-> None, depth |-> 0, stack |-> stack, next |-> next, code |-> code, vals |-> vals, shift |-> shift]
Abort(err, depth) ==
  [err |-> err, depth |-> depth, stack |-> <<>>, next |-> 0, code |-> <<>>, vals |-> <<>>, shift |-> FALSE]

Val(r) == r.vals[1]

(* emit_auto_drop                                                          *)
AutoDrop(val, ptr) == IF ptr THEN <<Op("drop", 0, <<val>>)>> ELSE <<>>

(* maybe_drop_val: an operand is dropped after its use if it is owned.     *)
(* Mutants: a borrowed operand counts as owned; a moved one does not.      *)
is_owned_ptrBorrowed(e, stack) == returns_ptr(e, Ptrs(stack)) /\ e.op # "var"
is_owned_ptrNotMoved(e, stack) == returns_ptr(e, Ptrs(stack)) /\ e.op \notin References

is_owned_ptr(e, stack) == returns_ptr(e, Ptrs(stack)) /\ e.op \notin {"var", "borrow"}

RECURSIVE MaybeDrops(_, _, _)
MaybeDrops(args, vals, stack) ==
  IF args = <<>> THEN <<>>
  ELSE AutoDrop(Head(vals), is_owned_ptr(Head(args), stack)) \o MaybeDrops(Tail(args), Tail(vals), stack)

(* The variables still available when a function returns are dropped.      *)
RECURSIVE ScopeDrops(_)
ScopeDrops(stack) ==
  IF stack = <<>> THEN <<>>
  ELSE AutoDrop(Head(stack).val, Head(stack).ptr /\ Head(stack).state = Available) \o ScopeDrops(Tail(stack))

(* What a task or a trap captures: the unmoved variables, borrowed.        *)
Captures(stack) ==
  LET kept == SelectSeq(stack, LAMBDA item : item.state # Moved)
  IN [k \in DOMAIN kept |-> Item(Borrowed, kept[k].ptr, kept[k].val)] \o <<>>

LeavesOut(stack) == Len(Captures(stack)) < Len(stack)

-----------------------------------------------------------------------------
(* gen_expr *)

RECURSIVE Gen(_, _, _, _), GenAll(_, _, _, _), GenFunction(_, _, _, _)

GenAll(args, stack, depth, next) ==
  IF args = <<>> THEN Made(stack, next, <<>>, <<>>, FALSE)
  ELSE LET h == Gen(Head(args), stack, depth, next)
           t == GenAll(Tail(args), h.stack, depth, h.next)
       IN IF h.err # None THEN h
          ELSE IF t.err # None THEN t
          ELSE Made(t.stack, t.next, h.code \o t.code, h.vals \o t.vals, h.shift \/ t.shift)

GenRead(i, stack, depth, next) ==
  IF i >= Len(stack) THEN Abort("E003", depth)
  ELSE IF stack[Len(stack) - i].state = Moved THEN Abort("E004", depth)
  ELSE Made(stack, next, <<>>, <<stack[Len(stack) - i].val>>, FALSE)

GenMove(i, stack, depth, next) ==
  LET at == Len(stack) - i
  IN IF i >= Len(stack) THEN Abort("E003", depth)
     ELSE IF MoveError(stack[at].state) # None THEN Abort(MoveError(stack[at].state), depth)
     ELSE Made([stack EXCEPT ![at].state = Moved], next, <<>>, <<stack[at].val>>, FALSE)

(* A builtin: its operands, the call of the runtime, and their drops.      *)
GenBuiltin(e, dropped, stack, depth, next) ==
  LET a == GenAll(e.args, stack, depth, next)
  IN IF a.err # None THEN a
     ELSE Made(a.stack, a.next + 1,
               Append(a.code, Op(e.op, a.next, a.vals))
                 \o (IF dropped THEN MaybeDrops(e.args, a.vals, a.stack) ELSE <<>>),
               <<a.next>>, a.shift)

GenSeq(e1, e2, stack, depth, next) ==
  LET a == Gen(e1, stack, depth, next)
      b == Gen(e2, a.stack, depth, a.next)
  IN IF a.err # None THEN a
     ELSE IF b.err # None THEN b
     ELSE Made(b.stack, b.next, a.code \o MaybeDrops(<<e1>>, a.vals, a.stack) \o b.code, b.vals, a.shift \/ b.shift)

GenLet(val, body, stack, depth, next) ==
  LET v == Gen(val, stack, depth, next)
      b == Gen(body, Append(v.stack, Item(Available, returns_ptr(val, Ptrs(v.stack)), Val(v))), depth, v.next)
  IN IF v.err # None THEN v
     ELSE IF b.err # None THEN b
     ELSE Made(SubSeq(b.stack, 1, Len(stack)), b.next,
               v.code \o b.code \o ScopeDrops(<<b.stack[Len(stack) + 1]>>), b.vals, v.shift \/ b.shift)

GenIf(cond, then, else, stack, depth, next) ==
  LET c == Gen(cond, stack, depth, next)
      t == Gen(then, c.stack, depth, c.next)
      f == Gen(else, c.stack, depth, t.next)
      Branch(r) == Append(r.code, Op("copy", f.next, r.vals))
  IN IF c.err # None THEN c
     ELSE IF t.err # None THEN t
     ELSE IF f.err # None THEN f
     ELSE IF States(t.stack) # States(f.stack) THEN Abort("E009", depth)
     ELSE Made(f.stack, f.next + 1, Append(c.code, Nest("br", 0, c.vals, <<Branch(t), Branch(f)>>)),
               <<f.next>>, c.shift \/ t.shift \/ f.shift)

GenTrap(try, fallback, stack, depth, next) ==
  LET t == Gen(try, Captures(stack), depth, next)
      f == Gen(fallback, Captures(stack), depth, t.next)
      Branch(r) == Append(r.code, Op("copy", f.next, r.vals))
  IN IF t.err # None THEN t
     ELSE IF f.err # None THEN f
     ELSE Made(stack, f.next + 1, <<Nest("try", f.next, <<>>, <<Branch(t), Branch(f)>>)>>,
               <<f.next>>, LeavesOut(stack) \/ t.shift \/ f.shift)

(* gen_parallel_expr: the argument becomes a task.                         *)
GenTask(e, stack, depth, next) ==
  LET t == Gen(e, Captures(stack), depth + 1, next)
  IN IF t.err # None THEN t
     ELSE Made(stack, t.next + 1, <<Nest("fork", t.next, <<>>, <<Append(t.code, Op("copy", t.next, t.vals))>>)>>,
               <<t.next>>, LeavesOut(stack) \/ t.shift)

(* The stack left to the compiler (has_sufficient_stack) is taken to do.    *)
Forked(e, depth) == depth < MaxParallelDepth /\ is_pure(e) /\ complexity(e) > Threshold

(* A borrowed argument of a user function is duplicated, for the function  *)
(* drops its parameters.                                                   *)
RECURSIVE Dups(_, _, _)
Dups(args, vals, stack) ==
  IF args = <<>> THEN <<>>
  ELSE (IF Head(args).op = "borrow" /\ returns_ptr(Head(args), Ptrs(stack))
        THEN <<Op("dup", 0, <<Head(vals)>>)>> ELSE <<>>)
       \o Dups(Tail(args), Tail(vals), stack)

(* A call.  Every argument but the last may be forked; the handles are     *)
(* joined once all arguments are evaluated.                                *)
GenCall(args, stack, depth, next) ==
  LET forked == Forked(args[1], depth)
      a == IF forked THEN GenTask(args[1], stack, depth, next) ELSE Gen(args[1], stack, depth, next)
      b == Gen(args[2], a.stack, depth, a.next)
      vals  == a.vals \o b.vals
      joins == IF forked THEN <<Op("join", Val(a), <<>>)>> ELSE <<>>
      body  == GenFunction(Callee, vals, <<TRUE, TRUE>>, b.next)
  IN IF a.err # None THEN a
     ELSE IF b.err # None THEN b
     ELSE Made(b.stack, body.next, a.code \o b.code \o joins \o Dups(args, vals, b.stack) \o body.code,
               body.vals, a.shift \/ b.shift)

Gen(e, stack, depth, next) ==
  CASE e.op \in {"var", "borrow"} -> GenRead(e.n, stack, depth, next)
    [] e.op = "move"   -> GenMove(e.n, stack, depth, next)
    [] e.op = "num"    -> Made(stack, next + 1, <<Op("num", next, <<e.n>>)>>, <<next>>, FALSE)
    [] e.op \in {"lit", "cat", "str"} -> GenBuiltin(e, TRUE, stack, depth, next)
    [] e.op \in {"len", "panic"}      -> GenBuiltin(e, FALSE, stack, depth, next)
    [] e.op = "seq"    -> GenSeq(e.args[1], e.args[2], stack, depth, next)
    [] e.op = "let"    -> GenLet(e.args[1], e.args[2], stack, depth, next)
    [] e.op = "if"     -> GenIf(e.args[1], e.args[2], e.args[3], stack, depth, next)
    [] e.op = "trap"   -> GenTrap(e.args[1], e.args[2], stack, depth, next)
    [] e.op = "call"   -> GenCall(e.args, stack, depth, next)

(* gen_function: the parameters are available, and dropped at the end.     *)
GenFunction(body, vals, ptrs, next) ==
  LET r == Gen(body, [k \in DOMAIN vals |-> Item(Available, ptrs[k], vals[k])] \o <<>>, 0, next)
  IN IF r.err # None THEN r ELSE [r EXCEPT !.code = @ \o ScopeDrops(r.stack)]

=============================================================================
