---------------------------- MODULE Expressions ----------------------------
(***************************************************************************)
(* The expressions of llmlang that own, lend and release strings           *)
(* (src/compiler/ast/mod.rs), what they mean, and the discipline under     *)
(* which their ownership is sound.  Every node is a record                 *)
(* [op, n, args]: n is the De Bruijn index of a variable or the value of   *)
(* a number.  Left out are the other builtins, which use their operands as *)
(* sc (cat) and sl (len) do, and shapes, templates and imports.            *)
(*                                                                         *)
(* A string is the sequence of numbers it was put together from.           *)
(***************************************************************************)
EXTENDS Naturals, Sequences, FiniteSets

CONSTANTS Callee,  \* the body of the one user function, of two string parameters
          Forms    \* the operators that programs are built from

Node(op, n, args) == [op |-> op, n |-> n, args |-> args]

Lit       == Node("lit", 0, <<>>)
Num(n)    == Node("num", n, <<>>)
Panic     == Node("panic", 0, <<Lit>>)

(* n copies of v; the concatenation has TLC build the sequence at once,    *)
(* rather than keep a function that later EXCEPTs pile up on.              *)
Repeat(v, n) == [k \in 1 .. n |-> v] \o <<>>

Numbers     == {0, 9}
LitContent  == <<0>>
References  == {"var", "move", "borrow"}

-----------------------------------------------------------------------------
(* The well-typed expressions of a given size in a scope of d variables,   *)
(* all of them strings.                                                    *)

Leaves(d) == {Lit, Panic} \cup {Node(op, i, <<>>) : op \in References, i \in 0 .. d - 1}

RECURSIVE StringExprs(_, _), NumberExprs(_, _)

NumberExprs(size, d) ==
  IF size = 1 THEN {Num(n) : n \in Numbers}
  ELSE {Node("len", 0, <<e>>) : e \in StringExprs(size - 1, d)}

Conditionals(size, d) ==
  UNION {{Node("if", 0, <<Num(n), t, f>>) :
            n \in Numbers, t \in StringExprs(k, d), f \in StringExprs(size - 2 - k, d)}
          : k \in 1 .. size - 3}

(* Nodes of two strings, the second in the scope of inner variables.       *)
Pairs(ops, size, d, inner) ==
  UNION {{Node(op, 0, <<l, r>>) :
            op \in Forms \cap ops, l \in StringExprs(k, d), r \in StringExprs(size - 1 - k, inner)}
          : k \in 1 .. size - 2}

StringExprs(size, d) ==
  IF size <= 0 THEN {}
  ELSE IF size = 1 THEN {e \in Leaves(d) : e.op \in Forms}
  ELSE Pairs({"cat", "call", "trap", "seq"}, size, d, d)
       \cup Pairs({"let"}, size, d, d + 1)
       \cup (IF "if" \in Forms THEN Conditionals(size, d) ELSE {})
       \cup (IF "str" \in Forms THEN {Node("str", 0, <<e>>) : e \in NumberExprs(size - 1, d)} ELSE {})

-----------------------------------------------------------------------------
(* What an expression means, memory aside: its value in an environment, or *)
(* a panic.                                                                *)

Panics    == [panic |-> TRUE, v |-> <<>>]
Value(v)  == [panic |-> FALSE, v |-> v]
Lookup(env, i) == env[Len(env) - i]

RECURSIVE Meaning(_, _), MeaningOfBody(_, _, _)

(* The body of a binding: not reached when the bound expression panics.    *)
MeaningOfBody(bound, body, env) ==
  IF bound.panic THEN Panics ELSE Meaning(body, Append(env, bound.v))

Meaning(e, env) ==
  LET M(k) == Meaning(e.args[k], env)
  IN CASE e.op = "lit"      -> Value(LitContent)
       [] e.op = "num"      -> Value(e.n)
       [] e.op \in References -> Value(Lookup(env, e.n))
       [] e.op = "panic"    -> Panics
       [] e.op = "len"      -> IF M(1).panic THEN Panics ELSE Value(Len(M(1).v))
       [] e.op = "str"      -> IF M(1).panic THEN Panics ELSE Value(<<M(1).v>>)
       [] e.op = "cat"      -> IF M(1).panic \/ M(2).panic THEN Panics ELSE Value(M(1).v \o M(2).v)
       [] e.op = "seq"      -> IF M(1).panic THEN Panics ELSE M(2)
       [] e.op = "let"      -> MeaningOfBody(M(1), e.args[2], env)
       [] e.op = "if"       -> IF M(1).panic THEN Panics ELSE IF M(1).v # 0 THEN M(2) ELSE M(3)
       [] e.op = "trap"     -> IF M(1).panic THEN M(2) ELSE M(1)
       [] e.op = "call"     -> IF M(1).panic \/ M(2).panic THEN Panics
                               ELSE Meaning(Callee, <<M(1).v, M(2).v>>)

-----------------------------------------------------------------------------
(* The analyses of src/compiler/analysis/mod.rs that code generation uses. *)

RECURSIVE returns_ptr(_, _), is_pure(_), complexity(_)

(* returns_ptr_with_stack: does e yield a managed pointer, given which     *)
(* variables do?                                                           *)
returns_ptr(e, ptrs) ==
  CASE e.op \in {"lit", "cat", "str"} -> TRUE
    [] e.op \in References            -> e.n < Len(ptrs) /\ ptrs[Len(ptrs) - e.n]
    [] e.op = "let"  -> returns_ptr(e.args[2], Append(ptrs, returns_ptr(e.args[1], ptrs)))
    [] e.op = "seq"  -> returns_ptr(e.args[2], ptrs)
    [] e.op = "if"   -> returns_ptr(e.args[2], ptrs) \/ returns_ptr(e.args[3], ptrs)
    [] e.op = "trap" -> returns_ptr(e.args[1], ptrs) \/ returns_ptr(e.args[2], ptrs)
    [] e.op = "call" -> returns_ptr(Callee, <<TRUE, TRUE>>)
    [] OTHER         -> FALSE

(* A call is pure when its arguments are, whatever the function does.      *)
is_pure(e) ==
  /\ e.op \notin {"panic", "trap"}
  /\ \A k \in DOMAIN e.args : is_pure(e.args[k])

Weight(op) == CASE op \in {"lit", "num", "var", "len", "str", "if", "let"} -> 1
                [] op \in {"move", "borrow"} -> 2
                [] op \in {"cat", "seq"}     -> 5
                [] op = "call"               -> 6
                [] op = "panic"              -> 10
                [] op = "trap"               -> 20

complexity(e) ==
  LET C(k) == IF k \in DOMAIN e.args THEN complexity(e.args[k]) ELSE 0
  IN Weight(e.op) + C(1) + C(2) + C(3)

-----------------------------------------------------------------------------
(* The discipline.  A variable leaves its scope, or enters a call or a     *)
(* binding, only by a move; elsewhere it is read in place; and an operand  *)
(* is not moved by a later operand of the same operation.                  *)

RECURSIVE Free(_, _, _), Disciplined(_), Mentions(_, _)

Mentions(e, op) == e.op = op \/ \E k \in DOMAIN e.args : Mentions(e.args[k], op)

(* The variables of e's scope that a node of one of the kinds names.       *)
Free(e, kinds, d) ==
  IF e.op \in References
  THEN IF e.op \in kinds /\ e.n >= d THEN {e.n - d} ELSE {}
  ELSE UNION {Free(e.args[k], kinds, IF e.op = "let" /\ k = 2 THEN d + 1 ELSE d) : k \in DOMAIN e.args}

KeepsLent(l, r) == Free(l, References, 0) \cap Free(r, {"move"}, 0) = {}

InPlace(e)  == e.op \in References \/ Disciplined(e)
Passed(e)   == e.op = "borrow" \/ Disciplined(e)

Disciplined(e) ==
  CASE e.op \in {"var", "borrow"} -> FALSE
    [] e.op = "cat"  -> InPlace(e.args[1]) /\ InPlace(e.args[2]) /\ KeepsLent(e.args[1], e.args[2])
    [] e.op = "call" -> Passed(e.args[1]) /\ Passed(e.args[2]) /\ KeepsLent(e.args[1], e.args[2])
    [] e.op = "len"  -> e.args[1].op \in {"var", "borrow", "lit"}
    [] e.op = "seq"  -> InPlace(e.args[1]) /\ Disciplined(e.args[2])
    [] OTHER         -> \A k \in DOMAIN e.args : Disciplined(e.args[k])

=============================================================================
