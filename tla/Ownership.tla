----------------------------- MODULE Ownership -----------------------------
(***************************************************************************)
(* A function of string parameters on its way through the compiler and     *)
(* through one execution: gen_function (src/compiler/codegen/symbol.rs)    *)
(* verifies the body and generates its code, which then runs on the heap   *)
(* of src/runtime/memory.c with the traps of src/runtime/io.c.             *)
(*                                                                         *)
(* A task forked for an argument runs at the fork or at the join; what its *)
(* other interleavings can do is the subject of module RefCount.  A block  *)
(* is never reused, so that a dangling pointer stays visible.              *)
(***************************************************************************)
EXTENDS Codegen, Integers, TLC

CONSTANT Sizes  \* Sizes[p] bounds the size of the bodies of functions of p parameters

ASSUME OwnershipAssumption == Sizes \in Seq(Nat)

VARIABLES
  params,    \* the number of parameters
  prog,      \* the body
  phase,     \* where the function has got to
  crash,     \* when the compiler panicked: the diagnostic and the parallel depth
  shift,     \* code was generated for a capture that leaves out a moved variable
  code,      \* the instructions still to execute
  env,       \* temporary -> number, static string (0) or block
  heap,      \* block -> [rc, text]
  tasks,     \* temporary of a handle -> the code of its task, while not yet run
  traps,     \* the trap stack: what to execute when a panic arrives
  result     \* the value returned

vars == <<params, prog, phase, crash, shift, code, env, heap, tasks, traps, result>>

Static == 0

Text(v)    == IF v = Static THEN LitContent ELSE heap[v].text
Usable(v)  == v = Static \/ heap[v].rc > 0
Value1     == env[Head(code).src[1]]
Value2     == env[Head(code).src[2]]
Bind(d, v) == env' = (d :> v) @@ env
Alloc(t)   == heap' = Append(heap, [rc |-> 1, text |-> t])
Advance    == code' = Tail(code)
At(op)     == phase = "running" /\ Head(code).op = op

Init ==
  /\ params \in DOMAIN Sizes
  /\ \E size \in 1 .. Sizes[params] : prog \in StringExprs(size, params)
  /\ phase = "parsed"
  /\ crash = [err |-> None, depth |-> 0]
  /\ shift = FALSE
  /\ code = <<>>
  /\ env = [p \in 1 .. params |-> p]
  /\ heap = [p \in 1 .. params |-> [rc |-> 1, text |-> <<p>>]]
  /\ tasks = <<>>
  /\ traps = <<>>
  /\ result = Static

(* gen_function runs the verifier on the body first.                       *)
VerifyFunction ==
  /\ phase = "parsed"
  /\ phase' = IF Verify(prog, Repeat(Available, params)).err = None THEN "verified" ELSE "rejected"
  /\ UNCHANGED <<params, prog, crash, shift, code, env, heap, tasks, traps, result>>

Compiled == GenFunction(prog, [p \in 1 .. params |-> p] \o <<>>, fn_param_ptrs(prog, params), params + 1)

Compile ==
  /\ phase = "verified"
  /\ LET r == Compiled
     IN IF r.err # None
        THEN /\ phase' = "crashed"
             /\ crash' = [err |-> r.err, depth |-> r.depth]
             /\ UNCHANGED <<code, shift>>
        ELSE /\ phase' = "running"
             /\ code' = Append(r.code, Op("ret", 0, r.vals))
             /\ shift' = r.shift
             /\ UNCHANGED crash
  /\ UNCHANGED <<params, prog, env, heap, tasks, traps, result>>

-----------------------------------------------------------------------------
(* Instructions *)

Constant ==
  /\ phase = "running"
  /\ \/ Head(code).op = "num" /\ Bind(Head(code).dst, Head(code).src[1])
     \/ Head(code).op = "lit" /\ Bind(Head(code).dst, Static)
  /\ Advance
  /\ UNCHANGED <<params, prog, phase, crash, shift, heap, tasks, traps, result>>

(* A pointer to a block already destroyed is used: what follows is         *)
(* undefined, and the execution ends here.                                 *)
Misuse ==
  /\ phase' = "fault"
  /\ UNCHANGED <<params, prog, crash, shift, code, env, heap, tasks, traps, result>>

Cat ==
  /\ At("cat")
  /\ IF Usable(Value1) /\ Usable(Value2)
     THEN /\ Alloc(Text(Value1) \o Text(Value2))
          /\ Bind(Head(code).dst, Len(heap) + 1)
          /\ Advance
          /\ UNCHANGED <<params, prog, phase, crash, shift, tasks, traps, result>>
     ELSE Misuse

Length ==
  /\ At("len")
  /\ IF Usable(Value1)
     THEN /\ Bind(Head(code).dst, Len(Text(Value1)))
          /\ Advance
          /\ UNCHANGED <<params, prog, phase, crash, shift, heap, tasks, traps, result>>
     ELSE Misuse

Itoa ==
  /\ At("str")
  /\ Alloc(<<Value1>>)
  /\ Bind(Head(code).dst, Len(heap) + 1)
  /\ Advance
  /\ UNCHANGED <<params, prog, phase, crash, shift, tasks, traps, result>>

(* llm_dup and llm_drop leave a static string alone: it has no magic.      *)
Count(step) ==
  /\ IF Value1 = Static THEN Advance /\ UNCHANGED <<phase, heap>>
     ELSE IF Usable(Value1) THEN Advance /\ heap' = [heap EXCEPT ![Value1].rc = @ + step] /\ UNCHANGED phase
     ELSE phase' = "fault" /\ UNCHANGED <<code, heap>>
  /\ UNCHANGED <<params, prog, crash, shift, env, tasks, traps, result>>

Dup  == At("dup") /\ Count(1)
Drop == At("drop") /\ Count(-1)

Copy ==
  /\ At("copy")
  /\ Bind(Head(code).dst, Value1)
  /\ Advance
  /\ UNCHANGED <<params, prog, phase, crash, shift, heap, tasks, traps, result>>

(* Mutant of Taken: the comparison has the wrong polarity.                 *)
TakenInverted(v) == IF v = 0 THEN 1 ELSE 2

Taken(v) == IF v # 0 THEN 1 ELSE 2

Branch ==
  /\ At("br")
  /\ code' = Head(code).sub[Taken(Value1)] \o Tail(code)
  /\ UNCHANGED <<params, prog, phase, crash, shift, env, heap, tasks, traps, result>>

(* llm_fork: a worker takes the task at once, or not before the join.      *)
Fork ==
  /\ At("fork")
  /\ \/ code' = Head(code).sub[1] \o Tail(code) /\ UNCHANGED tasks
     \/ tasks' = (Head(code).dst :> Head(code).sub[1]) @@ tasks /\ Advance
  /\ UNCHANGED <<params, prog, phase, crash, shift, env, heap, traps, result>>

Join ==
  /\ At("join")
  /\ LET h == Head(code).dst
     IN IF h \in DOMAIN tasks
        THEN /\ code' = tasks[h] \o Tail(code)
             /\ tasks' = [k \in DOMAIN tasks \ {h} |-> tasks[k]]
        ELSE Advance /\ UNCHANGED tasks
  /\ UNCHANGED <<params, prog, phase, crash, shift, env, heap, traps, result>>

(* llm_try: run the body under a trap; a panic resumes at the fallback,    *)
(* outside of the trap.                                                    *)
Try ==
  /\ At("try")
  /\ traps' = Append(traps, Head(code).sub[2] \o Tail(code))
  /\ code' = Append(Head(code).sub[1], Op("untrap", 0, <<>>)) \o Tail(code)
  /\ UNCHANGED <<params, prog, phase, crash, shift, env, heap, tasks, result>>

(* Mutant of Outer: the frame stays on the trap stack.                     *)
OuterKept(frames) == frames

Outer(frames) == SubSeq(frames, 1, Len(frames) - 1)

Untrap ==
  /\ At("untrap")
  /\ traps' = Outer(traps)
  /\ Advance
  /\ UNCHANGED <<params, prog, phase, crash, shift, env, heap, tasks, result>>

(* llm_panic.  A task not yet run is lost to its joiner.                   *)
Panicking ==
  /\ At("panic")
  /\ IF traps = <<>>
     THEN phase' = "exited" /\ UNCHANGED <<code, traps>>
     ELSE /\ code' = traps[Len(traps)]
          /\ traps' = Outer(traps)
          /\ UNCHANGED phase
  /\ tasks' = <<>>
  /\ UNCHANGED <<params, prog, crash, shift, env, heap, result>>

Return ==
  /\ At("ret")
  /\ IF Usable(Value1)
     THEN /\ phase' = "returned"
          /\ result' = Value1
          /\ Advance
          /\ UNCHANGED <<params, prog, crash, shift, env, heap, tasks, traps>>
     ELSE Misuse

Next ==
  \/ VerifyFunction \/ Compile
  \/ Constant \/ Cat \/ Length \/ Itoa \/ Dup \/ Drop \/ Copy \/ Branch
  \/ Fork \/ Join \/ Try \/ Untrap \/ Panicking \/ Return

Spec == Init /\ [][Next]_vars

-----------------------------------------------------------------------------
(* Properties *)

Phases == {"parsed", "verified", "rejected", "crashed", "running", "fault", "exited", "returned"}

(* Type invariant; a function that returns has left its traps and run its  *)
(* tasks.                                                                  *)
TypeOK ==
  /\ phase \in Phases
  /\ crash.depth \in 0 .. MaxParallelDepth
  /\ \A b \in DOMAIN heap : heap[b].rc \in Nat
  /\ \A t \in DOMAIN env : env[t] \in Nat
  /\ result \in {Static} \cup DOMAIN heap
  /\ phase = "returned" => traps = <<>> /\ tasks = <<>>

(* The programs the promises below are about: disciplined ones, in which   *)
(* the fixed point has found every parameter to be a pointer.              *)
Sound == Disciplined(prog) /\ fn_param_ptrs(prog, params) = Repeat(TRUE, params)

(* No disciplined function reads or drops a destroyed string, or drops one *)
(* twice, wherever gen_expr puts its drops and dups.                       *)
MemorySafe == phase = "fault" => ~Sound

(* When a disciplined function without panics returns, what it was given   *)
(* and what it made is destroyed, except for the result, which its caller  *)
(* owns alone.                                                             *)
NoLeak ==
  (phase = "returned" /\ Sound /\ ~Mentions(prog, "panic")) =>
    \A b \in DOMAIN heap : heap[b].rc = IF b = result THEN 1 ELSE 0

(* A function that keeps its memory in order computes what its body means, *)
(* and exits through a panic only if its body means one, unless a trap or  *)
(* a forked argument was generated while a variable in scope was moved.    *)
Intended == Meaning(prog, [p \in 1 .. params |-> <<p>>])

ComputesMeaning ==
  ~shift => /\ phase = "returned" => ~Intended.panic /\ Text(result) = Intended.v
            /\ phase = "exited" => Intended.panic

(* What the verifier accepts, the generator compiles: the panics left are  *)
(* raised inside outlined tasks, which the verifier does not know of.      *)
VerifiedCompiles == phase = "crashed" => crash.depth > 0

-----------------------------------------------------------------------------
(* Documented, and not so.                                                 *)

(* README.md:17: the ownership system "guarantees zero use-after-free or   *)
(* double-free".                                                           *)
VerifiedIsMemorySafe == phase # "fault"

(* DESIGN.md:14: variables are referenced "by their relative distance or   *)
(* index in the scope".  A trap or a task built after a move counts the    *)
(* distance in the list of what it captured.                               *)
ReferencesKeepDistance ==
  (phase = "returned" /\ Free(prog, {"move"}, 0) \cap Free(prog, {"var", "borrow"}, 0) = {}) =>
    Text(result) = Intended.v

=============================================================================
