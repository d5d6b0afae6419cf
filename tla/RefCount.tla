------------------------------ MODULE RefCount ------------------------------
(***************************************************************************)
(* Reference-counted values, src/src/runtime/memory.c, as the tasks of one *)
(* compiled program use them.                                              *)
(*                                                                         *)
(* llm_dup and llm_drop are not atomic: each reads header->magic, then     *)
(* adds to or subtracts from header->ref_cnt with one atomic instruction;  *)
(* the drop that took the last reference clears magic and frees.  Those    *)
(* are separate steps here.  Nothing else protects a value, so whether a   *)
(* value is alive at each step depends on who still holds a reference,     *)
(* which is what the compiler decides.  A reference is a variable, a       *)
(* parameter or a temporary that holds the pointer and owes one drop.      *)
(*                                                                         *)
(* A forked task captures what its parent can see (gen_parallel_expr).     *)
(* The captures are Borrowed in the task: it may read and dup them but     *)
(* never drops them.  CallerKeepsLent says whether the parent leaves the   *)
(* captured references alone until it has joined the task.                 *)
(***************************************************************************)
EXTENDS Naturals, FiniteSets

CONSTANTS
  Tasks, Root, Parent,  \* the tasks of the program, as in ThreadPool
  Objs,                 \* heap blocks, with a header written by llm_rt_alloc
  Static,               \* string constants, whose header has magic 0
  Refs,                 \* at most this many references at a time
  NoObj, NoRef,
  CallerKeepsLent

ASSUME TasksAssumption == Root \in Tasks /\ Parent \in [Tasks \ {Root} -> Tasks]

\* The tasks are a tree: only the empty set of them has all its parents.
ASSUME TreeAssumption ==
  \A S \in SUBSET (Tasks \ {Root}) : (\A q \in S : Parent[q] \in S) => S = {}

ASSUME ObjsAssumption == NoObj \notin Objs \cup Static /\ Objs \cap Static = {}

ASSUME RefsAssumption ==
  IsFiniteSet(Refs) /\ NoRef \notin Refs /\ CallerKeepsLent \in BOOLEAN

Forked == Tasks \ {Root}
Values == Objs \cup Static

VARIABLES
  mem,    \* a block: not allocated yet, allocated, freed
  magic,  \* header->magic = 0x4C4C4D52
  cnt,    \* header->ref_cnt
  obj,    \* what a reference points to, NoObj when the reference does not exist
  owner,  \* the task that owes the drop of a reference
  phase,  \* of a task: not forked yet, running, returned, joined
  lent,   \* the references a task captured from its parent
  sees,   \* the values behind them
  step,   \* where a task is in llm_dup or llm_drop
  arg,    \* the value it is duplicating or dropping
  hand    \* the reference it is dropping

heap == <<mem, magic, cnt>>
env  == <<phase, lent, sees>>
call == <<step, arg, hand>>
vars == <<mem, magic, cnt, obj, owner, phase, lent, sees, step, arg, hand>>

Init ==
  /\ mem   = [o \in Objs |-> "none"]
  /\ magic = [o \in Values |-> FALSE]
  /\ cnt   = [o \in Objs |-> 0]
  /\ obj   = [r \in Refs |-> NoObj]
  /\ owner = [r \in Refs |-> Root]
  /\ phase = [p \in Tasks |-> IF p = Root THEN "run" ELSE "idle"]
  /\ lent  = [p \in Tasks |-> {}]
  /\ sees  = [p \in Tasks |-> {}]
  /\ step  = [p \in Tasks |-> "none"]
  /\ arg   = [p \in Tasks |-> NoObj]
  /\ hand  = [p \in Tasks |-> NoRef]

Owned(p)   == {r \in Refs : owner[r] = p /\ obj[r] # NoObj}
Visible(p) == {obj[r] : r \in Owned(p)} \cup sees[p]
Running(p) == {q \in Forked : Parent[q] = p /\ phase[q] \in {"run", "returned"}}

\* The task runs its own code, not llm_dup or llm_drop.
InCode(p) == phase[p] = "run" /\ step[p] = "none"

Unused(r) == obj[r] = NoObj

Take(p, r, o) == /\ Unused(r)
                 /\ obj'   = [obj EXCEPT ![r] = o]
                 /\ owner' = [owner EXCEPT ![r] = p]

Release(r) == obj' = [obj EXCEPT ![r] = NoObj] /\ UNCHANGED owner

\* A call of llm_dup or llm_drop on o, through the reference r, goes on at place.
Enter(p, place, o, r) ==
  /\ step' = [step EXCEPT ![p] = place]
  /\ arg'  = [arg EXCEPT ![p] = o]
  /\ hand' = [hand EXCEPT ![p] = r]

Return(p) == Enter(p, "none", NoObj, NoRef)

-----------------------------------------------------------------------------
(* Where values come from. *)

\* llm_rt_alloc: a block that malloc has never given out, or one that was freed;
\* one reference.
Alloc(p, r, o) ==
  /\ InCode(p) /\ mem[o] # "live"
  /\ Take(p, r, o)
  /\ mem'   = [mem EXCEPT ![o] = "live"]
  /\ magic' = [magic EXCEPT ![o] = TRUE]
  /\ cnt'   = [cnt EXCEPT ![o] = 1]
  /\ UNCHANGED <<env, call>>

\* A string literal: a pointer into the program's constants.
Literal(p, r, o) ==
  /\ InCode(p) /\ o \in Static
  /\ Take(p, r, o)
  /\ UNCHANGED <<heap, env, call>>

-----------------------------------------------------------------------------
(* llm_dup and llm_drop. *)

\* Mutants: an increment that is lost, a decrement made twice, the value after
\* the decrement taken for the one before it, a comparison that is off by one,
\* a header that is not looked at.
AddedLost(o)       == cnt[o]
SubtractedTwice(o) == cnt[o] - 2
LastIfZero(o)      == cnt[o] = 0
LastIfTwo(o)       == cnt[o] <= 2
ManagedAlways(o)   == o \in Values

\* atomic_fetch_add and atomic_fetch_sub leave these in ref_cnt.
Added(o)      == cnt[o] + 1
Subtracted(o) == cnt[o] - 1

\* The value fetch_sub returns, which is the one before it, is 1.
IsLast(o) == cnt[o] = 1

Managed(o) == magic[o]

\* llm_dup reads magic; a constant is returned as it is.
DupCheck(p, o) ==
  /\ InCode(p) /\ o \in Visible(p)
  /\ IF Managed(o)
     THEN Enter(p, "inc", o, NoRef) /\ UNCHANGED <<obj, owner>>
     ELSE (\E r \in Refs : Take(p, r, o)) /\ UNCHANGED call
  /\ UNCHANGED <<heap, env>>

\* llm_dup takes the new reference.
DupInc(p, r) ==
  /\ step[p] = "inc"
  /\ Take(p, r, arg[p])
  /\ cnt' = [cnt EXCEPT ![arg[p]] = Added(arg[p])]
  /\ Return(p)
  /\ UNCHANGED <<mem, magic, env>>

\* The references that children of p captured and may still use.
OnLoan(p) == UNION {lent[q] : q \in Running(p)}

\* llm_drop on a reference that p owns reads magic; a constant is left alone.
DropCheck(p, r) ==
  /\ InCode(p) /\ r \in Owned(p)
  /\ CallerKeepsLent => r \notin OnLoan(p)
  /\ IF Managed(obj[r])
     THEN Enter(p, "sub", obj[r], r) /\ UNCHANGED <<obj, owner>>
     ELSE Release(r) /\ UNCHANGED call
  /\ UNCHANGED <<heap, env>>

\* The reference is gone; whoever took the last one goes on to destroy.
DropSub(p) ==
  /\ step[p] = "sub"
  /\ Release(hand[p])
  /\ cnt' = [cnt EXCEPT ![arg[p]] = Subtracted(arg[p])]
  /\ IF IsLast(arg[p]) THEN Enter(p, "clear", arg[p], NoRef) ELSE Return(p)
  /\ UNCHANGED <<mem, magic, env>>

\* header->magic = 0.
DropClear(p) ==
  /\ step[p] = "clear"
  /\ magic' = [magic EXCEPT ![arg[p]] = FALSE]
  /\ Enter(p, "free", arg[p], NoRef)
  /\ UNCHANGED <<mem, cnt, obj, owner, env>>

\* What the type requires is destroyed, and free(header).
DropFree(p) ==
  /\ step[p] = "free"
  /\ mem' = [mem EXCEPT ![arg[p]] = "freed"]
  /\ Return(p)
  /\ UNCHANGED <<magic, cnt, obj, owner, env>>

-----------------------------------------------------------------------------
(* Tasks. *)

\* gen_parallel_expr stores every Available or Borrowed variable in the task's
\* environment, and forks it.  What p borrows is among them, and so are those of
\* its own references, captured, that are variables and not temporaries.
Fork(p, q, captured) ==
  /\ InCode(p) /\ q \in Forked /\ Parent[q] = p /\ phase[q] = "idle"
  /\ phase' = [phase EXCEPT ![q] = "run"]
  /\ lent'  = [lent EXCEPT ![q] = captured \cup lent[p]]
  /\ sees'  = [sees EXCEPT ![q] = {obj[r] : r \in captured} \cup sees[p]]
  /\ UNCHANGED <<heap, obj, owner, call>>

\* The task has joined its own children and returns a value it owns, or none.
Finish(p) ==
  /\ InCode(p) /\ p # Root /\ Running(p) = {} /\ Cardinality(Owned(p)) <= 1
  /\ phase' = [phase EXCEPT ![p] = "returned"]
  /\ UNCHANGED <<heap, obj, owner, lent, sees, call>>

\* llm_join hands the result to the parent; the captures are out of use.
Join(p, q) ==
  /\ InCode(p) /\ q \in Running(p) /\ phase[q] = "returned"
  /\ phase' = [phase EXCEPT ![q] = "joined"]
  /\ owner' = [r \in Refs |-> IF owner[r] = q THEN p ELSE owner[r]]
  /\ lent'  = [lent EXCEPT ![q] = {}]
  /\ sees'  = [sees EXCEPT ![q] = {}]
  /\ UNCHANGED <<heap, obj, call>>

Next ==
  \E p \in Tasks :
    \/ \E r \in Refs, o \in Objs : Alloc(p, r, o)
    \/ \E r \in Refs, o \in Static : Literal(p, r, o)
    \/ \E o \in Values : DupCheck(p, o)
    \/ \E r \in Refs : DupInc(p, r) \/ DropCheck(p, r)
    \/ DropSub(p) \/ DropClear(p) \/ DropFree(p)
    \/ \E q \in Forked :
         \/ \E captured \in SUBSET Owned(p) : Fork(p, q, captured)
         \/ Join(p, q)
    \/ Finish(p)

Spec == Init /\ [][Next]_vars

-----------------------------------------------------------------------------
(* Properties. *)

\* Every variable keeps its type.
TypeOK ==
  /\ mem \in [Objs -> {"none", "live", "freed"}]
  /\ magic \in [Values -> BOOLEAN]
  /\ cnt \in [Objs -> 0 .. Cardinality(Refs)]
  /\ obj \in [Refs -> Values \cup {NoObj}]
  /\ owner \in [Refs -> Tasks]
  /\ phase \in [Tasks -> {"idle", "run", "returned", "joined"}]
  /\ lent \in [Tasks -> SUBSET Refs]
  /\ sees \in [Tasks -> SUBSET Values]
  /\ step \in [Tasks -> {"none", "inc", "sub", "clear", "free"}]
  /\ arg \in [Tasks -> Values \cup {NoObj}]
  /\ hand \in [Tasks -> Refs \cup {NoRef}]

\* ref_cnt is the number of references, in every interleaving of the tasks' dups
\* and drops: no update is lost.
CountExact ==
  \A o \in Objs : mem[o] = "live" => cnt[o] = Cardinality({r \in Refs : obj[r] = o})

\* What a task can name and what a dup or a drop is working on is allocated: no
\* use after free, and no write to a string constant.
NoUseAfterFree ==
  /\ \A p \in Tasks : \A o \in Visible(p) \cap Objs :
       phase[p] = "run" => mem[o] = "live"
  /\ \A p \in Tasks : step[p] # "none" => arg[p] \in Objs /\ mem[arg[p]] = "live"

\* The task that dropped the last reference destroys the value alone.
DestroyedOnce ==
  \A p, q \in Tasks :
    /\ step[p] \in {"clear", "free"} /\ step[q] # "none"
    /\ arg[p] = arg[q]
    => p = q

\* A value without references is being freed: nothing leaks.
NoLeak ==
  \A o \in Objs : mem[o] = "live" =>
    \/ \E r \in Refs : obj[r] = o
    \/ \E p \in Tasks : step[p] \in {"clear", "free"} /\ arg[p] = o
=============================================================================
