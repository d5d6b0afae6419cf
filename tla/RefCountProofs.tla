--------------------------- MODULE RefCountProofs ---------------------------
(***************************************************************************)
(* Reference counting is right for any tree of tasks and any number of     *)
(* values and references, if every caller leaves alone what its tasks have *)
(* captured (CallerKeepsLent); RefCountApply shows what happens otherwise. *)
(*                                                                         *)
(* No step looks further than one task and its parent.  That a reference   *)
(* its owner may drop is borrowed nowhere below is the one fact about the  *)
(* whole tree (NotLent).                                                   *)
(***************************************************************************)
EXTENDS RefCount, FiniteSetTheorems, TLAPS

\* A task's parent runs until the task is joined, and only those that are up borrow.
Nested ==
  /\ phase[Root] = "run"
  /\ \A q \in Forked : phase[q] \in {"run", "returned"} => phase[Parent[q]] = "run"
  /\ \A p \in Tasks : phase[p] \in {"idle", "joined"} => lent[p] = {}
  /\ \A p \in Tasks : step[p] # "none" => phase[p] = "run"
  /\ lent[Root] = {}

\* What a task borrows is its parent's, or borrowed by its parent.
Loans ==
  /\ \A q \in Tasks : sees[q] = {obj[r] : r \in lent[q]}
  /\ \A q \in Tasks : \A r \in lent[q] : obj[r] # NoObj
  /\ \A q \in Forked : \A r \in lent[q] : owner[r] = Parent[q] \/ r \in lent[Parent[q]]

\* What each step of llm_dup and llm_drop still relies on.
Calls ==
  /\ \A p \in Tasks : step[p] = "inc" => arg[p] \in Objs /\ arg[p] \in Visible(p)
  /\ \A p \in Tasks : step[p] = "sub" =>
       /\ hand[p] \in Refs /\ obj[hand[p]] = arg[p] /\ owner[hand[p]] = p /\ arg[p] \in Objs
       /\ \A q \in Tasks : hand[p] \notin lent[q]
  /\ \A p \in Tasks : step[p] \in {"clear", "free"} =>
       arg[p] \in Objs /\ mem[arg[p]] = "live" /\ \A r \in Refs : obj[r] # arg[p]
  /\ \A p, q \in Tasks : step[p] \in {"clear", "free"} /\ step[q] \in {"clear", "free"} /\ arg[p] = arg[q] => p = q

\* A value that is referred to is alive and looks it.
Live ==
  /\ \A r \in Refs : obj[r] \in Objs => mem[obj[r]] = "live" /\ magic[obj[r]]
  /\ \A o \in Static : ~magic[o]

CountInv == TypeOK /\ Nested /\ Loans /\ Calls /\ Live /\ CountExact /\ NoLeak

-----------------------------------------------------------------------------
(* References are counted. *)

RefsOf(o) == {r \in Refs : obj[r] = o}

LEMMA RefsFinite ==
  ASSUME NEW o
  PROVE  /\ IsFiniteSet(RefsOf(o)) /\ Cardinality(RefsOf(o)) \in 0 .. Cardinality(Refs)
         /\ Cardinality(Refs) \in Nat
<1>1. RefsOf(o) \subseteq Refs
  BY DEF RefsOf
<1> QED
  BY <1>1, RefsAssumption, FS_Subset, FS_CardinalityType

LEMMA TakeCounts ==
  ASSUME TypeOK, NEW p \in Tasks, NEW r \in Refs, NEW o \in Values, Take(p, r, o)
  PROVE  /\ Cardinality(RefsOf(o)') = Cardinality(RefsOf(o)) + 1
         /\ \A v \in Objs : v # o => RefsOf(v)' = RefsOf(v)
         /\ Cardinality(RefsOf(o)) + 1 \in 0 .. Cardinality(Refs)
<1>1. obj[r] = NoObj /\ obj' = [obj EXCEPT ![r] = o] /\ o # NoObj
  BY ObjsAssumption DEF Take, Unused, Values
<1>2. RefsOf(o)' = RefsOf(o) \cup {r} /\ r \notin RefsOf(o)
  BY <1>1 DEF RefsOf, TypeOK
<1>3. \A v \in Objs : v # o => RefsOf(v)' = RefsOf(v)
  BY <1>1, ObjsAssumption DEF RefsOf, TypeOK
<1>4. Cardinality(RefsOf(o)') = Cardinality(RefsOf(o)) + 1
  BY <1>2, RefsFinite, FS_AddElement
<1>5. RefsOf(o)' \subseteq Refs
  BY DEF RefsOf
<1>6. Cardinality(RefsOf(o)') \in 0 .. Cardinality(Refs)
  BY <1>5, RefsAssumption, FS_Subset, FS_CardinalityType
<1> QED
  BY <1>3, <1>4, <1>6

LEMMA ReleaseCounts ==
  ASSUME TypeOK, NEW r \in Refs, NEW o \in Objs, obj[r] = o, Release(r)
  PROVE  /\ Cardinality(RefsOf(o)') = Cardinality(RefsOf(o)) - 1
         /\ Cardinality(RefsOf(o)) - 1 \in 0 .. Cardinality(Refs)
         /\ \A v \in Objs : v # o => RefsOf(v)' = RefsOf(v)
         /\ Cardinality(RefsOf(o)) = 1 => RefsOf(o)' = {}
         /\ Cardinality(RefsOf(o)) # 1 => RefsOf(o)' # {}
<1>1. obj' = [obj EXCEPT ![r] = NoObj] /\ o # NoObj
  BY ObjsAssumption DEF Release
<1>2. RefsOf(o)' = RefsOf(o) \ {r} /\ r \in RefsOf(o)
  BY <1>1 DEF RefsOf, TypeOK
<1>3. \A v \in Objs : v # o => RefsOf(v)' = RefsOf(v)
  BY <1>1, ObjsAssumption DEF RefsOf, TypeOK
<1>4. Cardinality(RefsOf(o)') = Cardinality(RefsOf(o)) - 1 /\ IsFiniteSet(RefsOf(o)')
  BY <1>2, RefsFinite, FS_RemoveElement
<1>5. Cardinality(RefsOf(o)) \in 0 .. Cardinality(Refs) /\ Cardinality(Refs) \in Nat /\ Cardinality(RefsOf(o)') \in Nat
  BY <1>4, RefsFinite, FS_CardinalityType
<1>6. Cardinality(RefsOf(o)) - 1 \in 0 .. Cardinality(Refs)
  BY <1>4, <1>5
<1>7. Cardinality(RefsOf(o)') = 0 <=> RefsOf(o)' = {}
  BY <1>4, FS_EmptySet
<1> QED
  BY <1>3, <1>4, <1>5, <1>6, <1>7

LEMMA Counted ==
  CountExact <=> \A o \in Objs : mem[o] = "live" => cnt[o] = Cardinality(RefsOf(o))
BY DEF CountExact, RefsOf

LEMMA InitCount == Init => CountInv
<1> SUFFICES ASSUME Init PROVE CountInv
  OBVIOUS
<1> USE DEF Init
<1>1. TypeOK
  BY TasksAssumption, RefsAssumption, FS_CardinalityType DEF TypeOK, Values
<1>2. Nested /\ Loans
  BY TasksAssumption DEF Nested, Loans, Forked
<1>3. Calls /\ Live /\ CountExact /\ NoLeak
  BY ObjsAssumption DEF Calls, Live, CountExact, NoLeak, Values
<1> QED
  BY <1>1, <1>2, <1>3 DEF CountInv

-----------------------------------------------------------------------------
(* One lemma per action. *)

\* A step that leaves alone what is borrowed.
LEMMA LoansSame ==
  ASSUME CountInv, UNCHANGED <<lent, sees>>, obj' \in [Refs -> Values \cup {NoObj}],
         \A q \in Tasks : \A r \in lent[q] : obj'[r] = obj[r] /\ owner'[r] = owner[r]
  PROVE  Loans'
<1>1. \A q \in Tasks : {obj'[r] : r \in lent'[q]} = {obj[r] : r \in lent[q]}
  OBVIOUS
<1>2. \A q \in Tasks : sees'[q] = {obj'[r] : r \in lent'[q]}
  BY <1>1 DEF CountInv, Loans
<1>3. \A q \in Tasks : \A r \in lent'[q] : obj'[r] # NoObj
  BY DEF CountInv, Loans
<1>4. \A q \in Forked : \A r \in lent'[q] : owner'[r] = Parent[q] \/ r \in lent'[Parent[q]]
  BY DEF CountInv, Loans, Forked
<1> QED
  BY <1>2, <1>3, <1>4 DEF Loans

\* The steps that change neither the heap nor who refers to what.
LEMMA HeapSame ==
  ASSUME CountInv, UNCHANGED <<mem, magic, cnt, obj>>
  PROVE  Live' /\ CountExact'
BY DEF CountInv, Live, CountExact

LEMMA AllocKeeps ==
  ASSUME CountInv, NEW p \in Tasks, NEW r \in Refs, NEW o \in Objs, Alloc(p, r, o)
  PROVE  CountInv'
<1> USE DEF CountInv, env, call
<1>1. /\ phase[p] = "run" /\ step[p] = "none" /\ mem[o] # "live" /\ obj[r] = NoObj /\ Take(p, r, o)
      /\ UNCHANGED <<phase, lent, sees, step, arg, hand>> /\ o \in Values /\ o # NoObj
      /\ \A x \in Refs : x # r => obj'[x] = obj[x] /\ owner'[x] = owner[x]
      /\ obj'[r] = o /\ owner'[r] = p
      /\ \A v \in Objs : v # o => mem'[v] = mem[v] /\ cnt'[v] = cnt[v] /\ magic'[v] = magic[v]
      /\ mem'[o] = "live" /\ cnt'[o] = 1 /\ magic'[o]
      /\ \A v \in Static : magic'[v] = magic[v]
  BY ObjsAssumption DEF Alloc, InCode, Take, Unused, Values, TypeOK
<1>2. \A x \in Refs : obj[x] # o
  BY <1>1 DEF Live
<1>3. RefsOf(o) = {} /\ Cardinality(RefsOf(o)) = 0
  BY <1>2, FS_EmptySet DEF RefsOf
<1>4. /\ Cardinality(RefsOf(o)') = 1 /\ 1 \in 0 .. Cardinality(Refs)
      /\ \A v \in Objs : v # o => RefsOf(v)' = RefsOf(v)
  <2>1. /\ Cardinality(RefsOf(o)') = Cardinality(RefsOf(o)) + 1
        /\ \A v \in Objs : v # o => RefsOf(v)' = RefsOf(v)
        /\ Cardinality(RefsOf(o)) + 1 \in 0 .. Cardinality(Refs)
    BY <1>1, TakeCounts
  <2> QED
    BY <1>3, <2>1
<1>5. \A q \in Tasks : r \notin lent[q] /\ lent[q] \subseteq Refs
  BY <1>1 DEF Loans, TypeOK
<1>6. TypeOK'
  BY <1>1, <1>4 DEF Alloc, Take, TypeOK
<1>7. Nested'
  BY <1>1 DEF Nested
<1>8. Loans'
  BY <1>1, <1>5, <1>6, LoansSame DEF TypeOK
<1>9. Calls'
  <2>1. \A q \in Tasks : step[q] # "none" => arg[q] # o
    BY <1>1, <1>2 DEF Calls, Visible, Owned, Loans, TypeOK
  <2>2. \A q \in Tasks : Visible(q) \subseteq Visible(q)'
    BY <1>1 DEF Visible, Owned
  <2>3. \A q \in Tasks : step[q] = "sub" => hand[q] # r
    BY <1>1, ObjsAssumption DEF Calls
  <2> QED
    BY <1>1, <2>1, <2>2, <2>3 DEF Calls
<1>10. Live'
  BY <1>1, <1>2 DEF Live
<1>11. CountExact'
  <2>1. ASSUME NEW v \in Objs, mem'[v] = "live" PROVE cnt'[v] = Cardinality(RefsOf(v)')
    <3>1. CASE v = o
      BY <1>1, <1>4, <3>1
    <3>2. CASE v # o
      <4>1. mem[v] = "live" /\ cnt'[v] = cnt[v] /\ RefsOf(v)' = RefsOf(v)
        BY <1>1, <1>4, <2>1, <3>2
      <4>2. cnt[v] = Cardinality(RefsOf(v))
        BY <4>1, Counted
      <4> QED
        BY <4>1, <4>2
    <3> QED
      BY <3>1, <3>2
  <2> QED
    BY <2>1 DEF CountExact, RefsOf
<1>12. NoLeak'
  BY <1>1, ObjsAssumption DEF NoLeak
<1> QED
  BY <1>6, <1>7, <1>8, <1>9, <1>10, <1>11, <1>12

\* A reference to a value that is referred to already, or to a constant.
LEMMA TakeKeeps ==
  ASSUME CountInv, NEW p \in Tasks, NEW r \in Refs, NEW o \in Values, Take(p, r, o),
         UNCHANGED <<mem, magic, env>>, TypeOK',
         phase[p] = "run", o \in Objs => \E x \in Refs : obj[x] = o,
         \A q \in Tasks : q # p => step'[q] = step[q] /\ arg'[q] = arg[q] /\ hand'[q] = hand[q],
         step'[p] = "none", step[p] \notin {"clear", "free"},
         \A v \in Objs : cnt'[v] = IF v = o THEN cnt[v] + 1 ELSE cnt[v]
  PROVE  CountInv'
<1> USE DEF CountInv, env
<1>1. /\ obj[r] = NoObj /\ o # NoObj /\ obj'[r] = o /\ owner'[r] = p
      /\ \A x \in Refs : x # r => obj'[x] = obj[x] /\ owner'[x] = owner[x]
  BY ObjsAssumption DEF Take, Unused, Values, TypeOK
<1>2. \A q \in Tasks : r \notin lent[q] /\ lent[q] \subseteq Refs
  BY <1>1 DEF Loans, TypeOK
<1>3. Nested'
  BY DEF Nested
<1>4. Loans'
  BY <1>1, <1>2, LoansSame DEF TypeOK
<1>5. Calls'
  <2>1. \A q \in Tasks : step[q] \in {"clear", "free"} => arg[q] # o
    BY DEF Calls
  <2>2. \A q \in Tasks : Visible(q) \subseteq Visible(q)'
    BY <1>1 DEF Visible, Owned
  <2>3. \A q \in Tasks : step[q] = "sub" => hand[q] # r
    BY <1>1, ObjsAssumption DEF Calls
  <2> QED
    BY <1>1, <2>1, <2>2, <2>3 DEF Calls
<1>6. Live'
  BY <1>1 DEF Live
<1>7. CountExact'
  <2>1. /\ Cardinality(RefsOf(o)') = Cardinality(RefsOf(o)) + 1
        /\ \A v \in Objs : v # o => RefsOf(v)' = RefsOf(v)
    BY TakeCounts
  <2>2. ASSUME NEW v \in Objs, mem'[v] = "live" PROVE cnt'[v] = Cardinality(RefsOf(v)')
    <3>1. cnt[v] = Cardinality(RefsOf(v))
      BY <2>2, Counted
    <3>2. CASE v = o
      BY <2>1, <3>1, <3>2
    <3>3. CASE v # o
      BY <2>1, <3>1, <3>3
    <3> QED
      BY <3>2, <3>3
  <2> QED
    BY <2>2 DEF CountExact, RefsOf
<1>8. NoLeak'
  <2>1. ASSUME NEW v \in Objs, mem[v] = "live"
        PROVE  (\E x \in Refs : obj'[x] = v) \/ (\E q \in Tasks : step'[q] \in {"clear", "free"} /\ arg'[q] = v)
    <3>1. CASE \E x \in Refs : obj[x] = v
      BY <1>1, <3>1, ObjsAssumption
    <3>2. CASE \E q \in Tasks : step[q] \in {"clear", "free"} /\ arg[q] = v
      <4>1. PICK q \in Tasks : step[q] \in {"clear", "free"} /\ arg[q] = v
        BY <3>2
      <4>2. q # p
        BY <4>1
      <4> QED
        BY <4>1, <4>2
    <3> QED
      BY <2>1, <3>1, <3>2 DEF NoLeak
  <2> QED
    BY <2>1 DEF NoLeak
<1> QED
  BY <1>3, <1>4, <1>5, <1>6, <1>7, <1>8

LEMMA LiteralKeeps ==
  ASSUME CountInv, NEW p \in Tasks, NEW r \in Refs, NEW o \in Static, Literal(p, r, o)
  PROVE  CountInv'
<1>1. TypeOK'
  BY DEF CountInv, TypeOK, Literal, Take, heap, env, call, Values
<1> QED
  BY <1>1, ObjsAssumption, TakeKeeps DEF Literal, InCode, heap, env, call, Values

\* A value in view of a running task is referred to, and so is alive.
LEMMA VisibleLive ==
  ASSUME CountInv, NEW p \in Tasks, NEW o \in Visible(p)
  PROVE  /\ o \in Values /\ \E r \in Refs : obj[r] = o
         /\ o \in Objs => mem[o] = "live" /\ magic[o]
<1>1. PICK r \in Refs : obj[r] = o /\ obj[r] # NoObj
  BY DEF Visible, Owned, CountInv, Loans, TypeOK
<1> QED
  BY <1>1 DEF CountInv, Live, TypeOK

LEMMA DupCheckKeeps ==
  ASSUME CountInv, NEW p \in Tasks, NEW o \in Values, DupCheck(p, o)
  PROVE  CountInv'
<1>1. /\ phase[p] = "run" /\ step[p] = "none" /\ o \in Visible(p) /\ UNCHANGED <<heap, env>>
  BY DEF DupCheck, InCode
<1>2. CASE Managed(o)
  <2> USE DEF CountInv, heap, env
  <2>1. /\ UNCHANGED <<obj, owner>> /\ o \in Objs
        /\ step' = [step EXCEPT ![p] = "inc"] /\ arg' = [arg EXCEPT ![p] = o] /\ hand' = [hand EXCEPT ![p] = NoRef]
    BY <1>2 DEF DupCheck, Enter, Managed, Live, Values
  <2>2. TypeOK'
    BY <1>1, <2>1 DEF TypeOK
  <2>3. Nested'
    BY <1>1, <2>1 DEF Nested, TypeOK
  <2>4. Loans'
    BY <1>1, <2>1, LoansSame DEF TypeOK
  <2>5. Calls'
    BY <1>1, <2>1 DEF Calls, Visible, Owned, TypeOK
  <2>6. Live' /\ CountExact'
    BY <1>1, <2>1, HeapSame
  <2>7. NoLeak'
    BY <1>1, <2>1 DEF NoLeak, TypeOK
  <2> QED
    BY <2>2, <2>3, <2>4, <2>5, <2>6, <2>7
<1>3. CASE ~Managed(o)
  <2>1. PICK r \in Refs : Take(p, r, o)
    BY <1>3 DEF DupCheck
  <2>2. UNCHANGED call /\ o \notin Objs
    BY <1>1, <1>3, VisibleLive DEF DupCheck, Managed
  <2>3. TypeOK'
    BY <1>1, <2>1, <2>2 DEF CountInv, TypeOK, Take, heap, env, call
  <2> QED
    BY <1>1, <2>1, <2>2, <2>3, TakeKeeps DEF heap, call
<1> QED
  BY <1>2, <1>3

LEMMA DupIncKeeps ==
  ASSUME CountInv, NEW p \in Tasks, NEW r \in Refs, DupInc(p, r)
  PROVE  CountInv'
<1> DEFINE o == arg[p]
<1>1. o \in Objs /\ o \in Values /\ o \in Visible(p) /\ phase[p] = "run" /\ step[p] = "inc"
  BY DEF DupInc, CountInv, Calls, Values, Nested
<1>2. (\E x \in Refs : obj[x] = o) /\ mem[o] = "live"
  BY <1>1, VisibleLive
<1>3. /\ Take(p, r, o) /\ UNCHANGED <<mem, magic, env>> /\ cnt' = [cnt EXCEPT ![o] = cnt[o] + 1]
      /\ step' = [step EXCEPT ![p] = "none"] /\ arg' = [arg EXCEPT ![p] = NoObj] /\ hand' = [hand EXCEPT ![p] = NoRef]
  BY DEF DupInc, Added, Return, Enter
<1>4. cnt[o] + 1 \in 0 .. Cardinality(Refs)
  BY <1>1, <1>2, <1>3, TakeCounts, Counted DEF CountInv
<1>5. TypeOK'
  BY <1>1, <1>3, <1>4 DEF CountInv, TypeOK, Take, env
<1>6. \A q \in Tasks : q # p => step'[q] = step[q] /\ arg'[q] = arg[q] /\ hand'[q] = hand[q]
  BY <1>3 DEF CountInv, TypeOK
<1>7. step'[p] = "none" /\ \A v \in Objs : cnt'[v] = IF v = o THEN cnt[v] + 1 ELSE cnt[v]
  BY <1>3 DEF CountInv, TypeOK
<1> QED
  BY <1>1, <1>2, <1>3, <1>5, <1>6, <1>7, TakeKeeps

\* A reference its owner has not on loan is borrowed by nobody: who borrows it
\* got it from its parent, and so on up to a task that got it from the owner.
LEMMA NotLent ==
  ASSUME CountInv, NEW p \in Tasks, NEW r \in Refs, owner[r] = p, r \notin OnLoan(p)
  PROVE  \A q \in Tasks : r \notin lent[q]
<1> USE DEF CountInv
<1> DEFINE S == {q \in Forked : r \in lent[q]}
<1>1. ASSUME NEW q \in S PROVE Parent[q] \in S
  <2>1. q \in Forked /\ q \in Tasks /\ r \in lent[q] /\ phase[q] \in {"run", "returned"}
    BY DEF Nested, TypeOK, Forked
  <2>2. Parent[q] # p
    BY <2>1 DEF OnLoan, Running
  <2>3. r \in lent[Parent[q]]
    BY <2>1, <2>2 DEF Loans
  <2>4. Parent[q] \in Tasks /\ Parent[q] # Root
    BY <2>1, <2>3, TasksAssumption DEF Forked, Nested
  <2> QED
    BY <2>3, <2>4 DEF Forked
<1>2. S = {}
  BY <1>1, TreeAssumption DEF Forked
<1> QED
  BY <1>2 DEF Nested, Forked

LEMMA DropCheckKeeps ==
  ASSUME CallerKeepsLent, CountInv, NEW p \in Tasks, NEW r \in Refs, DropCheck(p, r)
  PROVE  CountInv'
<1> USE DEF CountInv, heap, env, call
<1> DEFINE o == obj[r]
<1>1. /\ phase[p] = "run" /\ step[p] = "none" /\ owner[r] = p /\ o # NoObj /\ o \in Values
      /\ UNCHANGED <<mem, magic, cnt, phase, lent, sees>> /\ \A q \in Tasks : r \notin lent[q]
  BY NotLent DEF DropCheck, InCode, Owned, TypeOK
<1>2. CASE Managed(o)
  <2>1. /\ UNCHANGED <<obj, owner>> /\ o \in Objs
        /\ step' = [step EXCEPT ![p] = "sub"] /\ arg' = [arg EXCEPT ![p] = o] /\ hand' = [hand EXCEPT ![p] = r]
    BY <1>1, <1>2 DEF DropCheck, Enter, Managed, Live, Values
  <2>2. TypeOK'
    BY <1>1, <2>1 DEF TypeOK
  <2>3. Nested'
    BY <1>1, <2>1 DEF Nested, TypeOK
  <2>4. Loans'
    BY <1>1, <2>1, LoansSame DEF TypeOK
  <2>5. Calls'
    BY <1>1, <2>1 DEF Calls, Visible, Owned, TypeOK
  <2>6. Live' /\ CountExact'
    BY <1>1, <2>1, HeapSame
  <2>7. NoLeak'
    BY <1>1, <2>1 DEF NoLeak, TypeOK
  <2> QED
    BY <2>2, <2>3, <2>4, <2>5, <2>6, <2>7
<1>3. CASE ~Managed(o)
  <2>1. /\ UNCHANGED <<step, arg, hand, owner>> /\ o \notin Objs /\ obj' = [obj EXCEPT ![r] = NoObj]
    BY <1>1, <1>3 DEF DropCheck, Release, Managed, Live
  <2>2. /\ obj'[r] = NoObj /\ \A x \in Refs : x # r => obj'[x] = obj[x]
        /\ \A v \in Objs : \A x \in Refs : obj'[x] = v <=> obj[x] = v
    BY <2>1, ObjsAssumption DEF TypeOK
  <2>3. TypeOK'
    BY <1>1, <2>1 DEF TypeOK
  <2>4. Nested'
    BY <1>1, <2>1 DEF Nested
  <2>5. Loans'
    <3>1. \A q \in Tasks : \A x \in lent[q] : obj'[x] = obj[x]
      BY <1>1, <2>2 DEF TypeOK
    <3> QED
      BY <1>1, <2>1, <2>3, <3>1, LoansSame DEF TypeOK
  <2>6. Calls'
    <3>1. \A q \in Tasks : \A v \in Objs : v \in Visible(q) => v \in Visible(q)'
      BY <1>1, <2>1, <2>2, ObjsAssumption DEF Visible, Owned
    <3> QED
      BY <1>1, <2>1, <2>2, <3>1 DEF Calls
  <2>7. Live'
    BY <1>1, <2>1, <2>2, ObjsAssumption DEF Live
  <2>8. CountExact'
    BY <1>1, <2>2 DEF CountExact
  <2>9. NoLeak'
    BY <1>1, <2>1, <2>2 DEF NoLeak
  <2> QED
    BY <2>3, <2>4, <2>5, <2>6, <2>7, <2>8, <2>9
<1> QED
  BY <1>2, <1>3

LEMMA DropSubKeeps ==
  ASSUME CountInv, NEW p \in Tasks, NEW o, o = arg[p], NEW r, r = hand[p], DropSub(p)
  PROVE  CountInv'
<1> USE DEF CountInv, env
<1>1. /\ step[p] = "sub" /\ phase[p] = "run" /\ r \in Refs /\ obj[r] = o /\ owner[r] = p /\ o \in Objs /\ o # NoObj
      /\ \A q \in Tasks : r \notin lent[q]
      /\ UNCHANGED <<mem, magic, phase, lent, sees, owner>> /\ Release(r)
  BY ObjsAssumption DEF DropSub, Calls, Nested, Release
<1>2. /\ obj'[r] = NoObj /\ obj' = [obj EXCEPT ![r] = NoObj]
      /\ \A x \in Refs : x # r => obj'[x] = obj[x]
  BY <1>1 DEF Release, TypeOK
<1>3. mem[o] = "live" /\ cnt[o] = Cardinality(RefsOf(o))
  BY <1>1, Counted DEF Live
<1>4. /\ Cardinality(RefsOf(o)') = cnt[o] - 1 /\ cnt[o] - 1 \in 0 .. Cardinality(Refs)
      /\ \A v \in Objs : v # o => RefsOf(v)' = RefsOf(v)
      /\ IsLast(o) <=> RefsOf(o)' = {}
  <2>1. /\ Cardinality(RefsOf(o)') = Cardinality(RefsOf(o)) - 1
        /\ Cardinality(RefsOf(o)) - 1 \in 0 .. Cardinality(Refs)
        /\ \A v \in Objs : v # o => RefsOf(v)' = RefsOf(v)
        /\ Cardinality(RefsOf(o)) = 1 => RefsOf(o)' = {}
        /\ Cardinality(RefsOf(o)) # 1 => RefsOf(o)' # {}
    BY <1>1, ReleaseCounts
  <2> QED
    BY <1>3, <2>1 DEF IsLast
<1>5. /\ cnt' = [cnt EXCEPT ![o] = cnt[o] - 1]
      /\ \A q \in Tasks : q # p => step'[q] = step[q] /\ arg'[q] = arg[q] /\ hand'[q] = hand[q]
      /\ IF IsLast(o) THEN step'[p] = "clear" /\ arg'[p] = o /\ hand'[p] = NoRef
                       ELSE step'[p] = "none" /\ arg'[p] = NoObj /\ hand'[p] = NoRef
  BY <1>1 DEF DropSub, Subtracted, Enter, Return, TypeOK
<1>6. TypeOK'
  BY <1>1, <1>2, <1>4 DEF DropSub, Subtracted, Enter, Return, TypeOK
<1>7. Nested'
  BY <1>1, <1>5 DEF Nested
<1>8. Loans'
  <2>1. \A q \in Tasks : \A x \in lent[q] : obj'[x] = obj[x]
    BY <1>1, <1>2 DEF TypeOK
  <2> QED
    BY <1>1, <1>6, <2>1, LoansSame DEF TypeOK
<1>9. Calls'
  <2>1. \A q \in Tasks : q # p => Visible(q) \subseteq Visible(q)'
    BY <1>1, <1>2 DEF Visible, Owned
  <2>2. IsLast(o) => \A x \in Refs : obj'[x] # o
    BY <1>4 DEF RefsOf
  <2>3. \A q \in Tasks : step[q] = "sub" /\ q # p => hand[q] # r
    BY <1>1 DEF Calls
  <2>4. \A q \in Tasks : step[q] \in {"clear", "free"} => arg[q] # o
    BY <1>1 DEF Calls
  <2>5. \A q \in Tasks : step'[q] = "inc" => arg'[q] \in Objs /\ arg'[q] \in Visible(q)'
    BY <1>5, <2>1 DEF Calls
  <2>6. \A q \in Tasks : step'[q] = "sub" =>
          /\ hand'[q] \in Refs /\ obj'[hand'[q]] = arg'[q] /\ owner'[hand'[q]] = q /\ arg'[q] \in Objs
          /\ \A x \in Tasks : hand'[q] \notin lent'[x]
    BY <1>1, <1>2, <1>5, <2>3 DEF Calls
  <2>7. \A q \in Tasks : step'[q] \in {"clear", "free"} =>
          arg'[q] \in Objs /\ mem'[arg'[q]] = "live" /\ \A x \in Refs : obj'[x] # arg'[q]
    BY <1>1, <1>2, <1>3, <1>5, <2>2, ObjsAssumption DEF Calls
  <2>8. \A q, x \in Tasks : step'[q] \in {"clear", "free"} /\ step'[x] \in {"clear", "free"} /\ arg'[q] = arg'[x] => q = x
    BY <1>5, <2>4 DEF Calls
  <2> QED
    BY <2>5, <2>6, <2>7, <2>8 DEF Calls
<1>10. Live'
  BY <1>1, <1>2, ObjsAssumption DEF Live
<1>11. CountExact'
  <2>1. ASSUME NEW v \in Objs, mem'[v] = "live" PROVE cnt'[v] = Cardinality(RefsOf(v)')
    <3>1. cnt[v] = Cardinality(RefsOf(v))
      BY <1>1, <2>1, Counted
    <3>2. CASE v = o
      BY <1>4, <1>5, <3>2 DEF TypeOK
    <3>3. CASE v # o
      BY <1>4, <1>5, <3>1, <3>3 DEF TypeOK
    <3> QED
      BY <3>2, <3>3
  <2> QED
    BY <2>1 DEF CountExact, RefsOf
<1>12. NoLeak'
  <2>1. ASSUME NEW v \in Objs, mem[v] = "live"
        PROVE  (\E x \in Refs : obj'[x] = v) \/ (\E q \in Tasks : step'[q] \in {"clear", "free"} /\ arg'[q] = v)
    <3>1. CASE v = o
      BY <1>4, <1>5, <3>1 DEF RefsOf
    <3>2. CASE v # o
      BY <1>1, <1>2, <1>5, <2>1, <3>2 DEF NoLeak
    <3> QED
      BY <3>1, <3>2
  <2> QED
    BY <1>1, <2>1 DEF NoLeak
<1> QED
  BY <1>6, <1>7, <1>8, <1>9, <1>10, <1>11, <1>12

LEMMA DestroyKeeps ==
  ASSUME CountInv, NEW p \in Tasks, NEW o, o = arg[p], DropClear(p) \/ DropFree(p)
  PROVE  CountInv'
<1> USE DEF CountInv, env
<1>1. /\ step[p] \in {"clear", "free"} /\ phase[p] = "run" /\ o \in Objs /\ o # NoObj /\ o \in Values
      /\ UNCHANGED <<cnt, obj, owner, phase, lent, sees>> /\ \A x \in Refs : obj[x] # o
      /\ \A q \in Tasks : q # p /\ step[q] \in {"clear", "free"} => arg[q] # o
  BY ObjsAssumption DEF DropClear, DropFree, Calls, Nested, Values
<1>2. /\ \A q \in Tasks : q # p => step'[q] = step[q] /\ arg'[q] = arg[q] /\ hand'[q] = hand[q]
      /\ \A v \in Objs : v # o => mem'[v] = mem[v]
      /\ \A v \in Values : v # o => magic'[v] = magic[v]
  BY DEF DropClear, DropFree, Enter, Return, TypeOK
<1>3. \/ step'[p] = "free" /\ arg'[p] = o /\ mem' = mem
      \/ step'[p] = "none" /\ mem'[o] = "freed"
  BY <1>1 DEF DropClear, DropFree, Enter, Return, TypeOK
<1>4. TypeOK'
  <2>1. CASE DropClear(p)
    BY <1>1, <2>1 DEF DropClear, Enter, TypeOK
  <2>2. CASE DropFree(p)
    <3>1. /\ step' \in [Tasks -> {"none", "inc", "sub", "clear", "free"}]
          /\ arg' \in [Tasks -> Values \cup {NoObj}] /\ hand' \in [Tasks -> Refs \cup {NoRef}]
      BY <2>2 DEF DropFree, Return, Enter, TypeOK
    <3>2. mem' \in [Objs -> {"none", "live", "freed"}] /\ UNCHANGED <<magic, cnt, obj, owner, env>>
      BY <1>1, <2>2 DEF DropFree, TypeOK
    <3> QED
      BY <3>1, <3>2 DEF TypeOK
  <2> QED
    BY <2>1, <2>2
<1>5. Nested'
  BY <1>1, <1>2 DEF Nested
<1>6. Loans'
  BY <1>1, <1>4, LoansSame DEF TypeOK
<1>7. Calls'
  <2>1. \A q \in Tasks : Visible(q)' = Visible(q)
    BY <1>1 DEF Visible, Owned
  <2> QED
    BY <1>1, <1>2, <1>3, <2>1 DEF Calls
<1>8. Live'
  BY <1>1, <1>2, ObjsAssumption DEF Live, Values
<1>9. CountExact'
  BY <1>1, <1>2, <1>3 DEF CountExact
<1>10. NoLeak'
  <2>1. ASSUME NEW v \in Objs, v # o, mem'[v] = "live"
        PROVE  (\E x \in Refs : obj[x] = v) \/ (\E q \in Tasks : step'[q] \in {"clear", "free"} /\ arg'[q] = v)
    BY <1>2, <2>1 DEF NoLeak
  <2> QED
    BY <1>1, <1>3, <2>1 DEF NoLeak
<1> QED
  BY <1>4, <1>5, <1>6, <1>7, <1>8, <1>9, <1>10

LEMMA ForkKeeps ==
  ASSUME CountInv, NEW p \in Tasks, NEW q \in Forked, NEW captured \in SUBSET Owned(p), Fork(p, q, captured)
  PROVE  CountInv'
<1> USE DEF CountInv, heap, call
<1>1. /\ phase[p] = "run" /\ step[p] = "none" /\ phase[q] = "idle" /\ Parent[q] = p /\ q # p /\ q \in Tasks /\ q # Root
      /\ UNCHANGED <<mem, magic, cnt, obj, owner, step, arg, hand>>
  BY DEF Fork, InCode, Forked
<1>2. /\ phase'[q] = "run" /\ lent'[q] = captured \cup lent[p]
      /\ sees'[q] = {obj[r] : r \in captured} \cup sees[p]
      /\ \A x \in Tasks : x # q => phase'[x] = phase[x] /\ lent'[x] = lent[x] /\ sees'[x] = sees[x]
  BY <1>1 DEF Fork, TypeOK
<1>3. \A r \in captured : r \in Refs /\ owner[r] = p /\ obj[r] # NoObj
  BY DEF Owned
<1>4. lent[q] = {} /\ sees[q] = {} /\ step[q] = "none" /\ \A x \in Forked : Parent[x] = q => lent[x] = {} /\ phase[x] \notin {"run", "returned"}
  <2>1. lent[q] = {} /\ step[q] = "none" /\ \A x \in Forked : Parent[x] = q => phase[x] \notin {"run", "returned"}
    BY <1>1 DEF Nested, TypeOK
  <2>2. \A x \in Forked : Parent[x] = q => lent[x] = {}
    BY <2>1 DEF Nested, TypeOK, Forked
  <2>3. sees[q] = {}
    BY <1>1, <2>1 DEF Loans
  <2> QED
    BY <2>1, <2>2, <2>3
<1>5. TypeOK'
  <2>1. captured \cup lent[p] \in SUBSET Refs /\ {obj[r] : r \in captured} \cup sees[p] \in SUBSET Values
    BY <1>3 DEF TypeOK
  <2> QED
    BY <1>1, <2>1 DEF Fork, TypeOK
<1>6. Nested'
  BY <1>1, <1>2, <1>4, TasksAssumption DEF Nested, Forked
<1>7. Loans'
  <2>1. \A x \in Tasks : sees'[x] = {obj'[r] : r \in lent'[x]}
    <3>1. sees[p] = {obj[r] : r \in lent[p]}
      BY DEF Loans
    <3>2. sees'[q] = {obj[r] : r \in lent'[q]}
      BY <1>2, <3>1
    <3>3. ASSUME NEW x \in Tasks, x # q PROVE sees'[x] = {obj[r] : r \in lent'[x]}
      BY <1>2, <3>3 DEF Loans
    <3> QED
      BY <1>1, <3>2, <3>3
  <2>2. \A x \in Tasks : \A r \in lent'[x] : obj'[r] # NoObj
    BY <1>1, <1>2, <1>3 DEF Loans
  <2>3. ASSUME NEW x \in Forked, NEW r \in lent'[x] PROVE owner'[r] = Parent[x] \/ r \in lent'[Parent[x]]
    <3>1. CASE x = q
      BY <1>1, <1>2, <1>3, <2>3, <3>1
    <3>2. CASE x # q
      <4>1. x \in Tasks /\ r \in lent[x] /\ Parent[x] # q /\ Parent[x] \in Tasks
        BY <1>2, <1>4, <2>3, <3>2, TasksAssumption DEF Forked
      <4> QED
        BY <1>1, <1>2, <4>1 DEF Loans
    <3> QED
      BY <3>1, <3>2
  <2> QED
    BY <2>1, <2>2, <2>3 DEF Loans
<1>8. Calls'
  <2>1. \A x \in Tasks : Visible(x) \subseteq Visible(x)'
    BY <1>1, <1>2, <1>4 DEF Visible, Owned
  <2>2. ASSUME NEW x \in Tasks, step[x] = "sub" PROVE \A y \in Tasks : hand[x] \notin lent'[y]
    BY <1>1, <1>2, <1>3, <2>2 DEF Calls
  <2> QED
    BY <1>1, <2>1, <2>2 DEF Calls
<1>9. Live' /\ CountExact'
  BY <1>1, HeapSame
<1>10. NoLeak'
  BY <1>1 DEF NoLeak
<1> QED
  BY <1>5, <1>6, <1>7, <1>8, <1>9, <1>10

LEMMA FinishKeeps ==
  ASSUME CountInv, NEW p \in Tasks, Finish(p)
  PROVE  CountInv'
<1> USE DEF CountInv, heap, call
<1>1. /\ phase[p] = "run" /\ step[p] = "none" /\ p # Root /\ Running(p) = {}
      /\ UNCHANGED <<mem, magic, cnt, obj, owner, step, arg, hand, lent, sees>>
      /\ phase'[p] = "returned" /\ \A x \in Tasks : x # p => phase'[x] = phase[x]
  BY DEF Finish, InCode, TypeOK
<1>2. \A x \in Forked : Parent[x] = p => phase[x] \notin {"run", "returned"}
  BY <1>1 DEF Running
<1>3. TypeOK'
  BY <1>1 DEF Finish, TypeOK
<1>4. Nested'
  BY <1>1, <1>2, TasksAssumption DEF Nested, Forked
<1>5. Loans'
  BY <1>1, <1>3, LoansSame DEF TypeOK
<1>6. Calls'
  <2>1. \A q \in Tasks : Visible(q)' = Visible(q)
    BY <1>1 DEF Visible, Owned
  <2> QED
    BY <1>1, <2>1 DEF Calls
<1>7. Live' /\ CountExact'
  BY <1>1, HeapSame
<1>8. NoLeak'
  BY <1>1 DEF NoLeak
<1> QED
  BY <1>3, <1>4, <1>5, <1>6, <1>7, <1>8

LEMMA JoinKeeps ==
  ASSUME CountInv, NEW p \in Tasks, NEW q \in Forked, Join(p, q)
  PROVE  CountInv'
<1> USE DEF CountInv, heap, call
<1>1. /\ phase[p] = "run" /\ step[p] = "none" /\ phase[q] = "returned" /\ Parent[q] = p /\ q # p /\ q \in Tasks /\ q # Root
      /\ UNCHANGED <<mem, magic, cnt, obj, step, arg, hand>> /\ step[q] = "none"
  BY DEF Join, InCode, Running, Nested, Forked
<1>2. /\ phase'[q] = "joined" /\ lent'[q] = {} /\ sees'[q] = {}
      /\ \A x \in Tasks : x # q => phase'[x] = phase[x] /\ lent'[x] = lent[x] /\ sees'[x] = sees[x]
      /\ \A r \in Refs : owner'[r] = IF owner[r] = q THEN p ELSE owner[r]
  BY <1>1 DEF Join, TypeOK
<1>3. \A x \in Forked : Parent[x] = q => lent[x] = {} /\ phase[x] \notin {"run", "returned"}
  <2>1. \A x \in Forked : Parent[x] = q => phase[x] \notin {"run", "returned"}
    BY <1>1 DEF Nested
  <2> QED
    BY <2>1 DEF Nested, TypeOK, Forked
<1>4. TypeOK'
  BY <1>1 DEF Join, TypeOK
<1>5. Nested'
  BY <1>1, <1>2, <1>3, TasksAssumption DEF Nested, Forked
<1>6. Loans'
  <2>1. ASSUME NEW x \in Tasks PROVE sees'[x] = {obj'[r] : r \in lent'[x]}
    BY <1>1, <1>2 DEF Loans
  <2>2. \A x \in Tasks : \A r \in lent'[x] : obj'[r] # NoObj
    BY <1>1, <1>2 DEF Loans
  <2>3. ASSUME NEW x \in Forked, NEW r \in lent'[x] PROVE owner'[r] = Parent[x] \/ r \in lent'[Parent[x]]
    <3>1. x # q /\ x \in Tasks /\ r \in lent[x] /\ r \in Refs
      BY <1>2, <2>3 DEF Forked, TypeOK
    <3>2. Parent[x] # q /\ Parent[x] \in Tasks
      BY <1>3, <3>1, TasksAssumption DEF Forked
    <3> QED
      BY <1>2, <3>1, <3>2 DEF Loans
  <2> QED
    BY <2>1, <2>2, <2>3 DEF Loans
<1>7. Calls'
  <2>1. \A x \in Tasks : x # q => Visible(x) \subseteq Visible(x)'
    BY <1>1, <1>2 DEF Visible, Owned
  <2>2. \A x \in Tasks : step[x] = "sub" => owner'[hand[x]] = x
    BY <1>1, <1>2 DEF Calls
  <2>3. \A x \in Tasks : lent'[x] \subseteq lent[x]
    BY <1>2
  <2> QED
    BY <1>1, <2>1, <2>2, <2>3 DEF Calls
<1>8. Live' /\ CountExact'
  BY <1>1, HeapSame
<1>9. NoLeak'
  BY <1>1 DEF NoLeak
<1> QED
  BY <1>4, <1>5, <1>6, <1>7, <1>8, <1>9

-----------------------------------------------------------------------------

LEMMA NextCount == CallerKeepsLent /\ CountInv /\ [Next]_vars => CountInv'
<1> SUFFICES ASSUME CallerKeepsLent, CountInv, [Next]_vars PROVE CountInv'
  OBVIOUS
<1>1. CASE UNCHANGED vars
  <2>1. TypeOK' /\ Nested'
    BY <1>1 DEF vars, CountInv, TypeOK, Nested
  <2>2. Loans'
    BY <1>1, <2>1, LoansSame DEF vars, TypeOK
  <2>3. \A q \in Tasks : Visible(q)' = Visible(q)
    BY <1>1 DEF vars, Visible, Owned
  <2>4. Calls' /\ NoLeak'
    BY <1>1, <2>3 DEF vars, CountInv, Calls, NoLeak
  <2>5. Live' /\ CountExact'
    BY <1>1, HeapSame DEF vars
  <2> QED
    BY <2>1, <2>2, <2>4, <2>5 DEF CountInv
<1> QED
  BY <1>1, AllocKeeps, LiteralKeeps, DupCheckKeeps, DupIncKeeps, DropCheckKeeps, DropSubKeeps, DestroyKeeps,
     ForkKeeps, FinishKeeps, JoinKeeps DEF Next

LEMMA CountInvHolds ==
  ASSUME CallerKeepsLent
  PROVE  Spec => []CountInv
BY InitCount, NextCount, PTL DEF Spec

\* Every variable keeps its type: ref_cnt never goes below zero or beyond the
\* number of references there are.
THEOREM CountTyped ==
  ASSUME CallerKeepsLent
  PROVE  Spec => []TypeOK
<1>1. CountInv => TypeOK
  BY DEF CountInv
<1> QED
  BY <1>1, CountInvHolds, PTL

\* ref_cnt is the number of references to a value that is alive, whatever dups
\* and drops the tasks have under way.
THEOREM CountsAreExact ==
  ASSUME CallerKeepsLent
  PROVE  Spec => []CountExact
<1>1. CountInv => CountExact
  BY DEF CountInv
<1> QED
  BY <1>1, CountInvHolds, PTL

\* If a caller leaves alone what it lent until the join, neither a task nor a
\* call of llm_dup or llm_drop meets a value that was freed.
THEOREM ValuesOutliveUse ==
  ASSUME CallerKeepsLent
  PROVE  Spec => []NoUseAfterFree
<1>1. CountInv => NoUseAfterFree
  <2> SUFFICES ASSUME CountInv PROVE NoUseAfterFree
    OBVIOUS
  <2>1. \A p \in Tasks : \A o \in Visible(p) \cap Objs : mem[o] = "live"
    BY VisibleLive
  <2>2. \A p \in Tasks : step[p] \in {"none", "inc", "sub", "clear", "free"}
    BY DEF CountInv, TypeOK
  <2>3. ASSUME NEW p \in Tasks, step[p] # "none" PROVE arg[p] \in Objs /\ mem[arg[p]] = "live"
    <3>1. CASE step[p] = "inc"
      BY <2>1, <3>1 DEF CountInv, Calls
    <3>2. CASE step[p] = "sub"
      BY <3>2 DEF CountInv, Calls, Live
    <3>3. CASE step[p] \in {"clear", "free"}
      BY <3>3 DEF CountInv, Calls
    <3> QED
      BY <2>2, <2>3, <3>1, <3>2, <3>3
  <2> QED
    BY <2>1, <2>3 DEF NoUseAfterFree
<1> QED
  BY <1>1, CountInvHolds, PTL

\* One drop destroys a value, and nobody else is at work on it by then.
THEOREM DestroyedByOne ==
  ASSUME CallerKeepsLent
  PROVE  Spec => []DestroyedOnce
<1>1. CountInv => DestroyedOnce
  <2> SUFFICES ASSUME CountInv, NEW p \in Tasks, NEW q \in Tasks, step[p] \in {"clear", "free"},
                      step[q] # "none", arg[p] = arg[q]
               PROVE  p = q
    BY DEF DestroyedOnce
  <2>1. \A r \in Refs : obj[r] # arg[q]
    BY DEF CountInv, Calls
  <2>2. step[q] # "inc"
    BY <2>1, VisibleLive DEF CountInv, Calls
  <2>3. step[q] # "sub"
    BY <2>1 DEF CountInv, Calls
  <2>4. step[q] \in {"clear", "free"}
    BY <2>2, <2>3 DEF CountInv, TypeOK
  <2> QED
    BY <2>4 DEF CountInv, Calls
<1> QED
  BY <1>1, CountInvHolds, PTL

\* A value without references is about to be freed.
THEOREM NothingLeaks ==
  ASSUME CallerKeepsLent
  PROVE  Spec => []NoLeak
<1>1. CountInv => NoLeak
  BY DEF CountInv
<1> QED
  BY <1>1, CountInvHolds, PTL
=============================================================================
