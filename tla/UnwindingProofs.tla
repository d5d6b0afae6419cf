--------------------------- MODULE UnwindingProofs ---------------------------
(***************************************************************************)
(* What a thread keeps beside its call stack stays in step with it, for    *)
(* any number of threads and any program: the trap stack lists the trap    *)
(* frames, so a panic never resumes in a frame that is gone, and the span  *)
(* context follows the calls.                                              *)
(*                                                                         *)
(* Both are lists of the positions of the frames of one kind, in order.    *)
(* Stack and list are cut at the same place only because the last position *)
(* is the highest one, so order and content are kept together.             *)
(***************************************************************************)
EXTENDS Unwinding, SequenceTheorems, FiniteSetTheorems, TLAPS

Id        == Nat \cup Addresses
Kinds     == {"task", "try", "fallback", "span", "json"}
FrameType == [kind : Kinds, id : Id, forked : SUBSET Nat, joining : Nat]

StackTyped == stack \in [Threads -> Seq(FrameType)] /\ traps \in [Threads -> Seq(Nat)]

TasksTyped ==
  /\ queue \in Seq(Nat)
  /\ \A k \in DOMAIN result : result[k] \in Id
  /\ IsFiniteSet(born)
  /\ left \in [Operations -> Nat]

\* Positions, in order: those of the frames of one kind on a call stack.
Ordered(tr)  == \A i, j \in 1 .. Len(tr) : i < j => tr[i] < tr[j]
Lists(s, tr, kind) == {tr[i] : i \in 1 .. Len(tr)} = {i \in 1 .. Len(s) : s[i].kind = kind}
Match(s, tr, kind) == Ordered(tr) /\ Lists(s, tr, kind)

UnwindingInv == StackTyped /\ TasksTyped /\ TrapsAreFrames

-----------------------------------------------------------------------------
(* How the two stacks move together.                                       *)

LEMMA Prefix ==
  ASSUME NEW D, NEW s \in Seq(D), NEW n \in 0 .. Len(s)
  PROVE  /\ SubSeq(s, 1, n) \in Seq(D) /\ Len(SubSeq(s, 1, n)) = n
         /\ \A k \in 1 .. n : SubSeq(s, 1, n)[k] = s[k]
  BY LenProperties, SubSeqProperties

LEMMA MatchPush ==
  ASSUME NEW kind, NEW s \in Seq(FrameType), NEW tr \in Seq(Nat), Match(s, tr, kind),
         NEW f \in FrameType, f.kind # kind
  PROVE  Append(s, f) \in Seq(FrameType) /\ Match(Append(s, f), tr, kind)
<1>1. /\ Append(s, f) \in Seq(FrameType) /\ Len(Append(s, f)) = Len(s) + 1 /\ Len(s) \in Nat
      /\ \A k \in 1 .. Len(s) : Append(s, f)[k] = s[k]
      /\ Append(s, f)[Len(s) + 1] = f
  BY AppendProperties, LenProperties
<1>2. {i \in 1 .. Len(Append(s, f)) : Append(s, f)[i].kind = kind} = {i \in 1 .. Len(s) : s[i].kind = kind}
  <2>1. ASSUME NEW i \in 1 .. Len(s) + 1
        PROVE  Append(s, f)[i].kind = kind <=> i \in 1 .. Len(s) /\ s[i].kind = kind
    <3>1. CASE i = Len(s) + 1
      BY <1>1, <3>1
    <3>2. CASE i \in 1 .. Len(s)
      BY <1>1, <3>2
    <3> QED
      BY <1>1, <2>1, <3>1, <3>2
  <2>2. 1 .. Len(s) \subseteq 1 .. Len(s) + 1
    BY <1>1
  <2> QED
    BY <1>1, <2>1, <2>2
<1> QED
  BY <1>1, <1>2 DEF Match, Lists

\* A frame that stays what it is may change in other respects.
LEMMA MatchSame ==
  ASSUME NEW kind, NEW s \in Seq(FrameType), NEW tr \in Seq(Nat), Match(s, tr, kind),
         NEW u \in Seq(FrameType), Len(u) = Len(s),
         \A i \in 1 .. Len(s) : u[i].kind = s[i].kind
  PROVE  Match(u, tr, kind)
  BY DEF Match, Lists

\* What is no trap may be cut off.
LEMMA MatchCut ==
  ASSUME NEW kind, NEW s \in Seq(FrameType), NEW tr \in Seq(Nat), Match(s, tr, kind),
         NEW n \in 0 .. Len(s), \A i \in n + 1 .. Len(s) : s[i].kind # kind
  PROVE  SubSeq(s, 1, n) \in Seq(FrameType) /\ Match(SubSeq(s, 1, n), tr, kind)
<1> DEFINE u == SubSeq(s, 1, n)
<1>1. u \in Seq(FrameType) /\ Len(u) = n /\ Len(s) \in Nat /\ \A k \in 1 .. n : u[k] = s[k]
  BY LenProperties, Prefix
<1>2. \A i \in 1 .. Len(s) : i \in 1 .. n \/ s[i].kind # kind
  BY <1>1
<1>3. 1 .. n \subseteq 1 .. Len(s)
  BY <1>1
<1>4. {i \in 1 .. Len(u) : u[i].kind = kind} = {i \in 1 .. Len(s) : s[i].kind = kind}
  BY <1>1, <1>2, <1>3
<1> HIDE DEF u
<1> QED
  BY <1>1, <1>4 DEF Match, Lists, u

LEMMA MatchOpen ==
  ASSUME NEW kind, NEW s \in Seq(FrameType), NEW tr \in Seq(Nat), Match(s, tr, kind),
         NEW f \in FrameType, f.kind = kind
  PROVE  /\ Append(s, f) \in Seq(FrameType) /\ Append(tr, Len(s) + 1) \in Seq(Nat)
         /\ Match(Append(s, f), Append(tr, Len(s) + 1), kind)
<1> DEFINE u == Append(s, f)
           d == Len(s) + 1
           v == Append(tr, d)
<1>1. u \in Seq(FrameType) /\ Len(u) = d /\ Len(s) \in Nat /\ u[d] = f
      /\ \A k \in 1 .. Len(s) : u[k] = s[k]
  BY AppendProperties, LenProperties
<1>2. v \in Seq(Nat) /\ Len(v) = Len(tr) + 1 /\ Len(tr) \in Nat /\ v[Len(tr) + 1] = d
      /\ \A k \in 1 .. Len(tr) : v[k] = tr[k]
  BY <1>1, AppendProperties, LenProperties
<1>3. \A k \in 1 .. Len(tr) : tr[k] \in 1 .. Len(s) /\ s[tr[k]].kind = kind
  BY DEF Match, Lists
<1> HIDE DEF u, d, v
<1>4. Ordered(v)
  <2> SUFFICES ASSUME NEW i \in 1 .. Len(v), NEW j \in 1 .. Len(v), i < j PROVE v[i] < v[j]
    BY DEF Ordered
  <2>1. i \in 1 .. Len(tr)
    BY <1>2
  <2>2. CASE j \in 1 .. Len(tr)
    BY <1>2, <2>1, <2>2 DEF Match, Ordered
  <2>3. CASE j = Len(tr) + 1
    <3>1. v[i] \in 1 .. Len(s) /\ v[j] = d
      BY <1>2, <1>3, <2>1, <2>3
    <3> QED
      BY <1>1, <3>1 DEF d
  <2> QED
    BY <1>2, <2>2, <2>3
<1>5. Lists(u, v, kind)
  <2>1. ASSUME NEW k \in 1 .. Len(v) PROVE v[k] \in 1 .. Len(u) /\ u[v[k]].kind = kind
    <3>1. CASE k \in 1 .. Len(tr)
      <4>1. v[k] \in 1 .. Len(s) /\ s[v[k]].kind = kind
        BY <1>2, <1>3, <3>1
      <4> QED
        BY <1>1, <4>1 DEF d
    <3>2. CASE k = Len(tr) + 1
      BY <1>1, <1>2, <3>2 DEF d
    <3> QED
      BY <1>2, <3>1, <3>2
  <2>2. ASSUME NEW i \in 1 .. Len(u), u[i].kind = kind PROVE \E k \in 1 .. Len(v) : v[k] = i
    <3>1. CASE i \in 1 .. Len(s)
      <4>1. s[i].kind = kind
        BY <1>1, <2>2, <3>1
      <4>2. PICK k \in 1 .. Len(tr) : tr[k] = i
        BY <3>1, <4>1 DEF Match, Lists
      <4>3. k \in 1 .. Len(v) /\ v[k] = i
        BY <1>2, <4>2
      <4> QED
        BY <4>3
    <3>2. CASE i = d
      <4>1. Len(tr) + 1 \in 1 .. Len(v) /\ v[Len(tr) + 1] = i
        BY <1>2, <3>2
      <4> QED
        BY <4>1
    <3> QED
      BY <1>1, <3>1, <3>2 DEF d
  <2> QED
    BY <2>1, <2>2 DEF Lists
<1> QED
  BY <1>1, <1>2, <1>4, <1>5 DEF Match, u, d, v

(* The innermost trap is the highest: no trap lies above it, and without   *)
(* it the trap stack lists what lies below.                                *)
LEMMA MatchJump ==
  ASSUME NEW kind, NEW s \in Seq(FrameType), NEW tr \in Seq(Nat), Match(s, tr, kind), tr # <<>>
  PROVE  /\ Last(tr) \in 1 .. Len(s) /\ s[Last(tr)].kind = kind
         /\ \A i \in Last(tr) + 1 .. Len(s) : s[i].kind # kind
         /\ Front(tr) \in Seq(Nat) /\ SubSeq(s, 1, Last(tr) - 1) \in Seq(FrameType)
         /\ Match(SubSeq(s, 1, Last(tr) - 1), Front(tr), kind)
<1> DEFINE m == Len(tr)
           d == Last(tr)
           u == SubSeq(s, 1, d - 1)
           v == Front(tr)
<1>1. m \in Nat /\ m # 0 /\ Len(s) \in Nat
  BY EmptySeq, LenProperties
<1>2. m \in 1 .. m /\ d = tr[m]
  BY <1>1 DEF Last
<1>3. \A k \in 1 .. m : tr[k] \in 1 .. Len(s) /\ s[tr[k]].kind = kind
  BY DEF Match, Lists
<1>4. d \in 1 .. Len(s) /\ s[d].kind = kind
  BY <1>2, <1>3
<1>5. \A k \in 1 .. m - 1 : tr[k] < d /\ k \in 1 .. m
  BY <1>1, <1>2 DEF Match, Ordered
<1>6. v \in Seq(Nat) /\ Len(v) = m - 1 /\ \A k \in 1 .. m - 1 : v[k] = tr[k]
  <2>1. m - 1 \in 0 .. Len(tr) /\ v = SubSeq(tr, 1, m - 1)
    BY <1>1 DEF Front
  <2> QED
    BY <2>1, Prefix
<1>7. u \in Seq(FrameType) /\ Len(u) = d - 1 /\ \A k \in 1 .. d - 1 : u[k] = s[k]
  <2>1. d - 1 \in 0 .. Len(s)
    BY <1>1, <1>4
  <2> QED
    BY <2>1, Prefix
<1> HIDE DEF m, d, u, v
<1>8. ASSUME NEW i \in 1 .. Len(s), s[i].kind = kind
      PROVE  i <= d /\ (i # d => \E k \in 1 .. m - 1 : v[k] = i)
  <2>1. PICK k \in 1 .. m : tr[k] = i
    BY <1>8 DEF Match, Lists, m
  <2>2. CASE k = m
    BY <1>1, <1>2, <1>4, <2>1, <2>2
  <2>3. CASE k \in 1 .. m - 1
    BY <1>4, <1>5, <1>6, <2>1, <2>3
  <2> QED
    BY <1>1, <2>2, <2>3
<1>9. \A i \in d + 1 .. Len(s) : s[i].kind # kind
  BY <1>1, <1>4, <1>8
<1>10. Ordered(v)
  <2> SUFFICES ASSUME NEW i \in 1 .. Len(v), NEW j \in 1 .. Len(v), i < j PROVE v[i] < v[j]
    BY DEF Ordered
  <2>1. i \in 1 .. m /\ j \in 1 .. m /\ v[i] = tr[i] /\ v[j] = tr[j]
    BY <1>1, <1>6
  <2> QED
    BY <2>1 DEF Match, Ordered, m
<1>11. Lists(u, v, kind)
  <2>1. ASSUME NEW k \in 1 .. Len(v) PROVE v[k] \in 1 .. Len(u) /\ u[v[k]].kind = kind
    <3>1. v[k] = tr[k] /\ tr[k] \in 1 .. Len(s) /\ s[tr[k]].kind = kind /\ tr[k] < d
      BY <1>1, <1>3, <1>5, <1>6
    <3>2. v[k] \in 1 .. d - 1
      BY <1>4, <3>1
    <3> QED
      BY <1>7, <3>1, <3>2
  <2>2. ASSUME NEW i \in 1 .. Len(u), u[i].kind = kind PROVE \E k \in 1 .. Len(v) : v[k] = i
    <3>1. i \in 1 .. Len(s) /\ s[i].kind = kind /\ i # d
      BY <1>1, <1>4, <1>7, <2>2
    <3> QED
      BY <1>6, <1>8, <3>1
  <2> QED
    BY <2>1, <2>2 DEF Lists
<1> QED
  BY <1>4, <1>6, <1>7, <1>9, <1>10, <1>11 DEF Match, d, u, v

\* A trap frame on top of the call stack is the innermost trap.
LEMMA MatchClose ==
  ASSUME NEW kind, NEW s \in Seq(FrameType), NEW tr \in Seq(Nat), Match(s, tr, kind),
         s # <<>>, s[Len(s)].kind = kind
  PROVE  tr # <<>> /\ Last(tr) = Len(s)
<1>1. Len(s) \in Nat /\ Len(s) # 0
  BY EmptySeq, LenProperties
<1>2. Len(s) \in 1 .. Len(s)
  BY <1>1
<1>3. PICK k \in 1 .. Len(tr) : tr[k] = Len(s)
  BY <1>2 DEF Match, Lists
<1>4. tr # <<>>
  BY <1>3
<1> QED
  <2>1. Last(tr) \in 1 .. Len(s) /\ \A i \in Last(tr) + 1 .. Len(s) : s[i].kind # kind
    BY <1>4, MatchJump
  <2>2. Len(s) \notin Last(tr) + 1 .. Len(s)
    BY <2>1
  <2> QED
    BY <1>1, <1>4, <2>1, <2>2

-----------------------------------------------------------------------------
(* What a step does to the stacks of its thread.                           *)

LEMMA InvMatch ==
  ASSUME UnwindingInv, NEW t \in Threads
  PROVE  stack[t] \in Seq(FrameType) /\ traps[t] \in Seq(Nat) /\ Match(stack[t], traps[t], "try")
  BY DEF UnwindingInv, StackTyped, TrapsAreFrames, Match, Ordered, Lists

LEMMA StackStep ==
  ASSUME UnwindingInv, NEW t \in Threads, NEW s \in Seq(FrameType), NEW tr \in Seq(Nat),
         Match(s, tr, "try"), stack' = [stack EXCEPT ![t] = s], traps' = [traps EXCEPT ![t] = tr]
  PROVE  StackTyped' /\ TrapsAreFrames'
<1>1. StackTyped'
  BY DEF UnwindingInv, StackTyped
<1>2. ASSUME NEW u \in Threads PROVE Match(stack'[u], traps'[u], "try")
  <2>1. CASE u = t
    BY <2>1 DEF UnwindingInv, StackTyped
  <2>2. CASE u # t
    <3>1. stack'[u] = stack[u] /\ traps'[u] = traps[u]
      BY <2>2 DEF UnwindingInv, StackTyped
    <3> QED
      BY <3>1, InvMatch
  <2> QED
    BY <2>1, <2>2
<1> QED
  BY <1>1, <1>2 DEF TrapsAreFrames, Match, Ordered, Lists

\* Steps that leave the traps alone.
LEMMA CallStep ==
  ASSUME UnwindingInv, NEW t \in Threads, NEW s \in Seq(FrameType),
         Match(s, traps[t], "try"), stack' = [stack EXCEPT ![t] = s], UNCHANGED traps
  PROVE  StackTyped' /\ TrapsAreFrames'
<1>1. traps' = [traps EXCEPT ![t] = traps[t]]
  BY DEF UnwindingInv, StackTyped
<1> QED
  BY <1>1, InvMatch, StackStep

LEMMA PushStep ==
  ASSUME UnwindingInv, NEW t \in Threads, NEW f \in FrameType, f.kind # "try",
         Push(t, f), UNCHANGED traps
  PROVE  StackTyped' /\ TrapsAreFrames'
<1>1. stack' = [stack EXCEPT ![t] = Append(stack[t], f)]
  BY DEF Push
<1> QED
  BY <1>1, InvMatch, MatchPush, CallStep

LEMMA PopStep ==
  ASSUME UnwindingInv, NEW t \in Threads, stack[t] # <<>>, Top(t).kind # "try",
         Pop(t), UNCHANGED traps
  PROVE  StackTyped' /\ TrapsAreFrames'
<1> DEFINE s == stack[t]
           n == Len(s) - 1
<1>1. s \in Seq(FrameType) /\ Match(s, traps[t], "try") /\ traps[t] \in Seq(Nat)
  BY InvMatch
<1>2. Len(s) \in Nat /\ Len(s) # 0
  BY <1>1, EmptySeq, LenProperties
<1>3. n \in 0 .. Len(s) /\ \A i \in n + 1 .. Len(s) : i = Len(s)
  BY <1>2
<1>4. \A i \in n + 1 .. Len(s) : s[i].kind # "try"
  BY <1>3 DEF Top, Last
<1>5. stack' = [stack EXCEPT ![t] = SubSeq(s, 1, n)]
  BY DEF Pop, Front
<1> HIDE DEF n
<1> QED
  BY <1>1, <1>3, <1>4, <1>5, MatchCut, CallStep

LEMMA TopTyped ==
  ASSUME UnwindingInv, NEW t \in Threads, stack[t] # <<>>
  PROVE  Top(t) \in FrameType
<1>1. stack[t] \in Seq(FrameType)
  BY InvMatch
<1>2. Len(stack[t]) \in Nat /\ Len(stack[t]) # 0
  BY <1>1, EmptySeq, LenProperties
<1>3. Len(stack[t]) \in 1 .. Len(stack[t])
  BY <1>2
<1> QED
  BY <1>1, <1>3, ElementOfSeq DEF Top, Last

\* The stack of t with another frame on top.
Topped(t, f) == [stack[t] EXCEPT ![Len(stack[t])] = f]

\* The frame on top changes what it waits for.
LEMMA TopMoves ==
  ASSUME UnwindingInv, NEW t \in Threads, stack[t] # <<>>,
         NEW f \in FrameType, f.kind = Top(t).kind
  PROVE  /\ Topped(t, f) \in Seq(FrameType) /\ Len(Topped(t, f)) = Len(stack[t])
         /\ Match(Topped(t, f), traps[t], "try")
<1> DEFINE s == stack[t]
           u == [s EXCEPT ![Len(s)] = f]
<1>1. s \in Seq(FrameType) /\ Match(s, traps[t], "try") /\ traps[t] \in Seq(Nat)
  BY InvMatch
<1>2. Len(s) \in Nat /\ Len(s) # 0
  BY <1>1, EmptySeq, LenProperties
<1>3. Len(s) \in 1 .. Len(s)
  BY <1>2
<1>4. u \in Seq(FrameType) /\ Len(u) = Len(s)
  BY <1>1, <1>3, ExceptSeq
<1>5. \A i \in 1 .. Len(s) : u[i].kind = s[i].kind
  BY <1>1, <1>3 DEF Top, Last
<1> QED
  BY <1>1, <1>4, <1>5, MatchSame DEF Topped

Forking(t)     == [Top(t) EXCEPT !.forked = @ \cup {Cardinality(born) + 1}]
Awaiting(t, k) == [Top(t) EXCEPT !.joining = k]
Joined(t)      == [Top(t) EXCEPT !.forked = @ \ {Top(t).joining}, !.joining = 0]
Given(t)       == Frame("json", result[Top(t).joining])

LEMMA ForkMoves ==
  ASSUME UnwindingInv, NEW t \in Threads, Fork(t)
  PROVE  /\ stack[t] # <<>> /\ Cardinality(born) + 1 \in Nat
         /\ Forking(t) \in FrameType
         /\ Forking(t).kind = Top(t).kind /\ Forking(t).id = Top(t).id
         /\ stack' = [stack EXCEPT ![t] = Topped(t, Forking(t))]
<1>1. IsFiniteSet(born) /\ Cardinality(born) + 1 \in Nat
  BY FS_CardinalityType DEF UnwindingInv, TasksTyped
<1>2. stack[t] # <<>>
  BY DEF Fork, Active, Busy
<1>3. Top(t) \in FrameType
  BY <1>2, TopTyped
<1>4. Forking(t) \in FrameType /\ Forking(t).kind = Top(t).kind /\ Forking(t).id = Top(t).id
  BY <1>1, <1>3 DEF FrameType, Forking
<1>5. stack' = [stack EXCEPT ![t] = Topped(t, Forking(t))]
  BY DEF Fork, Top, Last, Topped, Forking
<1> QED
  BY <1>1, <1>2, <1>4, <1>5

LEMMA StartJoinMoves ==
  ASSUME UnwindingInv, NEW t \in Threads, StartJoin(t)
  PROVE  /\ stack[t] # <<>>
         /\ \E k \in Top(t).forked :
              /\ Awaiting(t, k) \in FrameType
              /\ Awaiting(t, k).kind = Top(t).kind /\ Awaiting(t, k).id = Top(t).id
              /\ stack' = [stack EXCEPT ![t] = Topped(t, Awaiting(t, k))]
<1>1. stack[t] # <<>>
  BY DEF StartJoin, Active, Busy
<1>2. Top(t) \in FrameType
  BY <1>1, TopTyped
<1>3. PICK k \in Top(t).forked : stack' = [stack EXCEPT ![t][Len(stack[t])].joining = k]
  BY DEF StartJoin
<1>4. /\ Awaiting(t, k) \in FrameType
      /\ Awaiting(t, k).kind = Top(t).kind /\ Awaiting(t, k).id = Top(t).id
  BY <1>2, <1>3 DEF FrameType, Awaiting
<1>5. stack' = [stack EXCEPT ![t] = Topped(t, Awaiting(t, k))]
  BY <1>3 DEF Top, Last, Topped, Awaiting
<1> QED
  BY <1>1, <1>3, <1>4, <1>5

LEMMA EndJoinMoves ==
  ASSUME UnwindingInv, NEW t \in Threads, EndJoin(t)
  PROVE  /\ stack[t] # <<>> /\ Top(t).joining \in DOMAIN result
         /\ Joined(t) \in FrameType
         /\ Joined(t).kind = Top(t).kind /\ Joined(t).id = Top(t).id
         /\ Given(t) \in FrameType /\ Given(t).kind = "json"
         /\ stack' = [stack EXCEPT ![t] =
              IF result[Top(t).joining] = 0 THEN Topped(t, Joined(t))
              ELSE Append(Topped(t, Joined(t)), Given(t))]
<1> DEFINE n == Len(stack[t])
           k == Top(t).joining
           twice == [stack[t] EXCEPT ![Len(stack[t])].forked = @ \ {k},
                                     ![Len(stack[t])].joining = 0]
<1>1. stack[t] # <<>> /\ k \in DOMAIN result
  BY DEF EndJoin, Joining, Busy
<1>2. Top(t) \in FrameType
  BY <1>1, TopTyped
<1>3. Joined(t) \in FrameType /\ Joined(t).kind = Top(t).kind /\ Joined(t).id = Top(t).id
  BY <1>2 DEF FrameType, Joined
<1>4. twice = Topped(t, Joined(t))
  <2>1. stack[t] \in Seq(FrameType)
    BY InvMatch
  <2>2. Len(stack[t]) \in Nat /\ Len(stack[t]) # 0
    BY <1>1, <2>1, EmptySeq, LenProperties
  <2>3. n \in DOMAIN stack[t]
    BY <2>1, <2>2
  <2> QED
    BY <1>2, <2>1, <2>3 DEF Top, Last, FrameType, Topped, Joined
<1>5. stack' = [stack EXCEPT ![t] =
        IF result[k] = 0 THEN twice ELSE Append(twice, Frame("json", result[k]))]
  BY DEF EndJoin
<1>6. result[k] \in Id
  BY <1>1 DEF UnwindingInv, TasksTyped
<1>7. Given(t) \in FrameType /\ Given(t).kind = "json"
  BY <1>6 DEF Given, Frame, FrameType, Kinds
<1> HIDE DEF twice
<1> QED
  BY <1>1, <1>3, <1>4, <1>5, <1>7 DEF Given

\* A task leaves with its value: only the two scopes go.
LEMMA ReturnJsonMoves ==
  ASSUME UnwindingInv, NEW t \in Threads, ReturnJson(t)
  PROVE  \E n \in 0 .. Len(stack[t]) :
           /\ stack' = [stack EXCEPT ![t] = SubSeq(stack[t], 1, n)]
           /\ \A i \in n + 1 .. Len(stack[t]) : stack[t][i].kind \in {"task", "json"}
<1> DEFINE s == stack[t]
           n == Len(s)
<1>1. /\ s # <<>> /\ Top(t).kind = "json" /\ s[n - 1].kind = "task"
      /\ stack' = [stack EXCEPT ![t] = SubSeq(s, 1, n - 2)]
  BY DEF ReturnJson, Leaving, Active, Busy
<1>2. s \in Seq(FrameType)
  BY InvMatch
<1>3. n \in Nat /\ n # 0 /\ s[n].kind = "json"
  BY <1>1, <1>2, EmptySeq, LenProperties DEF Top, Last
<1>4. CASE n = 1
  <2>1. SubSeq(s, 1, n - 2) = <<>> /\ SubSeq(s, 1, 0) = <<>>
    BY <1>4, SubSeqEmpty
  <2>2. 0 \in 0 .. Len(s) /\ \A i \in 0 + 1 .. Len(s) : s[i].kind = "json"
    BY <1>3, <1>4
  <2> QED
    BY <1>1, <2>1, <2>2
<1>5. CASE n # 1
  <2>1. n - 2 \in 0 .. Len(s) /\ \A i \in n - 2 + 1 .. Len(s) : i = n - 1 \/ i = n
    <3>1. n \in Nat /\ n # 0 /\ n # 1 /\ Len(s) = n
      BY <1>3, <1>5
    <3> HIDE DEF n, s
    <3> QED
      BY <3>1
  <2>2. \A i \in n - 2 + 1 .. Len(s) : s[i].kind \in {"task", "json"}
    BY <1>1, <1>3, <2>1
  <2> HIDE DEF n
  <2> QED
    BY <1>1, <2>1, <2>2
<1> QED
  BY <1>4, <1>5

\* What is left of a stack under the innermost trap.
Below(t) == SubSeq(stack[t], 1, Last(traps[t]) - 1)

LEMMA PanicMoves ==
  ASSUME UnwindingInv, NEW t \in Threads, Panic(t), traps[t] # <<>>
  PROVE  /\ Last(traps[t]) \in 1 .. Len(stack[t]) /\ stack[t][Last(traps[t])].kind = "try"
         /\ Below(t) \in Seq(FrameType) /\ Front(traps[t]) \in Seq(Nat)
         /\ Match(Below(t), Front(traps[t]), "try")
         /\ Frame("fallback", 0) \in FrameType /\ Frame("fallback", 0).kind = "fallback"
         /\ stack' = [stack EXCEPT ![t] = Append(Below(t), Frame("fallback", 0))]
         /\ traps' = [traps EXCEPT ![t] = Front(traps[t])]
<1>1. /\ Last(traps[t]) \in 1 .. Len(stack[t]) /\ stack[t][Last(traps[t])].kind = "try"
      /\ Below(t) \in Seq(FrameType) /\ Front(traps[t]) \in Seq(Nat)
      /\ Match(Below(t), Front(traps[t]), "try")
  BY InvMatch, MatchJump DEF Below
<1>2. Frame("fallback", 0) \in FrameType /\ Frame("fallback", 0).kind = "fallback"
  BY DEF Frame, FrameType, Kinds, Id
<1>3. /\ stack' = [stack EXCEPT ![t] = Append(Below(t), Frame("fallback", 0))]
      /\ traps' = [traps EXCEPT ![t] = Front(traps[t])]
  BY DEF Panic, Below
<1> QED
  BY <1>1, <1>2, <1>3

-----------------------------------------------------------------------------
\* The tasks keep their types if they stay, and the budget shrinks.
LEMMA SpendTyped ==
  ASSUME UnwindingInv, NEW op \in Operations, May(op), Spend(op)
  PROVE  left' \in [Operations -> Nat]
  BY DEF UnwindingInv, TasksTyped, May, Spend

LEMMA TasksSame ==
  ASSUME UnwindingInv, UNCHANGED taskVars,
         left' = left \/ \E op \in Operations : May(op) /\ Spend(op)
  PROVE  TasksTyped'
<1>1. left' \in [Operations -> Nat]
  BY SpendTyped DEF UnwindingInv, TasksTyped
<1> QED
  BY <1>1 DEF UnwindingInv, TasksTyped, taskVars

\* A task that is done keeps its result typed.
LEMMA ResultTyped ==
  ASSUME UnwindingInv, NEW k, NEW v \in Id, Done(k, v)
  PROVE  \A j \in DOMAIN result' : result'[j] \in Id
  BY DEF UnwindingInv, TasksTyped, Done

LEMMA InitHolds == Init => UnwindingInv
<1> SUFFICES ASSUME Init PROVE UnwindingInv
  OBVIOUS
<1>1. Frame("task", 0) \in FrameType /\ Frame("task", 0).kind # "try"
  BY DEF Frame, FrameType, Kinds, Id
<1> USE DEF Init
<1>2. StackTyped
  BY <1>1 DEF StackTyped
<1>3. TasksTyped
  BY UnwindingAssumption, FS_EmptySet DEF TasksTyped
<1>4. ASSUME NEW t \in Threads PROVE Match(stack[t], traps[t], "try")
  <2>1. \A i \in 1 .. Len(stack[t]) : stack[t][i].kind # "try"
    BY <1>1
  <2> QED
    BY <2>1 DEF Match, Ordered, Lists
<1> QED
  BY <1>2, <1>3, <1>4 DEF UnwindingInv, TrapsAreFrames, Match, Ordered, Lists

LEMMA ForkKeeps ==
  ASSUME UnwindingInv, NEW t \in Threads, Fork(t)
  PROVE  UnwindingInv'
<1>1. StackTyped' /\ TrapsAreFrames'
  BY ForkMoves, TopMoves, CallStep DEF Fork
<1>2. TasksTyped'
  <2>1. queue' \in Seq(Nat)
    BY ForkMoves, AppendProperties DEF Fork, UnwindingInv, TasksTyped
  <2>2. IsFiniteSet(born')
    <3>1. IsFiniteSet(born) /\ born' = born \cup {Cardinality(born) + 1}
      BY DEF Fork, UnwindingInv, TasksTyped
    <3> QED
      BY <3>1, FS_AddElement
  <2>3. result' = result /\ left' \in [Operations -> Nat]
    BY DEF Fork, UnwindingInv, TasksTyped, Spend, May, Operations
  <2> QED
    BY <2>1, <2>2, <2>3 DEF UnwindingInv, TasksTyped
<1> QED
  BY <1>1, <1>2 DEF UnwindingInv

LEMMA StartJoinKeeps ==
  ASSUME UnwindingInv, NEW t \in Threads, StartJoin(t)
  PROVE  UnwindingInv'
<1>1. PICK k \in Top(t).forked :
        /\ Awaiting(t, k) \in FrameType
        /\ Awaiting(t, k).kind = Top(t).kind /\ Awaiting(t, k).id = Top(t).id
        /\ stack' = [stack EXCEPT ![t] = Topped(t, Awaiting(t, k))]
  BY StartJoinMoves
<1>2. StackTyped' /\ TrapsAreFrames'
  BY <1>1, StartJoinMoves, TopMoves, CallStep DEF StartJoin
<1> QED
  BY <1>2, TasksSame DEF StartJoin, UnwindingInv

LEMMA RunTaskKeeps ==
  ASSUME UnwindingInv, NEW t \in Threads, RunTask(t)
  PROVE  UnwindingInv'
<1>1. Head(queue) \in Nat /\ Tail(queue) \in Seq(Nat)
  BY HeadTailProperties DEF RunTask, UnwindingInv, TasksTyped
<1>2. Frame("task", Head(queue)) \in FrameType /\ Frame("task", Head(queue)).kind # "try"
  BY <1>1 DEF Frame, FrameType, Kinds, Id
<1>3. StackTyped' /\ TrapsAreFrames'
  BY <1>2, PushStep DEF RunTask
<1>4. TasksTyped'
  BY <1>1 DEF RunTask, UnwindingInv, TasksTyped
<1> QED
  BY <1>3, <1>4 DEF UnwindingInv

LEMMA EndJoinKeeps ==
  ASSUME UnwindingInv, NEW t \in Threads, EndJoin(t)
  PROVE  UnwindingInv'
<1>1. Topped(t, Joined(t)) \in Seq(FrameType) /\ Match(Topped(t, Joined(t)), traps[t], "try")
  BY EndJoinMoves, TopMoves
<1>2. traps[t] \in Seq(Nat) /\ UNCHANGED traps
  BY InvMatch DEF EndJoin
<1>3. StackTyped' /\ TrapsAreFrames'
  <2>1. CASE result[Top(t).joining] = 0
    BY <1>1, <1>2, <2>1, EndJoinMoves, CallStep
  <2>2. CASE result[Top(t).joining] # 0
    <3>1. /\ Given(t) \in FrameType /\ Given(t).kind # "try"
          /\ stack' = [stack EXCEPT ![t] = Append(Topped(t, Joined(t)), Given(t))]
      BY <2>2, EndJoinMoves
    <3> QED
      BY <1>1, <1>2, <3>1, MatchPush, CallStep
  <2> QED
    BY <2>1, <2>2
<1> QED
  BY <1>3, TasksSame DEF EndJoin, UnwindingInv

LEMMA FinishTaskKeeps ==
  ASSUME UnwindingInv, NEW t \in Threads, FinishTask(t)
  PROVE  UnwindingInv'
<1>1. stack[t] # <<>> /\ Top(t).kind # "try"
  BY DEF FinishTask, Leaving, Active, Busy
<1>2. StackTyped' /\ TrapsAreFrames'
  BY <1>1, PopStep DEF FinishTask
<1>3. \A j \in DOMAIN result' : result'[j] \in Id
  BY ResultTyped DEF FinishTask, Id
<1>4. TasksTyped'
  BY <1>3 DEF FinishTask, UnwindingInv, TasksTyped
<1> QED
  BY <1>2, <1>4 DEF UnwindingInv

LEMMA ReturnJsonKeeps ==
  ASSUME UnwindingInv, NEW t \in Threads, ReturnJson(t)
  PROVE  UnwindingInv'
<1> DEFINE s == stack[t]
<1>1. s \in Seq(FrameType) /\ traps[t] \in Seq(Nat) /\ Match(s, traps[t], "try")
  BY InvMatch
<1>2. PICK n \in 0 .. Len(s) :
        /\ stack' = [stack EXCEPT ![t] = SubSeq(s, 1, n)]
        /\ \A i \in n + 1 .. Len(s) : s[i].kind \in {"task", "json"}
  BY ReturnJsonMoves
<1>3. StackTyped' /\ TrapsAreFrames'
  <2>1. UNCHANGED traps
    BY DEF ReturnJson
  <2>2. \A i \in n + 1 .. Len(s) : s[i].kind # "try"
    BY <1>2
  <2>3. SubSeq(s, 1, n) \in Seq(FrameType) /\ Match(SubSeq(s, 1, n), traps[t], "try")
    BY <1>1, <2>2, MatchCut
  <2> QED
    BY <1>2, <2>1, <2>3, CallStep
<1>4. Top(t).id \in Id
  <2>1. s # <<>>
    BY DEF ReturnJson, Leaving, Active, Busy
  <2> QED
    BY <2>1, TopTyped DEF FrameType
<1>5. \A j \in DOMAIN result' : result'[j] \in Id
  <2>1. Done(s[Len(s) - 1].id, Top(t).id)
    BY DEF ReturnJson
  <2> QED
    BY <1>4, <2>1, ResultTyped
<1>6. TasksTyped'
  BY <1>5 DEF ReturnJson, UnwindingInv, TasksTyped
<1> QED
  BY <1>3, <1>6 DEF UnwindingInv

-----------------------------------------------------------------------------
LEMMA OpenTryKeeps ==
  ASSUME UnwindingInv, NEW t \in Threads, OpenTry(t)
  PROVE  UnwindingInv'
<1> DEFINE s  == Append(stack[t], Frame("try", 0))
           tr == Append(traps[t], Len(stack[t]) + 1)
<1>1. Frame("try", 0) \in FrameType /\ Frame("try", 0).kind = "try"
  BY DEF Frame, FrameType, Kinds, Id
<1>2. s \in Seq(FrameType) /\ tr \in Seq(Nat) /\ Match(s, tr, "try")
  BY <1>1, InvMatch, MatchOpen
<1>3. stack' = [stack EXCEPT ![t] = s] /\ traps' = [traps EXCEPT ![t] = tr]
  BY DEF OpenTry, Push
<1> HIDE DEF s, tr
<1>4. StackTyped' /\ TrapsAreFrames'
  BY <1>2, <1>3, StackStep
<1> QED
  BY <1>4, TasksSame DEF OpenTry, Operations, UnwindingInv

LEMMA CloseTryKeeps ==
  ASSUME UnwindingInv, NEW t \in Threads, CloseTry(t)
  PROVE  UnwindingInv'
<1> DEFINE s  == SubSeq(stack[t], 1, Len(stack[t]) - 1)
           tr == Front(traps[t])
<1>1. stack[t] # <<>> /\ stack[t][Len(stack[t])].kind = "try"
  BY DEF CloseTry, Leaving, Active, Busy, Top, Last
<1>2. stack[t] \in Seq(FrameType) /\ traps[t] \in Seq(Nat) /\ Match(stack[t], traps[t], "try")
  BY InvMatch
<1>3. traps[t] # <<>> /\ Last(traps[t]) = Len(stack[t])
  BY <1>1, <1>2, MatchClose
<1>4. s \in Seq(FrameType) /\ tr \in Seq(Nat) /\ Match(s, tr, "try")
  <2>1. /\ Front(traps[t]) \in Seq(Nat) /\ SubSeq(stack[t], 1, Last(traps[t]) - 1) \in Seq(FrameType)
        /\ Match(SubSeq(stack[t], 1, Last(traps[t]) - 1), Front(traps[t]), "try")
    BY <1>2, <1>3, MatchJump
  <2> QED
    BY <1>3, <2>1
<1>5. stack' = [stack EXCEPT ![t] = s] /\ traps' = [traps EXCEPT ![t] = tr]
  BY DEF CloseTry, Pop, Front
<1> HIDE DEF s, tr
<1>6. StackTyped' /\ TrapsAreFrames'
  BY <1>4, <1>5, StackStep
<1> QED
  BY <1>6, TasksSame DEF CloseTry, UnwindingInv

LEMMA PanicKeeps ==
  ASSUME UnwindingInv, NEW t \in Threads, Panic(t)
  PROVE  UnwindingInv'
<1>1. CASE traps[t] = <<>>
  <2>1. UNCHANGED <<stack, traps>>
    BY <1>1 DEF Panic
  <2>2. StackTyped' /\ TrapsAreFrames'
    <3>1. stack' = [stack EXCEPT ![t] = stack[t]]
      BY <2>1 DEF UnwindingInv, StackTyped
    <3> QED
      BY <2>1, <3>1, InvMatch, CallStep
  <2>3. UNCHANGED taskVars
    BY <1>1 DEF Panic, taskVars
  <2> QED
    BY <2>2, <2>3, TasksSame DEF Panic, Operations, UnwindingInv
<1>2. CASE traps[t] # <<>>
  <2>1. /\ Below(t) \in Seq(FrameType) /\ Front(traps[t]) \in Seq(Nat)
        /\ Match(Below(t), Front(traps[t]), "try")
    BY <1>2, PanicMoves
  <2>2. /\ stack' = [stack EXCEPT ![t] = Append(Below(t), Frame("fallback", 0))]
        /\ traps' = [traps EXCEPT ![t] = Front(traps[t])]
        /\ Frame("fallback", 0) \in FrameType /\ Frame("fallback", 0).kind = "fallback"
    BY <1>2, PanicMoves
  <2>3. StackTyped' /\ TrapsAreFrames'
    BY <2>1, <2>2, MatchPush, StackStep
  <2>4. TasksTyped'
    <3>1. UNCHANGED <<queue, result, born>>
      BY DEF Panic
    <3>2. left' \in [Operations -> Nat]
      BY SpendTyped DEF Panic, Operations
    <3> QED
      BY <3>1, <3>2 DEF UnwindingInv, TasksTyped
  <2> QED
    BY <2>3, <2>4 DEF UnwindingInv
<1> QED
  BY <1>1, <1>2

LEMMA EnterSpanKeeps ==
  ASSUME UnwindingInv, NEW t \in Threads, EnterSpan(t)
  PROVE  UnwindingInv'
<1>1. left.span \in Nat
  BY DEF UnwindingInv, TasksTyped, Operations
<1>2. Frame("span", left.span) \in FrameType /\ Frame("span", left.span).kind # "try"
  BY <1>1 DEF Frame, FrameType, Kinds, Id
<1>3. StackTyped' /\ TrapsAreFrames'
  BY <1>2, PushStep DEF EnterSpan
<1> QED
  BY <1>3, TasksSame DEF EnterSpan, Operations, UnwindingInv

LEMMA ParseJsonKeeps ==
  ASSUME UnwindingInv, NEW t \in Threads, NEW a \in Addresses, ParseJson(t, a)
  PROVE  UnwindingInv'
<1>1. Frame("json", a) \in FrameType /\ Frame("json", a).kind # "try"
  BY DEF Frame, FrameType, Kinds, Id
<1>2. StackTyped' /\ TrapsAreFrames'
  BY <1>1, PushStep DEF ParseJson
<1> QED
  BY <1>2, TasksSame DEF ParseJson, Operations, UnwindingInv

\* A fallback, a span or a JSON scope is left.
LEMMA LeaveKeeps ==
  ASSUME UnwindingInv, NEW t \in Threads, EndFallback(t) \/ ExitSpan(t) \/ DropJson(t)
  PROVE  UnwindingInv'
<1>1. stack[t] # <<>> /\ Top(t).kind # "try"
  BY DEF EndFallback, ExitSpan, DropJson, Leaving, Active, Busy
<1>2. Pop(t) /\ UNCHANGED <<traps, taskVars, left>>
  BY DEF EndFallback, ExitSpan, DropJson
<1>3. StackTyped' /\ TrapsAreFrames'
  BY <1>1, <1>2, PopStep
<1> QED
  BY <1>2, <1>3, TasksSame DEF UnwindingInv

LEMMA NextKeeps == UnwindingInv /\ [Next]_vars => UnwindingInv'
<1> SUFFICES ASSUME UnwindingInv, [Next]_vars PROVE UnwindingInv'
  OBVIOUS
<1>1. ASSUME NEW t \in Threads, Step(t) PROVE UnwindingInv'
  <2>1. CASE Fork(t)
    BY <2>1, ForkKeeps
  <2>2. CASE StartJoin(t)
    BY <2>2, StartJoinKeeps
  <2>3. CASE Work(t) \/ Help(t)
    BY <2>3, RunTaskKeeps DEF Work, Help
  <2>4. CASE EndJoin(t)
    BY <2>4, EndJoinKeeps
  <2>5. CASE FinishTask(t)
    BY <2>5, FinishTaskKeeps
  <2>6. CASE ReturnJson(t)
    BY <2>6, ReturnJsonKeeps
  <2>7. CASE OpenTry(t)
    BY <2>7, OpenTryKeeps
  <2>8. CASE CloseTry(t)
    BY <2>8, CloseTryKeeps
  <2>9. CASE Panic(t)
    BY <2>9, PanicKeeps
  <2>10. CASE EnterSpan(t)
    BY <2>10, EnterSpanKeeps
  <2>11. CASE EndFallback(t) \/ ExitSpan(t) \/ DropJson(t)
    BY <2>11, LeaveKeeps
  <2>12. CASE \E a \in Addresses : ParseJson(t, a)
    BY <2>12, ParseJsonKeeps
  <2> QED
    BY <1>1, <2>1, <2>2, <2>3, <2>4, <2>5, <2>6, <2>7, <2>8, <2>9, <2>10, <2>11, <2>12 DEF Step
<1>2. CASE UNCHANGED vars
  BY <1>2 DEF vars, historyVars, UnwindingInv, StackTyped, TasksTyped, TrapsAreFrames
<1> QED
  BY <1>1, <1>2 DEF Next

(* On every thread, whatever tasks it runs and however panics unwind it,   *)
(* the trap stack of runtime/io.c lists exactly the trap frames that are   *)
(* on the call stack.                                                      *)
THEOREM TrapsStayFrames == Spec => []TrapsAreFrames
<1>1. UnwindingInv => TrapsAreFrames
  BY DEF UnwindingInv
<1> QED
  BY InitHolds, NextKeeps, <1>1, PTL DEF Spec

-----------------------------------------------------------------------------
(* The span context of http_server.c: the contexts saved are those of the  *)
(* calls, outermost first.                                                 *)

Contexts == [trace : Nat, span : Nat]

\* The context in the i-th span of those at the positions p, outermost first.
Context(s, p, i) == IF i = 0 THEN NoSpan ELSE [trace |-> s[p[1]].id, span |-> s[p[i]].id]

(* The spans on the stack s are at p; what is saved of them is the context *)
(* that each was entered from, and the current one is the innermost.       *)
SpanChain(s, p, sv, cur) ==
  /\ Match(s, p, "span")
  /\ \A i \in 1 .. Len(p) : s[p[i]].id \in Nat \ {0}
  /\ Len(sv) = Len(p)
  /\ \A i \in 1 .. Len(p) : sv[i] = Context(s, p, i - 1)
  /\ cur = Context(s, p, Len(p))

SpansTyped   == saved \in [Threads -> Seq(Contexts)] /\ current \in [Threads -> Contexts]
SpansChained == \A t \in Threads \ tainted :
                  \E p \in Seq(Nat) : SpanChain(stack[t], p, saved[t], current[t])
SpanInv == UnwindingInv /\ SpansTyped /\ SpansChained

\* The spans keep their places and their names.
LEMMA ChainSame ==
  ASSUME NEW s \in Seq(FrameType), NEW p \in Seq(Nat), NEW sv, NEW cur, SpanChain(s, p, sv, cur),
         NEW u \in Seq(FrameType), Match(u, p, "span"),
         \A i \in 1 .. Len(p) : u[p[i]].id = s[p[i]].id
  PROVE  SpanChain(u, p, sv, cur)
<1>1. Len(p) \in Nat
  BY LenProperties
<1>2. ASSUME NEW i \in 0 .. Len(p) PROVE Context(u, p, i) = Context(s, p, i)
  <2>1. CASE i = 0
    BY <2>1 DEF Context
  <2>2. CASE i # 0
    <3>1. 1 \in 1 .. Len(p) /\ i \in 1 .. Len(p)
      BY <1>1, <1>2, <2>2
    <3> QED
      BY <2>2, <3>1 DEF Context
  <2> QED
    BY <2>1, <2>2
<1>3. Len(p) \in 0 .. Len(p) /\ \A i \in 1 .. Len(p) : i - 1 \in 0 .. Len(p)
  BY <1>1
<1> QED
  BY <1>2, <1>3 DEF SpanChain

LEMMA ChainPlaces ==
  ASSUME NEW s \in Seq(FrameType), NEW p \in Seq(Nat), NEW sv, NEW cur, SpanChain(s, p, sv, cur)
  PROVE  /\ Len(p) \in Nat /\ Len(s) \in Nat
         /\ \A i \in 1 .. Len(p) : p[i] \in 1 .. Len(s) /\ s[p[i]].kind = "span"
  BY LenProperties DEF SpanChain, Match, Lists

LEMMA ChainPush ==
  ASSUME NEW s \in Seq(FrameType), NEW p \in Seq(Nat), NEW sv, NEW cur, SpanChain(s, p, sv, cur),
         NEW f \in FrameType, f.kind # "span"
  PROVE  SpanChain(Append(s, f), p, sv, cur)
<1>1. Append(s, f) \in Seq(FrameType) /\ Match(Append(s, f), p, "span")
  BY MatchPush DEF SpanChain
<1>2. \A k \in 1 .. Len(s) : Append(s, f)[k] = s[k]
  BY AppendProperties
<1> QED
  BY <1>1, <1>2, ChainPlaces, ChainSame

LEMMA ChainCut ==
  ASSUME NEW s \in Seq(FrameType), NEW p \in Seq(Nat), NEW sv, NEW cur, SpanChain(s, p, sv, cur),
         NEW n \in 0 .. Len(s), \A i \in n + 1 .. Len(s) : s[i].kind # "span"
  PROVE  SpanChain(SubSeq(s, 1, n), p, sv, cur)
<1> DEFINE u == SubSeq(s, 1, n)
<1>1. u \in Seq(FrameType) /\ Match(u, p, "span")
  BY MatchCut DEF SpanChain
<1>2. Len(u) = n /\ \A k \in 1 .. n : u[k] = s[k]
  BY Prefix
<1> HIDE DEF u
<1>3. \A i \in 1 .. Len(p) : p[i] \in 1 .. n
  BY <1>1, <1>2 DEF Match, Lists
<1>4. SpanChain(u, p, sv, cur)
  BY <1>1, <1>2, <1>3, ChainSame
<1> QED
  BY <1>4 DEF u

LEMMA ChainTop ==
  ASSUME NEW s \in Seq(FrameType), NEW p \in Seq(Nat), NEW sv, NEW cur, SpanChain(s, p, sv, cur),
         s # <<>>, NEW f \in FrameType, f.kind = s[Len(s)].kind, f.id = s[Len(s)].id
  PROVE  SpanChain([s EXCEPT ![Len(s)] = f], p, sv, cur)
<1> DEFINE u == [s EXCEPT ![Len(s)] = f]
<1>1. Len(s) \in 1 .. Len(s)
  BY EmptySeq, LenProperties
<1>2. u \in Seq(FrameType) /\ Len(u) = Len(s)
  BY <1>1, ExceptSeq
<1>3. \A i \in 1 .. Len(s) : u[i].kind = s[i].kind /\ u[i].id = s[i].id
  BY <1>1
<1> HIDE DEF u
<1>4. Match(u, p, "span")
  BY <1>2, <1>3, MatchSame DEF SpanChain
<1>5. SpanChain(u, p, sv, cur)
  BY <1>2, <1>3, <1>4, ChainPlaces, ChainSame
<1> QED
  BY <1>5 DEF u

LEMMA ChainEnter ==
  ASSUME NEW s \in Seq(FrameType), NEW p \in Seq(Nat), NEW sv \in Seq(Contexts), NEW cur \in Contexts,
         SpanChain(s, p, sv, cur), NEW f \in FrameType, f.kind = "span", f.id \in Nat \ {0}
  PROVE  /\ Append(p, Len(s) + 1) \in Seq(Nat)
         /\ SpanChain(Append(s, f), Append(p, Len(s) + 1), Append(sv, cur),
                      [trace |-> IF cur.trace = 0 THEN f.id ELSE cur.trace, span |-> f.id])
<1> DEFINE u == Append(s, f)
           d == Len(s) + 1
           q == Append(p, d)
           w == Append(sv, cur)
           now == [trace |-> IF cur.trace = 0 THEN f.id ELSE cur.trace, span |-> f.id]
           m == Len(p)
<1>1. u \in Seq(FrameType) /\ q \in Seq(Nat) /\ Match(u, q, "span")
  BY MatchOpen DEF SpanChain
<1>2. m \in Nat /\ \A i \in 1 .. m : p[i] \in 1 .. Len(s)
  BY ChainPlaces
<1>3. u[d] = f /\ \A k \in 1 .. Len(s) : u[k] = s[k]
  BY AppendProperties
<1>4. Len(q) = m + 1 /\ q[m + 1] = d /\ \A i \in 1 .. m : q[i] = p[i]
  BY <1>1, AppendProperties, LenProperties
<1>5. Len(w) = m + 1 /\ w[m + 1] = cur /\ \A i \in 1 .. m : w[i] = sv[i]
  BY AppendProperties DEF SpanChain
<1>6. cur = Context(s, p, m) /\ \A i \in 1 .. m : s[p[i]].id \in Nat \ {0} /\ sv[i] = Context(s, p, i - 1)
  BY DEF SpanChain
<1> HIDE DEF u, d, q, w, m
<1>7. ASSUME NEW i \in 0 .. m PROVE Context(u, q, i) = Context(s, p, i)
  <2>1. CASE i = 0
    BY <2>1 DEF Context
  <2>2. CASE i # 0
    <3>1. 1 \in 1 .. m /\ i \in 1 .. m
      BY <1>2, <1>7, <2>2
    <3>2. u[q[1]] = s[p[1]] /\ u[q[i]] = s[p[i]]
      BY <1>2, <1>3, <1>4, <3>1
    <3> QED
      BY <2>2, <3>2 DEF Context
  <2> QED
    BY <2>1, <2>2
<1>8. now = Context(u, q, m + 1)
  <2>1. m + 1 # 0 /\ u[q[m + 1]] = f
    BY <1>2, <1>3, <1>4
  <2>2. now.trace = u[q[1]].id
    <3>1. CASE m = 0
      BY <1>6, <2>1, <3>1 DEF Context, NoSpan
    <3>2. CASE m # 0
      <4>1. 1 \in 1 .. m
        BY <1>2, <3>2
      <4>2. cur.trace = s[p[1]].id /\ cur.trace # 0
        BY <1>6, <3>2, <4>1 DEF Context
      <4>3. u[q[1]] = s[p[1]]
        BY <1>2, <1>3, <1>4, <4>1
      <4> QED
        BY <4>2, <4>3
    <3> QED
      BY <3>1, <3>2
  <2> QED
    BY <2>1, <2>2 DEF Context
<1> HIDE DEF now
<1>9. ASSUME NEW i \in 1 .. Len(q) PROVE u[q[i]].id \in Nat \ {0} /\ w[i] = Context(u, q, i - 1)
  <2>1. CASE i \in 1 .. m
    <3>1. i - 1 \in 0 .. m
      BY <1>2, <2>1
    <3>2. w[i] = Context(u, q, i - 1)
      BY <1>5, <1>6, <1>7, <2>1, <3>1
    <3>3. u[q[i]] = s[p[i]]
      BY <1>2, <1>3, <1>4, <2>1
    <3> QED
      BY <1>6, <2>1, <3>2, <3>3
  <2>2. CASE i = m + 1
    <3>1. i - 1 = m /\ m \in 0 .. m
      BY <1>2, <2>2
    <3>2. w[i] = Context(u, q, i - 1)
      BY <1>5, <1>6, <1>7, <2>2, <3>1
    <3> QED
      BY <1>3, <1>4, <2>2, <3>2
  <2> QED
    BY <1>2, <1>4, <2>1, <2>2
<1>10. SpanChain(u, q, w, now)
  BY <1>1, <1>4, <1>5, <1>8, <1>9 DEF SpanChain
<1> QED
  BY <1>1, <1>10 DEF u, d, q, w, now

LEMMA ChainExit ==
  ASSUME NEW s \in Seq(FrameType), NEW p \in Seq(Nat), NEW sv \in Seq(Contexts), NEW cur,
         SpanChain(s, p, sv, cur), s # <<>>, s[Len(s)].kind = "span"
  PROVE  /\ sv # <<>> /\ Front(p) \in Seq(Nat)
         /\ SpanChain(Front(s), Front(p), Front(sv), Last(sv))
<1> DEFINE u == Front(s)
           q == Front(p)
           w == Front(sv)
           m == Len(p)
<1>1. Match(s, p, "span") /\ Len(sv) = m
      /\ \A i \in 1 .. m : s[p[i]].id \in Nat \ {0} /\ sv[i] = Context(s, p, i - 1)
  BY DEF SpanChain
<1>2. p # <<>> /\ Last(p) = Len(s)
  BY <1>1, MatchClose
<1>3. q \in Seq(Nat) /\ u \in Seq(FrameType) /\ Match(u, q, "span")
  <2>1. /\ Front(p) \in Seq(Nat) /\ SubSeq(s, 1, Last(p) - 1) \in Seq(FrameType)
        /\ Match(SubSeq(s, 1, Last(p) - 1), Front(p), "span")
    BY <1>1, <1>2, MatchJump
  <2> QED
    BY <1>2, <2>1 DEF Front
<1>4. m \in Nat /\ m # 0 /\ sv # <<>>
  BY <1>1, <1>2, EmptySeq, LenProperties
<1>5. Len(q) = m - 1 /\ \A i \in 1 .. m - 1 : q[i] = p[i]
  <2>1. m - 1 \in 0 .. Len(p)
    BY <1>4
  <2> QED
    BY <2>1, Prefix DEF Front
<1>6. Len(w) = m - 1 /\ \A i \in 1 .. m - 1 : w[i] = sv[i]
  <2>1. m - 1 \in 0 .. Len(sv)
    BY <1>1, <1>4
  <2> QED
    BY <1>1, <2>1, Prefix DEF Front
<1>7. Len(u) = Len(s) - 1 /\ \A i \in 1 .. Len(s) - 1 : u[i] = s[i]
  <2>1. Len(s) - 1 \in 0 .. Len(s)
    BY EmptySeq, LenProperties
  <2> QED
    BY <2>1, Prefix DEF Front
<1>8. Last(sv) = Context(s, p, m - 1)
  <2>1. m \in 1 .. m
    BY <1>4
  <2> QED
    BY <1>1, <2>1 DEF Last
<1> HIDE DEF u, q, w, m
<1>9. ASSUME NEW i \in 1 .. m - 1 PROVE u[q[i]] = s[p[i]]
  <2>1. q[i] = p[i] /\ q[i] \in 1 .. Len(u)
    BY <1>3, <1>5 DEF Match, Lists
  <2> QED
    BY <1>7, <2>1
<1>10. ASSUME NEW i \in 0 .. m - 1 PROVE Context(u, q, i) = Context(s, p, i)
  <2>1. CASE i = 0
    BY <2>1 DEF Context
  <2>2. CASE i # 0
    <3>1. 1 \in 1 .. m - 1 /\ i \in 1 .. m - 1
      BY <1>4, <1>10, <2>2
    <3> QED
      BY <1>9, <2>2, <3>1 DEF Context
  <2> QED
    BY <2>1, <2>2
<1>11. ASSUME NEW i \in 1 .. m - 1 PROVE u[q[i]].id \in Nat \ {0} /\ w[i] = Context(u, q, i - 1)
  <2>1. i \in 1 .. m /\ i - 1 \in 0 .. m - 1
    BY <1>4
  <2> QED
    BY <1>1, <1>6, <1>9, <1>10, <2>1
<1>12. Last(sv) = Context(u, q, m - 1)
  <2>1. m - 1 \in 0 .. m - 1
    BY <1>4
  <2> QED
    BY <1>8, <1>10, <2>1
<1>13. SpanChain(u, q, w, Last(sv))
  BY <1>3, <1>5, <1>6, <1>11, <1>12 DEF SpanChain
<1> QED
  BY <1>3, <1>4, <1>13 DEF u, q, w

-----------------------------------------------------------------------------
LEMMA SpanStep ==
  ASSUME SpanInv, UnwindingInv', NEW t \in Threads,
         NEW s \in Seq(FrameType), stack' = [stack EXCEPT ![t] = s],
         NEW sv \in Seq(Contexts), saved' = [saved EXCEPT ![t] = sv],
         NEW cur \in Contexts, current' = [current EXCEPT ![t] = cur],
         tainted \subseteq tainted',
         t \notin tainted' => \E p \in Seq(Nat) : SpanChain(s, p, sv, cur)
  PROVE  SpanInv'
<1>1. SpansTyped'
  BY DEF SpanInv, SpansTyped
<1>2. ASSUME NEW u \in Threads \ tainted'
      PROVE  \E p \in Seq(Nat) : SpanChain(stack'[u], p, saved'[u], current'[u])
  <2>1. CASE u = t
    <3>1. stack'[u] = s /\ saved'[u] = sv /\ current'[u] = cur
      BY <2>1 DEF SpanInv, SpansTyped, UnwindingInv, StackTyped
    <3> QED
      BY <1>2, <2>1, <3>1
  <2>2. CASE u # t
    <3>1. stack'[u] = stack[u] /\ saved'[u] = saved[u] /\ current'[u] = current[u]
      BY <2>2 DEF SpanInv, SpansTyped, UnwindingInv, StackTyped
    <3>2. u \in Threads \ tainted
      OBVIOUS
    <3> QED
      BY <3>1, <3>2 DEF SpanInv, SpansChained
  <2> QED
    BY <2>1, <2>2
<1> QED
  BY <1>1, <1>2 DEF SpanInv, SpansChained

\* Steps that leave the context alone, on a stack that keeps its spans.
LEMMA SpansKept ==
  ASSUME SpanInv, UnwindingInv', NEW t \in Threads, UNCHANGED <<saved, current>>,
         tainted \subseteq tainted',
         NEW s \in Seq(FrameType), stack' = [stack EXCEPT ![t] = s],
         \A p \in Seq(Nat) : SpanChain(stack[t], p, saved[t], current[t]) /\ t \notin tainted'
                               => SpanChain(s, p, saved[t], current[t])
  PROVE  SpanInv'
<1>1. /\ saved[t] \in Seq(Contexts) /\ saved' = [saved EXCEPT ![t] = saved[t]]
      /\ current[t] \in Contexts /\ current' = [current EXCEPT ![t] = current[t]]
  BY DEF SpanInv, SpansTyped
<1>2. t \notin tainted' => \E p \in Seq(Nat) : SpanChain(s, p, saved[t], current[t])
  BY DEF SpanInv, SpansChained
<1> QED
  BY <1>1, <1>2, SpanStep

LEMMA SpansKeptPush ==
  ASSUME SpanInv, UnwindingInv', NEW t \in Threads, UNCHANGED spanVars,
         NEW f \in FrameType, f.kind # "span", Push(t, f)
  PROVE  SpanInv'
<1>1. stack[t] \in Seq(FrameType)
  BY InvMatch DEF SpanInv
<1>2. Append(stack[t], f) \in Seq(FrameType) /\ stack' = [stack EXCEPT ![t] = Append(stack[t], f)]
  BY <1>1, AppendProperties DEF Push
<1> QED
  BY <1>1, <1>2, ChainPush, SpansKept DEF spanVars

LEMMA SpansKeptPop ==
  ASSUME SpanInv, UnwindingInv', NEW t \in Threads, UNCHANGED spanVars,
         stack[t] # <<>>, Top(t).kind # "span", Pop(t)
  PROVE  SpanInv'
<1> DEFINE s == stack[t]
           n == Len(s) - 1
<1>1. s \in Seq(FrameType)
  BY InvMatch DEF SpanInv
<1>2. n \in 0 .. Len(s) /\ \A i \in n + 1 .. Len(s) : i = Len(s)
  BY <1>1, EmptySeq, LenProperties
<1>3. \A i \in n + 1 .. Len(s) : s[i].kind # "span"
  BY <1>2 DEF Top, Last
<1>4. SubSeq(s, 1, n) \in Seq(FrameType) /\ stack' = [stack EXCEPT ![t] = SubSeq(s, 1, n)]
  BY <1>1, <1>2, Prefix DEF Pop, Front
<1> HIDE DEF n
<1> QED
  BY <1>1, <1>2, <1>3, <1>4, ChainCut, SpansKept DEF spanVars

LEMMA SpansKeptTop ==
  ASSUME SpanInv, UnwindingInv', NEW t \in Threads, UNCHANGED spanVars, stack[t] # <<>>,
         NEW f \in FrameType, f.kind = Top(t).kind, f.id = Top(t).id,
         stack' = [stack EXCEPT ![t] = Topped(t, f)]
  PROVE  SpanInv'
<1>1. stack[t] \in Seq(FrameType) /\ Topped(t, f) \in Seq(FrameType)
  BY InvMatch, TopMoves DEF SpanInv
<1> QED
  BY <1>1, ChainTop, SpansKept DEF spanVars, Top, Last, Topped

-----------------------------------------------------------------------------
LEMMA EnterSpanChains ==
  ASSUME SpanInv, UnwindingInv', NEW t \in Threads, EnterSpan(t)
  PROVE  SpanInv'
<1> DEFINE f   == Frame("span", left.span)
           s   == Append(stack[t], f)
           cur == [trace |-> IF current[t].trace = 0 THEN left.span ELSE current[t].trace,
                   span |-> left.span]
<1>1. left.span \in Nat \ {0}
  BY DEF SpanInv, UnwindingInv, TasksTyped, Operations, EnterSpan, May
<1>2. stack[t] \in Seq(FrameType) /\ saved[t] \in Seq(Contexts) /\ current[t] \in Contexts
  BY InvMatch DEF SpanInv, SpansTyped
<1>3. f \in FrameType /\ f.kind = "span" /\ f.id = left.span
  BY <1>1 DEF Frame, FrameType, Kinds, Id
<1>4. cur \in Contexts
  BY <1>1, <1>2 DEF Contexts
<1>5. current' = [current EXCEPT ![t] = cur]
  BY DEF EnterSpan
<1>6. stack' = [stack EXCEPT ![t] = s]
  BY DEF EnterSpan, Push
<1> HIDE DEF f
<1>7. s \in Seq(FrameType)
  BY <1>2, <1>3, AppendProperties
<1>8. CASE Len(saved[t]) < MaxSpans
  <2>1. saved' = [saved EXCEPT ![t] = Append(saved[t], current[t])] /\ UNCHANGED tainted
    BY <1>8 DEF EnterSpan
  <2>2. Append(saved[t], current[t]) \in Seq(Contexts)
    BY <1>2, AppendProperties
  <2>3. t \notin tainted' => \E p \in Seq(Nat) : SpanChain(s, p, Append(saved[t], current[t]), cur)
    <3>1. SUFFICES ASSUME t \notin tainted
                   PROVE  \E p \in Seq(Nat) : SpanChain(s, p, Append(saved[t], current[t]), cur)
      BY <2>1
    <3>2. PICK p \in Seq(Nat) : SpanChain(stack[t], p, saved[t], current[t])
      BY <3>1 DEF SpanInv, SpansChained
    <3>3. /\ Append(p, Len(stack[t]) + 1) \in Seq(Nat)
          /\ SpanChain(Append(stack[t], f), Append(p, Len(stack[t]) + 1), Append(saved[t], current[t]),
                       [trace |-> IF current[t].trace = 0 THEN f.id ELSE current[t].trace,
                        span |-> f.id])
      BY <1>1, <1>2, <1>3, <3>2, ChainEnter
    <3> QED
      BY <1>3, <3>3
  <2> QED
    BY <1>4, <1>5, <1>6, <1>7, <2>1, <2>2, <2>3, SpanStep
<1>9. CASE ~(Len(saved[t]) < MaxSpans)
  <2>1. tainted' = tainted \cup {t} /\ saved' = [saved EXCEPT ![t] = saved[t]]
    BY <1>9 DEF EnterSpan, SpanInv, SpansTyped
  <2> QED
    BY <1>2, <1>4, <1>5, <1>6, <1>7, <2>1, SpanStep
<1> QED
  BY <1>8, <1>9

LEMMA ExitSpanChains ==
  ASSUME SpanInv, UnwindingInv', NEW t \in Threads, ExitSpan(t)
  PROVE  SpanInv'
<1>1. /\ stack[t] # <<>> /\ stack[t][Len(stack[t])].kind = "span"
      /\ stack' = [stack EXCEPT ![t] = Front(stack[t])] /\ UNCHANGED tainted
  BY DEF ExitSpan, Leaving, Active, Busy, Top, Last, Pop
<1>2. stack[t] \in Seq(FrameType) /\ saved[t] \in Seq(Contexts) /\ current[t] \in Contexts
  BY InvMatch DEF SpanInv, SpansTyped
<1>3. Front(stack[t]) \in Seq(FrameType)
  <2>1. Len(stack[t]) - 1 \in 0 .. Len(stack[t])
    BY <1>1, <1>2, EmptySeq, LenProperties
  <2> QED
    BY <1>2, <2>1, Prefix DEF Front
<1>4. t \notin tainted' =>
        saved[t] # <<>> /\ \E p \in Seq(Nat) : SpanChain(Front(stack[t]), p, Front(saved[t]), Last(saved[t]))
  <2>1. SUFFICES ASSUME t \notin tainted
                 PROVE  saved[t] # <<>> /\ \E p \in Seq(Nat) :
                          SpanChain(Front(stack[t]), p, Front(saved[t]), Last(saved[t]))
    BY <1>1
  <2>2. PICK p \in Seq(Nat) : SpanChain(stack[t], p, saved[t], current[t])
    BY <2>1 DEF SpanInv, SpansChained
  <2> QED
    BY <1>1, <1>2, <2>2, ChainExit
<1>5. CASE saved[t] # <<>>
  <2>1. /\ saved' = [saved EXCEPT ![t] = Front(saved[t])]
        /\ current' = [current EXCEPT ![t] = Last(saved[t])]
    BY <1>5 DEF ExitSpan
  <2>2. Len(saved[t]) - 1 \in 0 .. Len(saved[t]) /\ Len(saved[t]) \in 1 .. Len(saved[t])
    BY <1>2, <1>5, EmptySeq, LenProperties
  <2>3. Front(saved[t]) \in Seq(Contexts) /\ Last(saved[t]) \in Contexts
    BY <1>2, <2>2, Prefix, ElementOfSeq DEF Front, Last
  <2> QED
    BY <1>1, <1>3, <1>4, <2>1, <2>3, SpanStep
<1>6. CASE saved[t] = <<>>
  <2>1. /\ saved' = [saved EXCEPT ![t] = saved[t]]
        /\ current' = [current EXCEPT ![t] = NoSpan] /\ NoSpan \in Contexts
    BY <1>6 DEF ExitSpan, SpanInv, SpansTyped, NoSpan, Contexts
  <2> QED
    BY <1>1, <1>2, <1>3, <1>4, <1>6, <2>1, SpanStep
<1> QED
  BY <1>5, <1>6

\* A panic leaves the context as it is, which is right where it discards no span.
LEMMA PanicChains ==
  ASSUME SpanInv, UnwindingInv', NEW t \in Threads, Panic(t)
  PROVE  SpanInv'
<1>1. UNCHANGED <<saved, current>> /\ UnwindingInv /\ stack[t] \in Seq(FrameType)
  BY InvMatch DEF Panic, SpanInv
<1>2. CASE traps[t] = <<>>
  <2>1. stack' = [stack EXCEPT ![t] = stack[t]] /\ UNCHANGED tainted
    BY <1>2 DEF Panic, SpanInv, UnwindingInv, StackTyped
  <2> QED
    BY <1>1, <2>1, SpansKept
<1>3. CASE traps[t] # <<>>
  <2> DEFINE d == Last(traps[t])
             f == Frame("fallback", 0)
  <2>1. /\ d \in 1 .. Len(stack[t]) /\ stack[t][d].kind = "try"
        /\ Below(t) \in Seq(FrameType) /\ f \in FrameType /\ f.kind = "fallback"
        /\ stack' = [stack EXCEPT ![t] = Append(Below(t), f)]
    BY <1>1, <1>3, PanicMoves
  <2>2. Append(Below(t), f) \in Seq(FrameType)
    BY <2>1, AppendProperties
  <2>3. tainted' = IF \E i \in Discarded(t, d) : stack[t][i].kind = "span"
                   THEN tainted \cup {t} ELSE tainted
    BY <1>3 DEF Panic
  <2> HIDE DEF f
  <2>4. ASSUME NEW p \in Seq(Nat), SpanChain(stack[t], p, saved[t], current[t]), t \notin tainted'
        PROVE  SpanChain(Append(Below(t), f), p, saved[t], current[t])
    <3>1. d - 1 \in 0 .. Len(stack[t]) /\ DOMAIN stack[t] = 1 .. Len(stack[t]) /\ Len(stack[t]) \in Nat
      BY <1>1, <2>1, LenProperties
    <3>2. \A i \in Discarded(t, d) : stack[t][i].kind # "span"
      BY <2>3, <2>4
    <3>3. \A i \in d - 1 + 1 .. Len(stack[t]) : i = d \/ i \in Discarded(t, d)
      BY <2>1, <3>1 DEF Discarded
    <3>4. \A i \in d - 1 + 1 .. Len(stack[t]) : stack[t][i].kind # "span"
      BY <2>1, <3>2, <3>3
    <3>5. SpanChain(Below(t), p, saved[t], current[t])
      BY <1>1, <2>4, <3>1, <3>4, ChainCut DEF Below
    <3> QED
      BY <2>1, <3>5, ChainPush
  <2> QED
    BY <1>1, <2>1, <2>2, <2>3, <2>4, SpansKept
<1> QED
  BY <1>2, <1>3

LEMMA StepChains ==
  ASSUME SpanInv, UnwindingInv', NEW t \in Threads, Step(t)
  PROVE  SpanInv'
<1>1. UnwindingInv
  BY DEF SpanInv
<1>2. CASE Fork(t)
  BY <1>1, <1>2, ForkMoves, SpansKeptTop DEF Fork
<1>3. CASE StartJoin(t)
  BY <1>1, <1>3, StartJoinMoves, SpansKeptTop DEF StartJoin
<1>4. CASE Work(t) \/ Help(t)
  <2>1. Head(queue) \in Nat
    BY <1>1, <1>4, HeadTailProperties DEF Work, Help, RunTask, UnwindingInv, TasksTyped
  <2>2. Frame("task", Head(queue)) \in FrameType /\ Frame("task", Head(queue)).kind # "span"
    BY <2>1 DEF Frame, FrameType, Kinds, Id
  <2> QED
    BY <1>4, <2>2, SpansKeptPush DEF Work, Help, RunTask
<1>5. CASE EndJoin(t)
  <2>1. UNCHANGED spanVars /\ UNCHANGED tainted
    BY <1>5 DEF EndJoin, spanVars
  <2>2. /\ stack[t] \in Seq(FrameType) /\ Topped(t, Joined(t)) \in Seq(FrameType)
        /\ Given(t) \in FrameType /\ Given(t).kind # "span"
    BY <1>1, <1>5, InvMatch, EndJoinMoves, TopMoves
  <2>3. \A p \in Seq(Nat) : SpanChain(stack[t], p, saved[t], current[t])
          => SpanChain(Topped(t, Joined(t)), p, saved[t], current[t])
    BY <1>1, <1>5, <2>2, EndJoinMoves, ChainTop DEF Topped, Top, Last
  <2>4. CASE result[Top(t).joining] = 0
    <3>1. stack' = [stack EXCEPT ![t] = Topped(t, Joined(t))]
      BY <1>1, <1>5, <2>4, EndJoinMoves
    <3> QED
      BY <2>1, <2>2, <2>3, <3>1, SpansKept DEF spanVars
  <2>5. CASE result[Top(t).joining] # 0
    <3>1. stack' = [stack EXCEPT ![t] = Append(Topped(t, Joined(t)), Given(t))]
      BY <1>1, <1>5, <2>5, EndJoinMoves
    <3>2. Append(Topped(t, Joined(t)), Given(t)) \in Seq(FrameType)
      BY <2>2, AppendProperties
    <3>3. \A p \in Seq(Nat) : SpanChain(stack[t], p, saved[t], current[t])
            => SpanChain(Append(Topped(t, Joined(t)), Given(t)), p, saved[t], current[t])
      BY <2>2, <2>3, ChainPush
    <3> QED
      BY <2>1, <3>1, <3>2, <3>3, SpansKept DEF spanVars
  <2> QED
    BY <2>4, <2>5
<1>6. CASE ReturnJson(t)
  <2>1. PICK n \in 0 .. Len(stack[t]) :
          /\ stack' = [stack EXCEPT ![t] = SubSeq(stack[t], 1, n)]
          /\ \A i \in n + 1 .. Len(stack[t]) : stack[t][i].kind \in {"task", "json"}
    BY <1>1, <1>6, ReturnJsonMoves
  <2>2. stack[t] \in Seq(FrameType) /\ \A i \in n + 1 .. Len(stack[t]) : stack[t][i].kind # "span"
    BY <1>1, <2>1, InvMatch
  <2>3. UNCHANGED spanVars /\ SubSeq(stack[t], 1, n) \in Seq(FrameType)
    BY <1>6, <2>2, Prefix DEF ReturnJson
  <2> QED
    BY <2>1, <2>2, <2>3, ChainCut, SpansKept DEF spanVars
<1>7. CASE FinishTask(t) \/ CloseTry(t) \/ EndFallback(t) \/ DropJson(t)
  BY <1>7, SpansKeptPop DEF FinishTask, CloseTry, EndFallback, DropJson, Leaving, Active, Busy
<1>8. CASE OpenTry(t) \/ \E a \in Addresses : ParseJson(t, a)
  <2>1. PICK f : f \in FrameType /\ f.kind # "span" /\ Push(t, f)
    <3>1. Frame("try", 0) \in FrameType /\ \A a \in Addresses : Frame("json", a) \in FrameType
      BY DEF Frame, FrameType, Kinds, Id
    <3>2. Frame("try", 0).kind # "span" /\ \A a \in Addresses : Frame("json", a).kind # "span"
      BY DEF Frame
    <3> QED
      BY <1>8, <3>1, <3>2 DEF OpenTry, ParseJson
  <2>2. UNCHANGED spanVars
    BY <1>8 DEF OpenTry, ParseJson
  <2> QED
    BY <2>1, <2>2, SpansKeptPush
<1>9. CASE Panic(t)
  BY <1>9, PanicChains
<1>10. CASE EnterSpan(t)
  BY <1>10, EnterSpanChains
<1>11. CASE ExitSpan(t)
  BY <1>11, ExitSpanChains
<1> QED
  BY <1>2, <1>3, <1>4, <1>5, <1>6, <1>7, <1>8, <1>9, <1>10, <1>11 DEF Step

LEMMA SpanInvInit == Init => SpanInv
<1> SUFFICES ASSUME Init PROVE SpanInv
  OBVIOUS
<1>1. UnwindingInv
  BY InitHolds
<1>2. SpansTyped
  BY DEF Init, SpansTyped, NoSpan, Contexts
<1>3. ASSUME NEW t \in Threads PROVE SpanChain(stack[t], <<>>, saved[t], current[t])
  <2>1. \A i \in 1 .. Len(stack[t]) : stack[t][i].kind # "span"
    BY DEF Init, Frame
  <2>2. saved[t] = <<>> /\ current[t] = NoSpan
    BY DEF Init
  <2> QED
    BY <2>1, <2>2 DEF SpanChain, Match, Ordered, Lists, Context
<1>4. <<>> \in Seq(Nat)
  OBVIOUS
<1> QED
  BY <1>1, <1>2, <1>3, <1>4 DEF SpanInv, SpansChained

LEMMA SpanInvNext == SpanInv /\ [Next]_vars => SpanInv'
<1> SUFFICES ASSUME SpanInv, [Next]_vars PROVE SpanInv'
  OBVIOUS
<1>1. UnwindingInv'
  BY NextKeeps DEF SpanInv
<1>2. CASE UNCHANGED vars
  BY <1>1, <1>2 DEF vars, historyVars, SpanInv, SpansTyped, SpansChained
<1> QED
  BY <1>1, <1>2, StepChains DEF Next

\* The chain gives the number of the spans, the outermost and the innermost.
LEMMA ChainSpans ==
  ASSUME NEW s \in Seq(FrameType), NEW p \in Seq(Nat), NEW sv, NEW cur, SpanChain(s, p, sv, cur)
  PROVE  LET spans == {i \in DOMAIN s : s[i].kind = "span"}
         IN  /\ Len(sv) = Cardinality(spans)
             /\ cur = IF spans = {} THEN NoSpan
                      ELSE [trace |-> s[Min(spans)].id, span |-> s[Max(spans)].id]
<1> DEFINE spans == {i \in DOMAIN s : s[i].kind = "span"}
           m == Len(p)
<1>1. m \in Nat /\ \A i \in 1 .. m : p[i] \in Nat
  BY LenProperties, ElementOfSeq
<1>2. spans = {p[i] : i \in 1 .. m}
  BY LenProperties DEF SpanChain, Match, Lists
<1>3. \A i, j \in 1 .. m : i < j => p[i] < p[j]
  BY DEF SpanChain, Match, Ordered
<1>4. Len(sv) = m /\ cur = Context(s, p, m)
  BY DEF SpanChain
<1> HIDE DEF spans, m
<1>5. Cardinality(spans) = m
  <2> DEFINE f == [i \in 1 .. m |-> p[i]]
  <2>1. \A i, j \in 1 .. m : p[i] = p[j] => i = j
    BY <1>1, <1>3
  <2>2. f \in Bijection(1 .. m, spans)
    BY <1>2, <2>1 DEF Bijection, Injection, Surjection, IsInjective
  <2>3. ExistsBijection(1 .. m, spans)
    BY <2>2 DEF ExistsBijection
  <2> QED
    BY <1>1, <2>3, FS_CountingElements
<1>6. cur = IF spans = {} THEN NoSpan ELSE [trace |-> s[Min(spans)].id, span |-> s[Max(spans)].id]
  <2>1. CASE m = 0
    BY <1>2, <1>4, <2>1 DEF Context
  <2>2. CASE m # 0
    <3>1. 1 \in 1 .. m /\ m \in 1 .. m
      BY <1>1, <2>2
    <3>2. p[1] \in spans /\ \A y \in spans : p[1] =< y
      <4>1. \A i \in 1 .. m : i = 1 \/ 1 < i
        BY <1>1
      <4> QED
        BY <1>1, <1>2, <1>3, <3>1, <4>1
    <3>3. p[m] \in spans /\ \A y \in spans : p[m] >= y
      <4>1. \A i \in 1 .. m : i = m \/ i < m
        BY <1>1
      <4> QED
        BY <1>1, <1>2, <1>3, <3>1, <4>1
    <3>4. \A y \in spans : y \in Nat
      BY <1>1, <1>2
    <3>5. Min(spans) = p[1]
      BY <3>2, <3>4 DEF Min
    <3>6. Max(spans) = p[m]
      BY <3>3, <3>4 DEF Max
    <3> QED
      BY <1>4, <2>2, <3>2, <3>5, <3>6 DEF Context
  <2> QED
    BY <2>1, <2>2
<1> QED
  BY <1>4, <1>5, <1>6 DEF spans

(* On every thread, whatever tasks it runs, the span context of the        *)
(* runtime is that of the calls: in the span of the innermost function and *)
(* the trace of the outermost, with one context saved for each.  Only a    *)
(* panic through a span or a stack that is full breaks that.               *)
THEOREM SpansFollowCalls == Spec => []SpanFollowsCalls
<1>1. SpanInv => SpanFollowsCalls
  <2> SUFFICES ASSUME SpanInv, NEW t \in Threads \ tainted
               PROVE  LET spans == {i \in DOMAIN stack[t] : stack[t][i].kind = "span"}
                      IN  /\ Len(saved[t]) = Cardinality(spans)
                          /\ current[t] = IF spans = {} THEN NoSpan
                                  ELSE [trace |-> stack[t][Min(spans)].id, span |-> stack[t][Max(spans)].id]
    BY DEF SpanFollowsCalls
  <2>1. PICK p \in Seq(Nat) : SpanChain(stack[t], p, saved[t], current[t])
    BY DEF SpanInv, SpansChained
  <2>2. stack[t] \in Seq(FrameType)
    BY InvMatch DEF SpanInv
  <2> QED
    BY <2>1, <2>2, ChainSpans
<1> QED
  BY SpanInvInit, SpanInvNext, <1>1, PTL DEF Spec
=============================================================================
