--------------------------- MODULE EmissionProofs ---------------------------
(***************************************************************************)
(* The emission queue is an Outbox, for any number of producers, blocks    *)
(* and emissions; its list is exact and it misses no signal.               *)
(*                                                                         *)
(* All rests on QueueInv: every allocated block has one holder.  The list  *)
(* is exact only because no producer still holds a block that is on it,    *)
(* and a pointer stays valid because its holder alone frees it.            *)
(***************************************************************************)
EXTENDS EmissionQueue, SequenceTheorems, TLAPS

\* A block has one holder: the list, the flusher or a producer, whose block
\* is not linked to another.
Owned ==
  /\ \A i \in 1 .. Len(order) : order[i] \in heap /\ order[i] # cur
  /\ \A i, j \in 1 .. Len(order) : order[i] = order[j] => i = j
  /\ \A p \in Producers : \A i \in 1 .. Len(order) : order[i] # mine[p]
  /\ \A p \in Producers : mine[p] # Null => mine[p] # cur /\ next[mine[p]] = Null
  /\ \A p, q \in Producers : mine[p] = mine[q] /\ mine[p] # Null => p = q

\* Who holds a block is told by where the threads are.
Places ==
  /\ \A p \in Producers : pc[p] = "push" <=> mine[p] # Null
  /\ flusher \in {"write", "drop"} <=> cur # Null
  /\ ~started => flusher = "none"
  /\ \A p \in Producers : pc[p] \in {"push", "after"} => sent[p] # 0

QueueInv == TypeOK /\ Places /\ Owned /\ ListExact

LEMMA AcceptedSeq ==
  ASSUME QueueInv
  PROVE  /\ InHand \in Seq(Emissions) /\ OnList \in Seq(Emissions) /\ Accepted \in Seq(Emissions)
         /\ Len(InHand) = IF flusher = "write" THEN 1 ELSE 0
         /\ Len(OnList) = Len(order) /\ \A i \in 1 .. Len(order) : OnList[i] = item[order[i]]
         /\ Len(Accepted) = Len(written) + Len(InHand) + Len(OnList)
<1> USE DEF QueueInv
<1>1. Len(order) \in Nat /\ \A i \in 1 .. Len(order) : order[i] \in Blocks
  BY LenProperties, ElementOfSeq DEF TypeOK
<1>2. \A i \in 1 .. Len(order) : item[order[i]] \in Emissions
  BY <1>1 DEF TypeOK
<1>3. OnList \in Seq(Emissions) /\ Len(OnList) = Len(order) /\ \A i \in 1 .. Len(order) : OnList[i] = item[order[i]]
  BY <1>1, <1>2 DEF OnList
<1>4. cur # Null => item[cur] \in Emissions
  BY DEF TypeOK
<1>5. InHand \in Seq(Emissions) /\ Len(InHand) = IF flusher = "write" THEN 1 ELSE 0
  BY <1>4 DEF InHand, Places
<1>6. written \in Seq(Emissions)
  BY DEF TypeOK
<1>7. written \o InHand \in Seq(Emissions) /\ Len(written \o InHand) = Len(written) + Len(InHand)
  BY <1>5, <1>6, ConcatProperties
<1>8. Accepted \in Seq(Emissions) /\ Len(Accepted) = Len(written \o InHand) + Len(OnList)
  BY <1>3, <1>7, ConcatProperties DEF Accepted
<1> QED
  BY <1>3, <1>5, <1>7, <1>8

LEMMA InitQueue == Init => QueueInv
<1> SUFFICES ASSUME Init PROVE QueueInv
  OBVIOUS
<1> USE DEF Init
<1>1. order \in Seq(Blocks) /\ Len(order) = 0 /\ written \in Seq(Emissions)
  BY EmptySeq
<1>2. ListExact
  BY <1>1 DEF ListExact
<1>3. Places /\ Owned
  BY <1>1 DEF Places, Owned
<1>4. TypeOK
  <2>1. <<Main, 1>> \in Emissions /\ 0 \in 0 .. MaxEmits
    BY ProducersAssumption, MaxEmitsAssumption DEF Emissions
  <2>2. item \in [Blocks -> Emissions] /\ sent \in [Producers -> 0 .. MaxEmits]
    BY <2>1
  <2>3. /\ next \in [Blocks -> Blocks \cup {Null}] /\ mine \in [Producers -> heap \cup {Null}]
        /\ arg \in [Emissions -> {"none", "live", "freed"}] /\ source \in [Emissions -> {"span"} \cup Sources]
        /\ pc \in [Producers -> {"code", "push", "after", "join", "done"}]
    OBVIOUS
  <2> QED
    BY <1>1, <2>2, <2>3 DEF TypeOK
<1> QED
  BY <1>2, <1>3, <1>4 DEF QueueInv

\* What a step that leaves every block where it is has to show.
LEMMA QuietKeeps ==
  ASSUME QueueInv, TypeOK', UNCHANGED <<head, tail, next, heap, order, cur, mine, sent>>,
         \A p \in Producers : (pc'[p] = "push" <=> pc[p] = "push") /\ (pc'[p] = "after" => pc[p] = "after"),
         flusher' \in {"write", "drop"} <=> flusher \in {"write", "drop"},
         started' = started, ~started => flusher' = flusher
  PROVE  QueueInv'
BY DEF QueueInv, Places, Owned, ListExact

LEMMA PrepareKeeps ==
  ASSUME QueueInv, NEW p \in Producers, NEW b \in Blocks, NEW s \in Sources, Prepare(p, b, s)
  PROVE  QueueInv'
<1> DEFINE e == <<p, sent[p] + 1>>
<1> USE DEF QueueInv, Prepare, Link
<1>1. e \in Emissions /\ sent[p] + 1 \in 0 .. MaxEmits /\ Len(order) \in Nat
  BY MaxEmitsAssumption, LenProperties DEF TypeOK, Emissions
<1>2. b # Null /\ b # cur /\ \A q \in Producers : mine[q] # b
  BY BlocksAssumption DEF TypeOK
<1>3. \A i \in 1 .. Len(order) : order[i] # b
  BY DEF Owned
<1>4. TypeOK'
  BY <1>1 DEF TypeOK
<1>5. Places'
  BY <1>2 DEF Places, TypeOK
<1>6. Owned'
  BY <1>1, <1>2, <1>3 DEF Owned, TypeOK
<1>7. ListExact'
  BY <1>1, <1>3 DEF ListExact, TypeOK
<1> QED
  BY <1>4, <1>5, <1>6, <1>7

LEMMA PushKeeps ==
  ASSUME QueueInv, NEW p \in Producers, Push(p)
  PROVE  QueueInv'
<1> DEFINE b == mine[p]
<1> DEFINE n == Len(order)
<1> USE DEF QueueInv, Push, TailAfterPush, Woken
<1>1. b \in Blocks /\ b \in heap /\ b # Null
  BY DEF TypeOK, Places
<1>2. /\ order' \in Seq(Blocks) /\ Len(order') = n + 1 /\ n \in Nat /\ order'[n + 1] = b
      /\ \A i \in 1 .. n : order'[i] = order[i]
  BY <1>1, LenProperties, AppendProperties DEF TypeOK
<1>3. tail # Null => tail \in Blocks /\ n # 0 /\ tail = order[n]
  BY DEF TypeOK, ListExact
<1>4. TypeOK'
  BY <1>1, <1>2, <1>3 DEF TypeOK
<1>5. Places'
  BY DEF Places, TypeOK
<1>6. \A i \in 1 .. n : order[i] # b
  BY DEF Owned
<1>7. Owned'
  <2>1. \A i \in 1 .. n + 1 : i \in 1 .. n \/ i = n + 1
    BY <1>2
  <2>2. \A i \in 1 .. n + 1 : order'[i] \in heap' /\ order'[i] # cur'
    BY <1>1, <1>2, <2>1 DEF Owned
  <2>3. \A i, j \in 1 .. n + 1 : order'[i] = order'[j] => i = j
    BY <1>2, <1>6, <2>1 DEF Owned
  <2>4. ASSUME NEW q \in Producers
        PROVE  /\ q # p => mine'[q] = mine[q] /\ (mine[q] # Null => mine[q] # b)
               /\ q = p => mine'[q] = Null
    BY <1>1, <2>4 DEF Owned, TypeOK
  <2>5. \A q \in Producers : \A i \in 1 .. n + 1 : order'[i] # mine'[q]
    BY <1>1, <1>2, <2>1, <2>2, <2>4, BlocksAssumption DEF Owned, TypeOK
  <2>6. ASSUME NEW q \in Producers, mine'[q] # Null PROVE mine'[q] # cur' /\ next'[mine'[q]] = Null
    <3>1. q # p /\ mine'[q] = mine[q] /\ mine[q] \in Blocks /\ mine[q] # cur /\ next[mine[q]] = Null
      BY <2>4, <2>6 DEF Owned, TypeOK
    <3>2. tail # Null => tail # mine[q]
      BY <1>2, <1>3 DEF Owned
    <3> QED
      BY <3>1, <3>2 DEF TypeOK
  <2>7. \A q, r \in Producers : mine'[q] = mine'[r] /\ mine'[q] # Null => q = r
    BY <2>4 DEF Owned
  <2> QED
    BY <1>2, <2>2, <2>3, <2>5, <2>6, <2>7 DEF Owned
<1>8. ListExact'
  <2>1. CASE n = 0
    BY <1>1, <1>2, <2>1 DEF ListExact, Owned
  <2>2. CASE n # 0
    <3>1. tail # Null /\ head = order[1] /\ head' = head /\ next' = [next EXCEPT ![tail] = b]
      BY <1>2, <2>2, BlocksAssumption, ElementOfSeq DEF ListExact, TypeOK
    <3>2. ASSUME NEW i \in 1 .. n + 1 PROVE next'[order'[i]] = IF i = n + 1 THEN Null ELSE order'[i + 1]
      BY <1>1, <1>2, <1>3, <1>6, <2>2, <3>1 DEF ListExact, TypeOK, Owned
    <3> QED
      BY <1>2, <2>2, <3>1, <3>2 DEF ListExact
  <2> QED
    BY <2>1, <2>2
<1> QED
  BY <1>4, <1>5, <1>7, <1>8

LEMMA TakeKeeps ==
  ASSUME QueueInv, FlusherTake
  PROVE  QueueInv'
<1> DEFINE n == Len(order)
<1> USE DEF QueueInv, FlusherTake, TailAfterTake, prod
<1>1. n \in Nat /\ n # 0 /\ head = order[1] /\ head \in Blocks /\ order # <<>>
  BY LenProperties, EmptySeq DEF TypeOK, ListExact
<1>2. /\ order' \in Seq(Blocks) /\ Len(order') = n - 1
      /\ \A i \in 1 .. n - 1 : order'[i] = order[i + 1]
  BY <1>1, HeadTailProperties DEF TypeOK
<1>3. next[head] = IF n = 1 THEN Null ELSE order[2]
  <2>1. 1 \in 1 .. n /\ order[1] = head /\ 1 + 1 = 2
    BY <1>1
  <2>2. next[order[1]] = IF 1 = n THEN Null ELSE order[1 + 1]
    BY <2>1 DEF ListExact
  <2> QED
    BY <2>1, <2>2
<1>4. n # 1 => order[2] \in heap /\ order[2] # Null
  <2>1. \A k \in Nat \ {0, 1} : 2 \in 1 .. k
    OBVIOUS
  <2>2. n # 1 => 2 \in 1 .. n
    BY <1>1, <2>1
  <2> QED
    BY <2>2, BlocksAssumption DEF Owned, TypeOK
<1>5. TypeOK'
  BY <1>2, <1>3, <1>4 DEF TypeOK
<1>6. Places'
  BY DEF Places, TypeOK
<1>7. Owned'
  BY <1>1, <1>2 DEF Owned, TypeOK
<1>8. ListExact'
  <2>1. CASE n = 1
    BY <1>2, <1>3, <2>1 DEF ListExact
  <2>2. CASE n # 1
    <3>1. /\ head' = order'[1] /\ head' # Null /\ tail' = order[n] /\ Len(order') # 0
          /\ order'[n - 1] = order[n]
      <4>1. \A k \in Nat \ {0, 1} : 1 \in 1 .. k - 1 /\ k - 1 \in 1 .. k - 1 /\ k - 1 + 1 = k /\ k - 1 # 0
        OBVIOUS
      <4>2. 1 \in 1 .. n - 1 /\ n - 1 \in 1 .. n - 1 /\ n - 1 + 1 = n /\ n - 1 # 0
        BY <1>1, <2>2, <4>1
      <4>3. order'[1] = order[1 + 1] /\ order'[n - 1] = order[n]
        BY <1>2, <4>2
      <4>4. next[head] = order[2] /\ next[head] # Null /\ tail = order[n]
        BY <1>1, <1>3, <1>4, <2>2 DEF ListExact
      <4> QED
        BY <1>2, <4>2, <4>3, <4>4
    <3>2. ASSUME NEW i \in 1 .. n - 1 PROVE next'[order'[i]] = IF i = n - 1 THEN Null ELSE order'[i + 1]
      <4>1. \A k \in Nat : \A j \in 1 .. k - 1 : j + 1 \in 1 .. k /\ (j + 1 = k <=> j = k - 1) /\ (j # k - 1 => j + 1 \in 1 .. k - 1)
        OBVIOUS
      <4>2. i + 1 \in 1 .. n /\ (i + 1 = n <=> i = n - 1) /\ (i # n - 1 => i + 1 \in 1 .. n - 1)
        BY <1>1, <4>1
      <4>3. order'[i] = order[i + 1] /\ (i # n - 1 => order'[i + 1] = order[i + 1 + 1])
        BY <1>2, <4>2
      <4>4. next[order[i + 1]] = IF i + 1 = n THEN Null ELSE order[i + 1 + 1]
        BY <4>2 DEF ListExact
      <4> QED
        BY <4>2, <4>3, <4>4
    <3> QED
      BY <1>2, <3>1, <3>2 DEF ListExact
  <2> QED
    BY <2>1, <2>2
<1> QED
  BY <1>5, <1>6, <1>7, <1>8

LEMMA DropKeeps ==
  ASSUME QueueInv, FlusherDrop
  PROVE  QueueInv'
<1> USE DEF QueueInv, FlusherDrop, prod
<1>1. cur \in heap /\ item[cur] \in Emissions /\ cur # Null
  BY DEF TypeOK, Places
<1>2. Len(order) \in Nat /\ head # cur /\ tail # cur
  BY <1>1, LenProperties DEF ListExact, Owned, TypeOK
<1>3. \A p \in Producers : mine[p] # cur
  BY <1>1 DEF Owned
<1>4. TypeOK'
  BY <1>1, <1>2, <1>3 DEF TypeOK
<1>5. Places'
  BY DEF Places
<1>6. Owned'
  BY <1>1, BlocksAssumption DEF Owned, TypeOK
<1>7. ListExact'
  BY DEF ListExact
<1> QED
  BY <1>4, <1>5, <1>6, <1>7

LEMMA NextKeeps == QueueInv /\ [Next]_vars => QueueInv'
<1> SUFFICES ASSUME QueueInv, [Next]_vars PROVE QueueInv'
  OBVIOUS
<1> USE DEF list, prod
<1>1. CASE UNCHANGED vars
  BY <1>1 DEF vars, QueueInv, TypeOK, Places, Owned, ListExact
<1>2. ASSUME NEW p \in Producers, Emit(p) PROVE QueueInv'
  <2>1. CASE AfterEmit(p)
    <3>1. TypeOK'
      BY <2>1 DEF AfterEmit, QueueInv, TypeOK
    <3> QED
      BY <2>1, <3>1, QuietKeeps DEF AfterEmit, QueueInv, TypeOK
  <2> QED
    BY <1>2, <2>1, PrepareKeeps, PushKeeps DEF Emit
<1>3. ASSUME NEW p \in Producers, Finish(p) \/ Panic(p) PROVE QueueInv'
  <2>1. TypeOK'
    BY <1>3 DEF Finish, Panic, QueueInv, TypeOK
  <2> QED
    BY <1>3, <2>1, QuietKeeps DEF Finish, Panic, QueueInv, TypeOK
<1>4. CASE WaitAll
  <2>1. Len(Accepted) \in Nat
    BY AcceptedSeq, LenProperties
  <2>2. TypeOK'
    BY <1>4, <2>1 DEF WaitAll, MainReturns, Woken, QueueInv, TypeOK
  <2> QED
    BY <1>4, <2>2, QuietKeeps DEF WaitAll, MainReturns, Woken, QueueInv, TypeOK
<1>5. CASE NothingToWaitFor \/ JoinFlusher
  <2>1. TypeOK'
    BY <1>5 DEF NothingToWaitFor, JoinFlusher, QueueInv, TypeOK
  <2> QED
    BY <1>5, <2>1, QuietKeeps DEF NothingToWaitFor, JoinFlusher
<1>6. CASE FlusherSleep \/ FlusherExit \/ SpuriousWake
  <2>1. TypeOK'
    BY <1>6 DEF FlusherSleep, FlusherExit, SpuriousWake, QueueInv, TypeOK
  <2> QED
    BY <1>6, <2>1, QuietKeeps DEF FlusherSleep, FlusherExit, SpuriousWake, QueueInv, Places
<1>7. CASE FlusherWrite
  <2>1. item[cur] \in Emissions
    BY <1>7 DEF FlusherWrite, QueueInv, TypeOK, Places
  <2>2. TypeOK'
    BY <1>7, <2>1, AppendProperties DEF FlusherWrite, QueueInv, TypeOK
  <2> QED
    BY <1>7, <2>2, QuietKeeps DEF FlusherWrite, QueueInv, Places
<1> QED
  BY <1>1, <1>2, <1>3, <1>4, <1>5, <1>6, <1>7, TakeKeeps, DropKeeps DEF Next, Flusher, Ended

LEMMA QueueInvHolds == Spec => []QueueInv
BY InitQueue, NextKeeps, PTL DEF Spec

\* Every variable keeps its type: in particular no pointer of the list, of a
\* producer or of the flusher is left to a block that was freed.
THEOREM QueueTyped == Spec => []TypeOK
<1>1. QueueInv => TypeOK
  BY DEF QueueInv
<1> QED
  BY <1>1, QueueInvHolds, PTL

\* emission_queue_head, emission_queue_tail and the links always make up the
\* list of what was linked and not yet taken.
THEOREM ListStaysExact == Spec => []ListExact
<1>1. QueueInv => ListExact
  BY DEF QueueInv
<1> QED
  BY <1>1, QueueInvHolds, PTL

\* The flusher waits on emission_cond only while the list is empty and nobody
\* has asked it to leave.
THEOREM NoSignalMissed == Spec => []NoMissedSignal
<1> USE DEF NoMissedSignal
<1>1. Init => NoMissedSignal
  BY DEF Init
<1>2. NoMissedSignal /\ [Next]_vars => NoMissedSignal'
  <2> SUFFICES ASSUME NoMissedSignal, [Next]_vars PROVE NoMissedSignal'
    OBVIOUS
  <2> USE DEF list, prod, vars
  <2>1. ASSUME NEW p \in Producers, Emit(p) \/ Finish(p) \/ Panic(p) PROVE NoMissedSignal'
    BY <2>1 DEF Emit, Prepare, Push, AfterEmit, Finish, Panic, Woken
  <2>2. CASE NothingToWaitFor \/ WaitAll \/ JoinFlusher
    BY <2>2 DEF NothingToWaitFor, WaitAll, JoinFlusher, Woken
  <2>3. CASE Flusher \/ SpuriousWake
    BY <2>3 DEF Flusher, FlusherTake, FlusherSleep, FlusherExit, FlusherWrite, FlusherDrop, SpuriousWake
  <2> QED
    BY <2>1, <2>2, <2>3 DEF Next, Ended
<1> QED
  BY <1>1, <1>2, PTL DEF Spec

-----------------------------------------------------------------------------
(* An argument lives as long as its emission is in a block: the blocks that *)
(* are allocated hold different emissions.                                  *)

Carries ==
  /\ \A b \in heap : arg[item[b]] = "live" /\ item[b][2] <= sent[item[b][1]]
  /\ \A b, c \in heap : item[b] = item[c] => b = c
  /\ \A e \in Emissions : source[e] # "value"

LEMMA CarriesKept ==
  ASSUME "value" \notin Sources, QueueInv, Carries, [Next]_vars
  PROVE  Carries'
<1> USE DEF list, prod, Carries
<1>1. \A b \in heap : b \in Blocks /\ item[b] \in Emissions
  BY DEF QueueInv, TypeOK
<1>2. ASSUME NEW p \in Producers, NEW b \in Blocks, NEW s \in Sources, Prepare(p, b, s) PROVE Carries'
  <2> DEFINE e == <<p, sent[p] + 1>>
  <2>1. /\ sent[p] \in Nat /\ e \in Emissions /\ b \notin heap /\ heap' = heap \cup {b}
        /\ item' = [item EXCEPT ![b] = e] /\ sent' = [sent EXCEPT ![p] = @ + 1]
        /\ arg' = [arg EXCEPT ![e] = "live"] /\ source' = [source EXCEPT ![e] = s]
    BY <1>2, MaxEmitsAssumption DEF Prepare, Emissions, QueueInv, TypeOK
  <2>2. \A q \in Producers : sent[q] \in Nat /\ sent'[q] \in Nat /\ sent[q] <= sent'[q]
    BY <2>1, MaxEmitsAssumption DEF QueueInv, TypeOK
  <2>3. ASSUME NEW c \in heap
        PROVE  item'[c] = item[c] /\ item[c] # e /\ arg'[item[c]] = "live" /\ item[c][2] <= sent'[item[c][1]]
    <3>1. item[c][1] \in Producers /\ item[c][2] \in Nat /\ item[c][2] <= sent[item[c][1]] /\ item[c] \in Emissions
      BY <1>1, MaxEmitsAssumption DEF Emissions
    <3>2. item[c] # e
      BY <2>1, <3>1
    <3>3. item[c][2] <= sent'[item[c][1]]
      BY <2>2, <3>1
    <3>4. item'[c] = item[c]
      BY <1>1, <2>1 DEF QueueInv, TypeOK
    <3>5. arg'[item[c]] = "live"
      BY <2>1, <3>1, <3>2 DEF QueueInv, TypeOK
    <3> QED
      BY <3>2, <3>3, <3>4, <3>5
  <2>4. item'[b] = e /\ arg'[e] = "live" /\ e[2] <= sent'[e[1]]
    BY <2>1 DEF QueueInv, TypeOK
  <2>5. \A d \in Emissions : source'[d] # "value"
    BY <2>1 DEF QueueInv, TypeOK
  <2> QED
    BY <2>1, <2>3, <2>4, <2>5
<1>3. CASE FlusherDrop
  <2>1. cur \in heap /\ \A c \in heap' : c \in heap /\ item[c] # item[cur]
    BY <1>3 DEF FlusherDrop, QueueInv, Places, TypeOK
  <2> QED
    BY <1>1, <1>3, <2>1 DEF FlusherDrop, QueueInv, TypeOK
<1>4. ASSUME NEW p \in Producers, Push(p) \/ AfterEmit(p) \/ Finish(p) \/ Panic(p) PROVE Carries'
  <2>1. pc[p] = "after" => <<p, sent[p]>> \in Emissions
    BY MaxEmitsAssumption DEF Emissions, QueueInv, TypeOK, Places
  <2>2. UNCHANGED <<item, heap, sent, source>>
    BY <1>4 DEF Push, AfterEmit, Finish, Panic
  <2>3. CASE AfterEmit(p)
    BY <2>1, <2>2, <2>3 DEF AfterEmit, Keeps
  <2> QED
    BY <1>4, <2>2, <2>3 DEF Push, Finish, Panic
<1>5. CASE NothingToWaitFor \/ WaitAll \/ JoinFlusher
  BY <1>5 DEF NothingToWaitFor, WaitAll, JoinFlusher
<1>6. CASE FlusherTake \/ FlusherSleep \/ FlusherExit \/ FlusherWrite \/ SpuriousWake
  BY <1>6 DEF FlusherTake, FlusherSleep, FlusherExit, FlusherWrite, SpuriousWake
<1>7. CASE UNCHANGED vars
  BY <1>7 DEF vars
<1> QED
  BY <1>2, <1>3, <1>4, <1>5, <1>6, <1>7 DEF Next, Emit, Flusher, Ended

LEMMA CarriesArgument ==
  ASSUME QueueInv, Carries
  PROVE  ArgumentLive
<1>1. \A p \in Producers : pc[p] = "after" => <<p, sent[p]>> \in Emissions
  BY MaxEmitsAssumption DEF Emissions, QueueInv, TypeOK, Places
<1> QED
  BY <1>1 DEF Carries, ArgumentLive, QueueInv, TypeOK, Places, Keeps

\* No argument is freed before it is written, as long as no caller of
\* llm_emit_async drops a value it has handed over.
THEOREM ArgumentStaysLive ==
  ASSUME "value" \notin Sources
  PROVE  Spec => []ArgumentLive
<1>1. Init => Carries
  BY DEF Init, Carries
<1>2. QueueInv /\ Carries /\ [Next]_vars => Carries'
  BY CarriesKept
<1>3. QueueInv /\ Carries => ArgumentLive
  BY CarriesArgument
<1> QED
  BY <1>1, <1>2, <1>3, QueueInvHolds, PTL DEF Spec

-----------------------------------------------------------------------------
(* The queue implements Outbox. *)

\* The emission a producer is about to hand over is new.
Fresh ==
  /\ \A i \in 1 .. Len(Accepted) : Accepted[i][2] <= sent[Accepted[i][1]]
  /\ \A p \in Producers : pc[p] = "push" =>
       /\ item[mine[p]] = <<p, sent[p]>>
       /\ \A i \in 1 .. Len(Accepted) : Accepted[i] # <<p, sent[p]>>

\* Nothing that main waits for is left when the flusher leaves.
Waits ==
  /\ shutdown <=> pc[Main] = "join"
  /\ ~started => Accepted = <<>>
  /\ due <= Len(Accepted)
  /\ flusher = "exited" => shutdown /\ due <= Len(written)

OutInv == QueueInv /\ Fresh /\ Waits

\* A step neither accepts nor performs an emission if it leaves the list, the
\* blocks on it and the flusher's block alone.
LEMMA AcceptedSame ==
  ASSUME QueueInv, order' = order, written' = written,
         flusher' = "write" <=> flusher = "write", flusher = "write" => cur' = cur,
         \A b \in heap : item'[b] = item[b]
  PROVE  Accepted' = Accepted
<1>1. InHand' = InHand
  BY DEF InHand, QueueInv, Places, TypeOK
<1>2. OnList' = OnList
  BY DEF OnList, QueueInv, Owned
<1> QED
  BY <1>1, <1>2 DEF Accepted

\* The emissions in a sequence of blocks.
Items(o, f) == [i \in 1 .. Len(o) |-> f[o[i]]]

LEMMA ItemsSeq ==
  ASSUME NEW o \in Seq(Blocks), NEW f \in [Blocks -> Emissions]
  PROVE  /\ Items(o, f) \in Seq(Emissions) /\ Len(Items(o, f)) = Len(o) /\ Len(o) \in Nat
         /\ \A i \in 1 .. Len(o) : Items(o, f)[i] = f[o[i]] /\ o[i] \in Blocks
<1>1. Len(o) \in Nat /\ \A i \in 1 .. Len(o) : o[i] \in Blocks
  BY LenProperties, ElementOfSeq
<1>2. \A i \in 1 .. Len(o) : f[o[i]] \in Emissions
  BY <1>1
<1> QED
  BY <1>1, <1>2 DEF Items

LEMMA ItemsAppend ==
  ASSUME NEW o \in Seq(Blocks), NEW f \in [Blocks -> Emissions], NEW b \in Blocks
  PROVE  Items(Append(o, b), f) = Append(Items(o, f), f[b])
<1> DEFINE n == Len(o)
<1> DEFINE s == Items(Append(o, b), f)
<1> DEFINE t == Append(Items(o, f), f[b])
<1>1. /\ n \in Nat /\ Append(o, b) \in Seq(Blocks) /\ Len(Append(o, b)) = n + 1
      /\ \A i \in 1 .. n : Append(o, b)[i] = o[i]
      /\ Append(o, b)[n + 1] = b
  BY LenProperties, AppendProperties
<1>2. s \in Seq(Emissions) /\ Len(s) = n + 1 /\ \A i \in 1 .. n + 1 : s[i] = f[Append(o, b)[i]]
  BY <1>1, ItemsSeq
<1>3. f[b] \in Emissions /\ Items(o, f) \in Seq(Emissions) /\ Len(Items(o, f)) = n /\ \A i \in 1 .. n : Items(o, f)[i] = f[o[i]]
  BY ItemsSeq
<1>4. t \in Seq(Emissions) /\ Len(t) = n + 1 /\ t[n + 1] = f[b] /\ \A i \in 1 .. n : t[i] = f[o[i]]
  BY <1>3, AppendProperties
<1>5. \A i \in 1 .. n + 1 : i \in 1 .. n \/ i = n + 1
  BY <1>1
<1>6. \A i \in 1 .. n + 1 : s[i] = t[i]
  BY <1>1, <1>2, <1>4, <1>5
<1> HIDE DEF s, t
<1>7. s = t
  BY <1>2, <1>4, <1>6, SeqEqual
<1> QED
  BY <1>7 DEF s, t

LEMMA ItemsFirst ==
  ASSUME NEW o \in Seq(Blocks), NEW f \in [Blocks -> Emissions], o # <<>>
  PROVE  Items(o, f) = <<f[o[1]]>> \o Items(Tail(o), f)
<1> DEFINE n == Len(o)
<1> DEFINE h == <<f[o[1]]>>
<1> DEFINE r == Items(Tail(o), f)
<1> DEFINE s == Items(o, f)
<1>1. n \in Nat /\ n # 0
  BY EmptySeq
<1>2. /\ Tail(o) \in Seq(Blocks) /\ Len(Tail(o)) = n - 1
      /\ \A i \in 1 .. n - 1 : Tail(o)[i] = o[i + 1]
  BY <1>1, HeadTailProperties
<1>3. /\ s \in Seq(Emissions) /\ Len(s) = n /\ \A i \in 1 .. n : s[i] = f[o[i]] /\ o[i] \in Blocks
  BY ItemsSeq
<1>4. /\ r \in Seq(Emissions) /\ Len(r) = n - 1 /\ \A i \in 1 .. n - 1 : r[i] = f[Tail(o)[i]]
  BY <1>2, ItemsSeq
<1>5. h \in Seq(Emissions) /\ Len(h) = 1 /\ h[1] = f[o[1]]
  <2>1. 1 \in 1 .. n
    BY <1>1
  <2>2. f[o[1]] \in Emissions
    BY <1>3, <2>1
  <2> QED
    BY <2>2
<1> HIDE DEF s, r, h
<1>6. Len(h) + Len(r) = n
  BY <1>1, <1>4, <1>5
<1>7. /\ h \o r \in Seq(Emissions) /\ Len(h \o r) = n
      /\ \A i \in 1 .. n : (h \o r)[i] = IF i <= Len(h) THEN h[i] ELSE r[i - Len(h)]
  <2>1. /\ h \o r \in Seq(Emissions) /\ Len(h \o r) = Len(h) + Len(r)
        /\ \A i \in 1 .. Len(h) + Len(r) : (h \o r)[i] = IF i <= Len(h) THEN h[i] ELSE r[i - Len(h)]
    BY <1>4, <1>5, ConcatProperties
  <2> QED
    BY <1>6, <2>1
<1>8. ASSUME NEW i \in 1 .. n PROVE s[i] = (h \o r)[i]
  <2>1. CASE i = 1
    BY <1>3, <1>5, <1>7, <2>1
  <2>2. CASE i # 1
    <3>1. i - 1 \in 1 .. n - 1 /\ i - 1 + 1 = i /\ ~(i <= 1)
      BY <1>1, <2>2
    <3>2. r[i - 1] = f[o[i]]
      BY <1>2, <1>4, <3>1
    <3> QED
      BY <1>3, <1>5, <1>7, <3>1, <3>2
  <2> QED
    BY <2>1, <2>2
<1>9. s = h \o r
  BY <1>3, <1>7, <1>8, SeqEqual
<1> QED
  BY <1>9 DEF s, r, h

LEMMA AcceptedParts ==
  ASSUME QueueInv
  PROVE  /\ OnList = Items(order, item) /\ OnList \in Seq(Emissions) /\ InHand \in Seq(Emissions)
         /\ written \in Seq(Emissions) /\ Accepted = (written \o InHand) \o OnList
         /\ Accepted \in Seq(Emissions) /\ Len(Accepted) \in Nat
BY AcceptedSeq, LenProperties DEF OnList, Items, Accepted, QueueInv, TypeOK

LEMMA AcceptedPush ==
  ASSUME QueueInv, NEW p \in Producers, Push(p)
  PROVE  Accepted' = Append(Accepted, item[mine[p]]) /\ item[mine[p]] \in Emissions
<1> DEFINE e == item[mine[p]]
<1>1. /\ order' = Append(order, mine[p]) /\ item' = item /\ written' = written /\ cur' = cur
      /\ flusher' = "write" <=> flusher = "write"
  BY DEF Push, Woken, QueueInv, Places
<1>2. /\ e \in Emissions /\ mine[p] \in Blocks /\ order \in Seq(Blocks) /\ item \in [Blocks -> Emissions]
  BY DEF Push, QueueInv, Places, TypeOK
<1>3. InHand' = InHand
  BY <1>1 DEF InHand
<1>4. OnList' = Append(OnList, e)
  BY <1>1, <1>2, ItemsAppend DEF OnList, Items
<1>5. Accepted' = (written \o InHand) \o Append(OnList, e)
  BY <1>1, <1>3, <1>4 DEF Accepted
<1> DEFINE w == written \o InHand
<1>6. /\ OnList \in Seq(Emissions) /\ Accepted \in Seq(Emissions) /\ Accepted = w \o OnList
      /\ written \in Seq(Emissions) /\ InHand \in Seq(Emissions)
  BY AcceptedParts
<1> HIDE DEF e
<1>7. w \in Seq(Emissions) /\ <<e>> \in Seq(Emissions)
  BY <1>2, <1>6, ConcatProperties
<1> HIDE DEF w
<1>8. Append(OnList, e) = OnList \o <<e>> /\ Append(Accepted, e) = Accepted \o <<e>>
  BY <1>2, <1>6, AppendIsConcat
<1>9. w \o (OnList \o <<e>>) = (w \o OnList) \o <<e>>
  BY <1>6, <1>7, ConcatAssociative
<1>10. Accepted' = w \o Append(OnList, e)
  BY <1>5 DEF w
<1>11. Accepted' = Append(Accepted, e)
  BY <1>6, <1>8, <1>9, <1>10
<1> QED
  BY <1>2, <1>11 DEF e

LEMMA AcceptedTake ==
  ASSUME QueueInv, FlusherTake
  PROVE  Accepted' = Accepted
<1> DEFINE h == <<item[head]>>
<1> DEFINE r == Items(Tail(order), item)
<1>1. /\ order # <<>> /\ head = order[1] /\ item[head] \in Emissions
      /\ order \in Seq(Blocks) /\ item \in [Blocks -> Emissions] /\ Tail(order) \in Seq(Blocks)
  BY EmptySeq, HeadTailProperties DEF FlusherTake, QueueInv, TypeOK, ListExact
<1>2. /\ OnList = h \o r /\ r \in Seq(Emissions) /\ h \in Seq(Emissions)
  <2>1. Items(order, item) = h \o r
    BY <1>1, ItemsFirst
  <2>2. r \in Seq(Emissions)
    BY <1>1, ItemsSeq
  <2> QED
    BY <1>1, <2>1, <2>2, AcceptedParts
<1>3. InHand = <<>> /\ InHand' = h /\ OnList' = r /\ written' = written
  BY <1>1 DEF FlusherTake, InHand, OnList, Items
<1> HIDE DEF h, r
<1>4. Accepted' = (written \o h) \o r
  BY <1>3 DEF Accepted
<1>5. Accepted = written \o (h \o r)
  BY <1>2, <1>3, AcceptedParts, ConcatEmptySeq
<1>6. written \in Seq(Emissions)
  BY AcceptedParts
<1> QED
  BY <1>2, <1>4, <1>5, <1>6, ConcatAssociative

LEMMA AcceptedWrite ==
  ASSUME QueueInv, FlusherWrite
  PROVE  /\ Accepted' = Accepted /\ Len(written') = Len(written) + 1
         /\ Len(written) \in Nat /\ Len(written) < Len(Accepted)
<1> DEFINE e == item[cur]
<1>1. e \in Emissions /\ written \in Seq(Emissions)
  BY DEF FlusherWrite, QueueInv, TypeOK, Places
<1>2. /\ InHand = <<e>> /\ InHand' = <<>> /\ OnList' = OnList /\ written' = Append(written, e)
  BY DEF FlusherWrite, InHand, OnList, list
<1>3. /\ written' = written \o <<e>> /\ Len(written') = Len(written) + 1 /\ Len(written) \in Nat
      /\ written \o <<e>> \in Seq(Emissions)
  BY <1>1, <1>2, AppendProperties, AppendIsConcat, LenProperties
<1>4. Accepted' = Accepted
  BY <1>2, <1>3, ConcatEmptySeq DEF Accepted
<1>5. Len(Accepted) = Len(written) + 1 + Len(OnList) /\ Len(OnList) \in Nat
  BY AcceptedSeq, LenProperties DEF FlusherWrite
<1> QED
  BY <1>3, <1>4, <1>5

LEMMA InitOut == Init => Fresh /\ Waits
<1> SUFFICES ASSUME Init PROVE Fresh /\ Waits
  OBVIOUS
<1>1. QueueInv
  BY InitQueue
<1>2. Len(written) = 0 /\ Len(InHand) = 0 /\ Len(OnList) = 0
  BY <1>1, AcceptedSeq, EmptySeq DEF Init
<1>3. Len(Accepted) = 0 /\ Accepted = <<>>
  BY <1>1, <1>2, AcceptedSeq, EmptySeq
<1> QED
  BY <1>3, ProducersAssumption DEF Init, Fresh, Waits

\* What a step that accepts nothing has to show.
LEMMA OutSame ==
  ASSUME OutInv, Accepted' = Accepted, UNCHANGED <<mine, sent, started, due>>,
         \A p \in Producers : pc'[p] = "push" => pc[p] = "push" /\ item'[mine[p]] = item[mine[p]],
         shutdown' = shutdown, pc'[Main] = "join" <=> pc[Main] = "join",
         flusher' = "exited" => shutdown /\ due <= Len(written')
  PROVE  Fresh' /\ Waits'
BY DEF OutInv, Fresh, Waits

LEMMA OutKept == OutInv /\ [Next]_vars => Fresh' /\ Waits'
<1> SUFFICES ASSUME OutInv, [Next]_vars PROVE Fresh' /\ Waits'
  OBVIOUS
<1> USE DEF list, prod
<1>1. QueueInv /\ Fresh /\ Waits /\ Main \in Producers
  BY ProducersAssumption DEF OutInv
<1>2. ASSUME NEW p \in Producers, NEW b \in Blocks, NEW s \in Sources, Prepare(p, b, s) PROVE Fresh' /\ Waits'
  <2> DEFINE e == <<p, sent[p] + 1>>
  <2>1. /\ \A c \in heap : item'[c] = item[c]
        /\ item'[b] = e /\ sent[p] \in Nat
        /\ \A q \in Producers : sent[q] \in Nat /\ sent'[q] = IF q = p THEN sent[p] + 1 ELSE sent[q]
    BY <1>1, <1>2, MaxEmitsAssumption DEF Prepare, QueueInv, TypeOK
  <2>2. Accepted' = Accepted
    BY <1>1, <1>2, <2>1, AcceptedSame DEF Prepare
  <2>3. \A i \in 1 .. Len(Accepted) : Accepted[i][1] \in Producers /\ Accepted[i][2] \in Nat /\ Accepted[i][2] <= sent[Accepted[i][1]]
    BY <1>1, AcceptedParts, ElementOfSeq, MaxEmitsAssumption DEF Fresh, Emissions
  <2>4. \A i \in 1 .. Len(Accepted) : Accepted[i][2] <= sent'[Accepted[i][1]] /\ Accepted[i] # e
    BY <2>1, <2>3
  <2>5. ASSUME NEW q \in Producers, pc'[q] = "push"
        PROVE  item'[mine'[q]] = <<q, sent'[q]>> /\ \A i \in 1 .. Len(Accepted) : Accepted[i] # <<q, sent'[q]>>
    <3>1. CASE q = p
      BY <1>1, <1>2, <2>1, <2>4, <3>1 DEF Prepare, QueueInv, TypeOK
    <3>2. CASE q # p
      <4>1. pc[q] = "push" /\ mine'[q] = mine[q] /\ mine[q] \in heap /\ sent'[q] = sent[q]
        BY <1>1, <1>2, <2>1, <2>5, <3>2 DEF Prepare, QueueInv, TypeOK, Places
      <4> QED
        BY <1>1, <2>1, <4>1 DEF Fresh
    <3> QED
      BY <3>1, <3>2
  <2>6. Waits'
    BY <1>1, <1>2, <2>2 DEF Prepare, Waits, QueueInv, TypeOK
  <2> QED
    BY <2>2, <2>4, <2>5, <2>6 DEF Fresh
<1>3. ASSUME NEW p \in Producers, Push(p) PROVE Fresh' /\ Waits'
  <2> DEFINE e == item[mine[p]]
  <2> DEFINE n == Len(Accepted)
  <2>1. /\ Accepted' = Append(Accepted, e) /\ e \in Emissions /\ Accepted \in Seq(Emissions) /\ n \in Nat
    BY <1>1, <1>3, AcceptedPush, AcceptedParts
  <2>2. /\ Len(Accepted') = n + 1 /\ Accepted'[n + 1] = e
        /\ \A i \in 1 .. n : Accepted'[i] = Accepted[i]
    BY <2>1, AppendProperties
  <2>3. /\ e = <<p, sent[p]>> /\ sent[p] \in Nat /\ UNCHANGED <<item, sent>>
        /\ \A q \in Producers : pc'[q] = "push" => q # p /\ pc[q] = "push" /\ mine'[q] = mine[q]
    BY <1>1, <1>3 DEF Push, Fresh, QueueInv, TypeOK
  <2>4. \A i \in 1 .. n + 1 : i \in 1 .. n \/ i = n + 1
    BY <2>1
  <2>5. Fresh'
    <3>1. \A i \in 1 .. n + 1 : Accepted'[i][2] <= sent'[Accepted'[i][1]]
      BY <1>1, <2>2, <2>3, <2>4 DEF Fresh
    <3>2. \A q \in Producers : pc'[q] = "push" => item'[mine'[q]] = <<q, sent'[q]>>
      BY <1>1, <2>3 DEF Fresh
    <3>3. ASSUME NEW q \in Producers, pc'[q] = "push", NEW i \in 1 .. n + 1 PROVE Accepted'[i] # <<q, sent'[q]>>
      BY <1>1, <2>2, <2>3, <2>4, <3>3 DEF Fresh
    <3> QED
      BY <2>2, <3>1, <3>2, <3>3 DEF Fresh
  <2>6. Waits'
    <3>1. /\ due' = due /\ due \in Nat /\ written' = written /\ shutdown' = shutdown /\ started' = TRUE
          /\ flusher' = "exited" => flusher = "exited"
          /\ pc'[Main] = "join" <=> pc[Main] = "join"
      BY <1>1, <1>3 DEF Push, Woken, QueueInv, TypeOK
    <3> QED
      BY <1>1, <2>1, <2>2, <3>1 DEF Waits
  <2> QED
    BY <2>5, <2>6
<1>4. ASSUME NEW p \in Producers, AfterEmit(p) \/ Finish(p) \/ Panic(p) PROVE Fresh' /\ Waits'
  <2>1. Accepted' = Accepted
    BY <1>1, <1>4, AcceptedSame DEF AfterEmit, Finish, Panic
  <2> QED
    BY <1>1, <1>4, <2>1, OutSame DEF AfterEmit, Finish, Panic, QueueInv, TypeOK, Waits
<1>5. CASE NothingToWaitFor \/ JoinFlusher
  <2>1. Accepted' = Accepted
    BY <1>1, <1>5, AcceptedSame DEF NothingToWaitFor, JoinFlusher
  <2> QED
    BY <1>1, <1>5, <2>1, OutSame DEF NothingToWaitFor, JoinFlusher, Waits
<1>6. CASE WaitAll
  <2>1. Accepted' = Accepted
    BY <1>1, <1>6, AcceptedSame DEF WaitAll, Woken
  <2>2. Len(Accepted) \in Nat /\ flusher' # "exited" /\ shutdown' /\ pc'[Main] = "join"
    BY <1>1, <1>6, AcceptedParts DEF WaitAll, MainReturns, Woken, Waits, QueueInv, TypeOK
  <2> QED
    BY <1>1, <1>6, <2>1, <2>2 DEF WaitAll, MainReturns, Woken, Waits, Fresh, QueueInv, TypeOK
<1>7. CASE FlusherTake
  <2>1. Accepted' = Accepted
    BY <1>1, <1>7, AcceptedTake
  <2> QED
    BY <1>1, <1>7, <2>1, OutSame DEF FlusherTake
<1>8. CASE FlusherWrite
  <2>1. Accepted' = Accepted
    BY <1>1, <1>8, AcceptedWrite
  <2> QED
    BY <1>1, <1>8, <2>1, OutSame DEF FlusherWrite
<1>9. CASE FlusherExit
  <2>1. Accepted' = Accepted
    BY <1>1, <1>9, AcceptedSame DEF FlusherExit
  <2>2. Len(Accepted) = Len(written)
    <3>1. Len(order) = 0 /\ Len(InHand) = 0 /\ Len(written) \in Nat
      BY <1>1, <1>9, AcceptedSeq, LenProperties, BlocksAssumption, ElementOfSeq DEF FlusherExit, Drained, QueueInv, ListExact, TypeOK
    <3> QED
      BY <1>1, <3>1, AcceptedSeq
  <2> QED
    BY <1>1, <1>9, <2>1, <2>2, OutSame DEF FlusherExit, Waits
<1>10. CASE FlusherSleep \/ SpuriousWake \/ FlusherDrop
  <2>1. Accepted' = Accepted
    BY <1>1, <1>10, AcceptedSame DEF FlusherSleep, SpuriousWake, FlusherDrop
  <2> QED
    BY <1>1, <1>10, <2>1, OutSame DEF FlusherSleep, SpuriousWake, FlusherDrop
<1>11. CASE UNCHANGED vars
  <2>1. Accepted' = Accepted
    BY <1>1, <1>11, AcceptedSame DEF vars
  <2> QED
    BY <1>1, <1>11, <2>1, OutSame DEF vars, Waits
<1> QED
  BY <1>2, <1>3, <1>4, <1>5, <1>6, <1>7, <1>8, <1>9, <1>10, <1>11 DEF Next, Emit, Flusher, Ended

LEMMA InitOutbox == Init => Log!Init
<1> SUFFICES ASSUME Init PROVE Log!Init
  OBVIOUS
<1>1. Len(written) = 0 /\ Len(InHand) = 0 /\ Len(OnList) = 0
  BY InitQueue, AcceptedSeq, EmptySeq DEF Init
<1>2. Accepted = <<>>
  BY <1>1, InitQueue, AcceptedSeq, EmptySeq
<1> QED
  BY <1>1, <1>2 DEF Log!Init, Init

LEMMA StepOutbox ==
  ASSUME OutInv, [Next]_vars
  PROVE  [Log!Next]_(Log!vars)
<1> USE DEF list, prod
<1>1. QueueInv /\ Fresh /\ Waits /\ Main \in Producers
  BY ProducersAssumption DEF OutInv
<1>2. ASSUME Accepted' = Accepted, UNCHANGED <<written, shutdown, proc, due>> PROVE UNCHANGED Log!vars
  BY <1>2 DEF Log!vars
<1>3. ASSUME NEW p \in Producers, NEW b \in Blocks, NEW s \in Sources, Prepare(p, b, s)
      PROVE  UNCHANGED Log!vars
  <2>1. \A c \in heap : item'[c] = item[c]
    BY <1>1, <1>3 DEF Prepare, QueueInv, TypeOK
  <2>2. Accepted' = Accepted
    BY <1>1, <1>3, <2>1, AcceptedSame DEF Prepare
  <2> QED
    BY <1>2, <1>3, <2>2 DEF Prepare
<1>4. ASSUME NEW p \in Producers, Push(p) PROVE Log!Next
  <2> DEFINE e == item[mine[p]]
  <2>1. Accepted' = Append(Accepted, e) /\ e \in Emissions
    BY <1>1, <1>4, AcceptedPush
  <2>2. \A i \in 1 .. Len(Accepted) : Accepted[i] # e
    BY <1>1, <1>4 DEF Push, Fresh
  <2>3. Log!Accept(e)
    BY <1>4, <2>1, <2>2 DEF Push, Up, Log!Accept
  <2> QED
    BY <2>1, <2>3 DEF Log!Next
<1>5. ASSUME NEW p \in Producers, AfterEmit(p) \/ Finish(p) PROVE UNCHANGED Log!vars
  <2>1. Accepted' = Accepted
    BY <1>1, <1>5, AcceptedSame DEF AfterEmit, Finish
  <2> QED
    BY <1>2, <1>5, <2>1 DEF AfterEmit, Finish
<1>6. ASSUME NEW p \in Producers, Panic(p) PROVE Log!Next
  <2>1. Accepted' = Accepted
    BY <1>1, <1>6, AcceptedSame DEF Panic
  <2> QED
    BY <1>6, <2>1 DEF Panic, Up, Log!Next, Log!Panic
<1>7. CASE NothingToWaitFor \/ JoinFlusher
  <2>1. Accepted' = Accepted
    BY <1>1, <1>7, AcceptedSame DEF NothingToWaitFor, JoinFlusher
  <2>2. /\ shutdown \/ Accepted = <<>>
        /\ Len(written) >= due
    <3>1. CASE NothingToWaitFor
      <4>1. Accepted = <<>> /\ due <= Len(Accepted) /\ due \in Nat
        BY <1>1, <3>1 DEF NothingToWaitFor, Waits, QueueInv, TypeOK
      <4>2. Len(Accepted) = 0 /\ Len(written) \in Nat
        BY <1>1, <4>1, EmptySeq, LenProperties DEF QueueInv, TypeOK
      <4> QED
        BY <4>1, <4>2
    <3>2. CASE JoinFlusher
      <4>1. due \in Nat /\ Len(written) \in Nat
        BY <1>1, LenProperties DEF QueueInv, TypeOK
      <4> QED
        BY <1>1, <3>2, <4>1 DEF JoinFlusher, Waits
    <3> QED
      BY <1>7, <3>1, <3>2
  <2>3. Log!Exit
    BY <1>7, <2>1, <2>2 DEF NothingToWaitFor, MainReturns, JoinFlusher, Up, Log!Exit
  <2> QED
    BY <2>3 DEF Log!Next
<1>8. CASE WaitAll
  <2>1. Accepted' = Accepted
    BY <1>1, <1>8, AcceptedSame DEF WaitAll, Woken
  <2>2. ~shutdown
    BY <1>1, <1>8 DEF WaitAll, MainReturns, Waits
  <2>3. Log!Ask
    BY <1>8, <2>1, <2>2 DEF WaitAll, MainReturns, Up, Log!Ask
  <2> QED
    BY <2>3 DEF Log!Next
<1>9. CASE FlusherTake
  BY <1>1, <1>2, <1>9, AcceptedTake DEF FlusherTake
<1>10. CASE FlusherWrite
  <2>1. Log!Perform
    BY <1>1, <1>10, AcceptedWrite DEF FlusherWrite, Up, Log!Perform
  <2> QED
    BY <2>1 DEF Log!Next
<1>11. CASE FlusherSleep \/ FlusherExit \/ SpuriousWake \/ FlusherDrop
  <2>1. Accepted' = Accepted
    BY <1>1, <1>11, AcceptedSame DEF FlusherSleep, FlusherExit, SpuriousWake, FlusherDrop
  <2> QED
    BY <1>2, <1>11, <2>1 DEF FlusherSleep, FlusherExit, SpuriousWake, FlusherDrop
<1>12. CASE UNCHANGED vars
  <2>1. Accepted' = Accepted
    BY <1>1, <1>12, AcceptedSame DEF vars
  <2> QED
    BY <1>2, <1>12, <2>1 DEF vars
<1> QED
  BY <1>3, <1>4, <1>5, <1>6, <1>7, <1>8, <1>9, <1>10, <1>11, <1>12 DEF Next, Emit, Flusher, Ended

\* The queue is a log in the order of the appends, and main returns normally
\* only when everything accepted before llm_emit_wait_all has been written.
THEOREM QueueImplementsOutbox == Spec => ImplementsOutbox
<1>1. Init => OutInv
  BY InitQueue, InitOut DEF OutInv
<1>2. OutInv /\ [Next]_vars => OutInv'
  BY NextKeeps, OutKept DEF OutInv
<1>3. OutInv /\ [Next]_vars => [Log!Next]_(Log!vars)
  BY StepOutbox
<1> QED
  BY <1>1, <1>2, <1>3, InitOutbox, PTL DEF Spec, ImplementsOutbox, Log!Spec
=============================================================================
