---------------------------- MODULE PruneProofs ----------------------------
(***************************************************************************)
(* What the filter of a sequence is, and that prune_dead_code keeps        *)
(* exactly what the roots reach, for every module.                         *)
(*                                                                         *)
(* The worklist is right because between two rounds every definition that  *)
(* is reached and not visited lies on the stack, and every definition that *)
(* is visited has had its calls reached or lies on the stack again: a name *)
(* may have several definitions, and the mark is on the name.              *)
(***************************************************************************)
EXTENDS Prune, Subsequence, SequenceTheorems, FiniteSetTheorems, TLAPS

\* The rank of a position among others.
Upto(I, i) == {j \in I : j =< i}
Rank(I, i) == Cardinality(Upto(I, i))

Increasing(h, m) == \A k, l \in 1 .. m : k < l => h[k] < h[l]

-----------------------------------------------------------------------------
(* Subsequences.                                                           *)

\* Ranks number the positions in their order, and Nth is the inverse.
LEMMA Ranks ==
  ASSUME NEW I \in SUBSET Nat, IsFiniteSet(I)
  PROVE  /\ Cardinality(I) \in Nat
         /\ \A i \in I : Rank(I, i) \in 1 .. Cardinality(I)
         /\ \A i, j \in I : i < j => Rank(I, i) < Rank(I, j)
         /\ \A k \in 1 .. Cardinality(I) : Nth(I, k) \in I /\ Rank(I, Nth(I, k)) = k
         /\ \A i \in I : Nth(I, Rank(I, i)) = i
<1> DEFINE n == Cardinality(I)
           f == [i \in I |-> Rank(I, i)]
<1>1. n \in Nat
  BY FS_CardinalityType
<1>2. ASSUME NEW i \in I
      PROVE  IsFiniteSet(Upto(I, i)) /\ Rank(I, i) \in 1 .. n
  <2>1. Upto(I, i) \in SUBSET I /\ i \in Upto(I, i)
    BY DEF Upto
  <2>2. IsFiniteSet(Upto(I, i)) /\ Cardinality(Upto(I, i)) =< n
    BY <2>1, FS_Subset
  <2>3. Cardinality(Upto(I, i)) \in Nat /\ Cardinality(Upto(I, i)) # 0
    BY <2>1, <2>2, FS_CardinalityType, FS_EmptySet
  <2> QED
    BY <1>1, <2>2, <2>3 DEF Rank
<1>3. ASSUME NEW i \in I, NEW j \in I, i < j
      PROVE  Rank(I, i) < Rank(I, j)
  <2>1. Upto(I, i) \in SUBSET Upto(I, j) /\ j \in Upto(I, j) /\ j \notin Upto(I, i)
    <3>1. i \in Nat /\ j \in Nat /\ \A k \in I : k \in Nat
      OBVIOUS
    <3>2. \A k \in I : k =< i => k =< j
      BY <1>3, <3>1
    <3>3. j =< j /\ ~ (j =< i)
      BY <1>3, <3>1
    <3> QED
      BY <3>2, <3>3 DEF Upto
  <2>2. Upto(I, i) # Upto(I, j)
    BY <2>1
  <2>3. Cardinality(Upto(I, i)) =< Cardinality(Upto(I, j))
        /\ Cardinality(Upto(I, j)) # Cardinality(Upto(I, i))
    BY <1>2, <2>1, <2>2, FS_Subset
  <2> QED
    BY <1>1, <1>2, <2>3 DEF Rank
<1>4. \A i, j \in I : Rank(I, i) = Rank(I, j) => i = j
  <2> SUFFICES ASSUME NEW i \in I, NEW j \in I, Rank(I, i) = Rank(I, j), i # j
               PROVE  FALSE
    OBVIOUS
  <2>1. i < j \/ j < i
    OBVIOUS
  <2>2. Rank(I, i) \in Nat /\ Rank(I, i) < Rank(I, i)
    BY <1>1, <1>2, <1>3, <2>1
  <2> QED
    BY <2>2
<1>5. f \in Injection(I, 1 .. n)
  BY <1>2, <1>4 DEF Injection, IsInjective
<1>6. IsFiniteSet(1 .. n) /\ Cardinality(1 .. n) = n
  BY <1>1, FS_Interval
<1>7. f \in Surjection(I, 1 .. n)
  BY <1>5, <1>6, FS_Injection
<1>8. \A k \in 1 .. n : \E i \in I : Rank(I, i) = k
  BY <1>7 DEF Surjection
<1>9. \A k \in 1 .. n : Nth(I, k) \in I /\ Rank(I, Nth(I, k)) = k
  BY <1>8 DEF Nth, Rank, Upto
<1>10. \A i \in I : Nth(I, Rank(I, i)) = i
  BY <1>2, <1>4, <1>9
<1> QED
  BY <1>1, <1>2, <1>3, <1>9, <1>10

\* Whatever lists the positions in their order lists them as Nth does.
LEMMA Listing ==
  ASSUME NEW I \in SUBSET Nat, IsFiniteSet(I), NEW m \in Nat, NEW h \in [1 .. m -> I],
         Increasing(h, m), \A i \in I : \E k \in 1 .. m : h[k] = i
  PROVE  m = Cardinality(I) /\ \A k \in 1 .. m : h[k] = Nth(I, k)
<1>1. \A k, l \in 1 .. m : h[k] = h[l] => k = l
  <2> SUFFICES ASSUME NEW k \in 1 .. m, NEW l \in 1 .. m, h[k] = h[l], k # l
               PROVE  FALSE
    OBVIOUS
  <2>1. h[k] < h[l] \/ h[l] < h[k]
    BY DEF Increasing
  <2>2. h[k] \in Nat
    OBVIOUS
  <2> QED
    BY <2>1, <2>2
<1>2. m = Cardinality(I)
  <2>1. h \in Bijection(1 .. m, I)
    BY <1>1 DEF Bijection, Injection, IsInjective, Surjection
  <2>2. Cardinality(I) = Cardinality(1 .. m)
    BY <2>1, FS_Interval, FS_Bijection DEF ExistsBijection
  <2> QED
    BY <2>2, FS_Interval
<1>3. ASSUME NEW k \in 1 .. m
      PROVE  h[k] = Nth(I, k)
  <2> DEFINE U == Upto(I, h[k])
             g == [x \in 1 .. k |-> h[x]]
  <2>1. \A x \in 1 .. k : h[x] \in U
    <3> TAKE x \in 1 .. k
    <3>1. x \in 1 .. m /\ (x = k \/ x < k)
      OBVIOUS
    <3>2. h[x] \in Nat /\ h[k] \in Nat /\ h[x] \in I
      BY <3>1
    <3>3. h[x] =< h[k]
      BY <3>1, <3>2 DEF Increasing
    <3> QED
      BY <3>2, <3>3 DEF Upto
  <2>2. \A i \in U : \E x \in 1 .. k : h[x] = i
    <3> TAKE i \in U
    <3>1. PICK x \in 1 .. m : h[x] = i
      BY DEF Upto
    <3>2. h[x] \in Nat /\ h[k] \in Nat /\ h[x] =< h[k]
      BY <3>1 DEF Upto
    <3>3. ~ (k < x)
      BY <3>2 DEF Increasing
    <3> QED
      BY <3>1, <3>3
  <2>3. g \in Bijection(1 .. k, U)
    <3>1. \A x \in 1 .. k : x \in 1 .. m
      OBVIOUS
    <3> HIDE DEF U
    <3>2. g \in [1 .. k -> U]
      BY <2>1
    <3> QED
      BY <1>1, <2>2, <3>1, <3>2 DEF Bijection, Injection, IsInjective, Surjection
  <2>4. Cardinality(U) = k
    BY <2>3, FS_Interval, FS_Bijection DEF ExistsBijection
  <2> QED
    <3>1. h[k] \in I
      OBVIOUS
    <3>2. Rank(I, h[k]) = k
      BY <2>4 DEF Rank
    <3> QED
      BY <3>1, <3>2, Ranks
<1> QED
  BY <1>2, <1>3

LEMMA Filtered ==
  ASSUME NEW s, NEW I \in SUBSET Nat, IsFiniteSet(I), NEW m \in Nat, NEW h \in [1 .. m -> I],
         Increasing(h, m), \A i \in I : \E k \in 1 .. m : h[k] = i
  PROVE  Keeping(s, I) = [k \in 1 .. m |-> s[h[k]]]
<1>1. m = Cardinality(I) /\ \A k \in 1 .. m : h[k] = Nth(I, k)
  BY Listing
<1> QED
  BY <1>1 DEF Keeping

LEMMA Sublist ==
  ASSUME NEW S, NEW s \in Seq(S), NEW I \in SUBSET DOMAIN s
  PROVE  /\ I \in SUBSET Nat /\ IsFiniteSet(I) /\ Cardinality(I) \in Nat
         /\ Keeping(s, I) \in Seq(S) /\ Len(Keeping(s, I)) = Cardinality(I)
         /\ DOMAIN Keeping(s, I) = 1 .. Cardinality(I)
         /\ \A k \in 1 .. Cardinality(I) : Nth(I, k) \in I /\ Keeping(s, I)[k] = s[Nth(I, k)]
<1>1. DOMAIN s = 1 .. Len(s) /\ Len(s) \in Nat
  BY LenProperties
<1>2. I \in SUBSET Nat /\ IsFiniteSet(I) /\ Cardinality(I) \in Nat
  <2>1. I \in SUBSET (1 .. Len(s)) /\ IsFiniteSet(1 .. Len(s))
    BY <1>1, FS_Interval
  <2>2. IsFiniteSet(I)
    BY <2>1, FS_Subset
  <2> QED
    BY <2>1, <2>2, FS_CardinalityType
<1>3. \A k \in 1 .. Cardinality(I) : Nth(I, k) \in I
  BY <1>2, Ranks
<1>4. \A k \in 1 .. Cardinality(I) : s[Nth(I, k)] \in S
  BY <1>1, <1>3, ElementOfSeq
<1>5. Keeping(s, I) \in [1 .. Cardinality(I) -> S]
  BY <1>4 DEF Keeping
<1>6. Keeping(s, I) \in Seq(S) /\ Len(Keeping(s, I)) = Cardinality(I)
  BY <1>2, <1>5
<1>7. \A k \in 1 .. Cardinality(I) : Keeping(s, I)[k] = s[Nth(I, k)]
  BY DEF Keeping
<1> QED
  BY <1>2, <1>3, <1>5, <1>6, <1>7

-----------------------------------------------------------------------------
(* The worklist.                                                           *)

\* What lies on the stack.
Has(s, i)  == \E k \in 1 .. Len(s) : s[k] = i
OnStack(i) == Has(toVisit, i)
Name(i)    == items[i].name

\* Only definitions whose name is reached are put on the stack.
StackShape == \A i \in Positions : OnStack(i) => IsDefine(i) /\ Name(i) \in reachable

\* The roots seen so far are reached, and nothing is visited yet.
RootsShape ==
  phase = "roots" =>
    /\ visited = {}
    /\ reachable = {Name(j) : j \in {k \in Positions : k < scan /\ IsRoot(k)}}
    /\ \A i \in Positions : i < scan /\ IsRoot(i) /\ IsDefine(i) => OnStack(i)

RootsReached == phase # "roots" => RootNames \subseteq reachable

\* What is visited is done with, or lies on the stack once more.
VisitedShape ==
  RootsAgree /\ phase # "roots" =>
    \A i \in Positions :
      IsDefine(i) /\ Name(i) \in visited => items[i].calls \subseteq reachable \/ OnStack(i)

\* What is reached and not visited waits, as far as the rescan has come.
WaitingShape ==
  RootsAgree /\ phase # "roots" =>
    \A i \in Positions :
      /\ IsDefine(i) /\ Name(i) \in reachable \ visited
      /\ phase = "rescan" => i < scan
      => OnStack(i)

\* Nothing is reached that is not in every closed set.
LeastShape == \A S \in SUBSET Mentioned : ClosedUnderCalls(S) => reachable \subseteq S

KeptShape == phase = "kept" => toVisit = <<>>

PruneInv ==
  /\ PruneTypeOK /\ StackShape /\ RootsShape /\ RootsReached
  /\ VisitedShape /\ WaitingShape /\ LeastShape /\ KeptShape

-----------------------------------------------------------------------------
\* A pushed position lies on the stack with all that was there.
LEMMA PushHas ==
  ASSUME NEW D, NEW s \in Seq(D), NEW d \in D
  PROVE  /\ Append(s, d) \in Seq(D)
         /\ \A i : Has(Append(s, d), i) <=> Has(s, i) \/ i = d
<1>1. /\ Append(s, d) \in Seq(D) /\ Len(Append(s, d)) = Len(s) + 1 /\ Len(s) \in Nat
      /\ \A k \in 1 .. Len(s) : Append(s, d)[k] = s[k]
      /\ Append(s, d)[Len(s) + 1] = d
  BY AppendProperties, LenProperties
<1>2. ASSUME NEW i, Has(s, i) PROVE Has(Append(s, d), i)
  BY <1>1, <1>2 DEF Has
<1>3. Has(Append(s, d), d)
  BY <1>1 DEF Has
<1>4. ASSUME NEW i, Has(Append(s, d), i), i # d PROVE Has(s, i)
  BY <1>1, <1>4 DEF Has
<1> QED
  BY <1>1, <1>2, <1>3, <1>4

\* Taking the top leaves all that is not the top.
LEMMA PopHas ==
  ASSUME NEW D, NEW s \in Seq(D), s # <<>>
  PROVE  /\ SubSeq(s, 1, Len(s) - 1) \in Seq(D)
         /\ s[Len(s)] \in D /\ Has(s, s[Len(s)])
         /\ \A i : Has(SubSeq(s, 1, Len(s) - 1), i) => Has(s, i)
         /\ \A i : Has(s, i) => i = s[Len(s)] \/ Has(SubSeq(s, 1, Len(s) - 1), i)
<1> DEFINE n == Len(s) - 1
           t == SubSeq(s, 1, n)
<1>1. Len(s) \in Nat /\ Len(s) # 0
  BY EmptySeq, LenProperties
<1>2. Len(s) \in 1 .. Len(s) /\ n \in Nat /\ n + 1 = Len(s)
  BY <1>1
<1>3. \A k \in 1 .. Len(s) : s[k] \in D
  BY ElementOfSeq
<1>4. s[Len(s)] \in D /\ Has(s, s[Len(s)])
  BY <1>2, <1>3 DEF Has
<1>5. t \in Seq(D) /\ Len(t) = n /\ \A k \in 1 .. n : t[k] = s[k]
  BY <1>2
<1>6. ASSUME NEW i, Has(t, i) PROVE Has(s, i)
  BY <1>2, <1>5, <1>6 DEF Has
<1>7. ASSUME NEW i, Has(s, i), i # s[Len(s)] PROVE Has(t, i)
  BY <1>2, <1>5, <1>7 DEF Has
<1> QED
  BY <1>4, <1>5, <1>6, <1>7

LEMMA NothingOnEmpty == \A i : ~Has(<<>>, i)
  BY DEF Has

\* What the type says of one item.
LEMMA ItemTyped ==
  ASSUME items \in Seq(Item), NEW i \in Positions
  PROVE  /\ Name(i) \in STRING /\ items[i].calls \in SUBSET STRING
         /\ {Name(i)} \cup items[i].calls \subseteq Mentioned
         /\ Len(items) \in Nat
<1>1. items[i] \in Item /\ Len(items) \in Nat
  BY ElementOfSeq, LenProperties DEF Positions
<1> QED
  BY <1>1 DEF Item, Name, Mentioned

\* What only depends on the module does not change.
LEMMA SameModule ==
  ASSUME items' = items
  PROVE  /\ Positions' = Positions /\ RootNames' = RootNames /\ RootsAgree' = RootsAgree
         /\ Mentioned' = Mentioned
         /\ \A i : IsDefine(i)' = IsDefine(i) /\ IsRoot(i)' = IsRoot(i) /\ Name(i)' = Name(i)
         /\ \A S : ClosedUnderCalls(S)' = ClosedUnderCalls(S)
  BY DEF Positions, RootNames, RootsAgree, Mentioned, IsDefine, IsRoot, Name, ClosedUnderCalls

-----------------------------------------------------------------------------
LEMMA InitHolds == PruneInit => PruneInv
<1> SUFFICES ASSUME PruneInit PROVE PruneInv
  OBVIOUS
<1> USE DEF PruneInit, Begin
<1>1. Len(items) \in Nat
  BY LenProperties
<1>2. PruneTypeOK
  BY <1>1 DEF PruneTypeOK
<1>3. \A i : ~OnStack(i)
  BY NothingOnEmpty DEF OnStack
<1>4. RootsShape
  BY DEF RootsShape, Positions
<1> QED
  BY <1>2, <1>3, <1>4 DEF PruneInv, StackShape, RootsReached, VisitedShape, WaitingShape,
     LeastShape, KeptShape

\* The first loop: a root that is a definition is pushed.
LEMMA CollectRootKeeps == PruneInv /\ CollectRoot => PruneInv'
<1> SUFFICES ASSUME PruneInv, CollectRoot PROVE PruneInv'
  OBVIOUS
<1> USE DEF PruneInv
<1>1. /\ phase = "roots" /\ phase' = "roots" /\ scan \in Positions /\ scan' = scan + 1
      /\ items' = items /\ visited' = visited /\ visited = {} /\ items \in Seq(Item)
      /\ toVisit \in Seq(Positions) /\ scan \in Nat /\ reachable \subseteq STRING
  BY DEF CollectRoot, RootsShape, PruneTypeOK, Positions
<1>2. reachable' = IF IsRoot(scan) THEN reachable \cup {Name(scan)} ELSE reachable
  BY DEF CollectRoot, Name
<1>3. toVisit' = IF IsRoot(scan) /\ IsDefine(scan) THEN Append(toVisit, scan) ELSE toVisit
  BY DEF CollectRoot
<1>4. /\ toVisit' \in Seq(Positions)
      /\ \A i : OnStack(i)' <=> OnStack(i) \/ (i = scan /\ IsRoot(scan) /\ IsDefine(scan))
  BY <1>1, <1>3, PushHas DEF OnStack
<1>5. PruneTypeOK'
  <2>1. Name(scan) \in STRING /\ Len(items) \in Nat
    BY <1>1, ItemTyped
  <2>2. scan' \in 1 .. Len(items') + 1
    BY <1>1, <2>1 DEF Positions
  <2>3. reachable' \subseteq STRING /\ visited' \subseteq STRING
    BY <1>1, <1>2, <2>1 DEF PruneTypeOK
  <2>4. toVisit' \in Seq(Positions')
    BY <1>1, <1>4, SameModule
  <2> QED
    BY <1>1, <2>2, <2>3, <2>4 DEF PruneTypeOK
<1>6. StackShape'
  BY <1>1, <1>2, <1>4, SameModule DEF StackShape
<1>7. RootsShape'
  <2>1. reachable = {Name(j) : j \in {k \in Positions : k < scan /\ IsRoot(k)}}
    BY <1>1 DEF RootsShape
  <2>2. \A k \in Positions : k < scan + 1 <=> k < scan \/ k = scan
    BY <1>1 DEF Positions
  <2>3. reachable' = {Name(j) : j \in {k \in Positions : k < scan + 1 /\ IsRoot(k)}}
    BY <1>1, <1>2, <2>1, <2>2
  <2>4. \A i \in Positions : i < scan + 1 /\ IsRoot(i) /\ IsDefine(i) => OnStack(i)'
    BY <1>1, <1>4, <2>2 DEF RootsShape
  <2> QED
    BY <1>1, <2>3, <2>4, SameModule DEF RootsShape
<1>8. LeastShape'
  <2>1. IsRoot(scan) => Name(scan) \in RootNames
    BY <1>1 DEF RootNames, Name
  <2> QED
    <3> SUFFICES ASSUME NEW S \in SUBSET Mentioned, ClosedUnderCalls(S)
                 PROVE  reachable' \subseteq S
      BY <1>1, SameModule DEF LeastShape
    <3>1. reachable \subseteq S
      BY DEF LeastShape
    <3>2. RootNames \subseteq S
      BY DEF ClosedUnderCalls
    <3> QED
      BY <1>2, <2>1, <3>1, <3>2
<1> QED
  BY <1>1, <1>5, <1>6, <1>7, <1>8 DEF RootsReached, VisitedShape, WaitingShape, KeptShape

\* All roots are reached; those that are definitions are on the stack.
LEMMA RootsCollectedKeeps == PruneInv /\ RootsCollected => PruneInv'
<1> SUFFICES ASSUME PruneInv, RootsCollected PROVE PruneInv'
  OBVIOUS
<1> USE DEF PruneInv
<1>1. /\ phase = "roots" /\ phase' = "visit" /\ scan \notin Positions /\ scan' = scan
      /\ items' = items /\ visited' = visited /\ visited = {} /\ items \in Seq(Item)
      /\ reachable' = reachable /\ toVisit' = toVisit
  BY DEF RootsCollected, RootsShape, PruneTypeOK
<1>2. \A i \in Positions : i < scan
  BY <1>1, LenProperties DEF PruneTypeOK, Positions
<1>3. \A i : OnStack(i)' <=> OnStack(i)
  BY <1>1 DEF OnStack
<1>4. PruneTypeOK'
  BY <1>1, SameModule DEF PruneTypeOK, Positions
<1>5. StackShape'
  BY <1>1, <1>3, SameModule DEF StackShape
<1>6. reachable = RootNames
  BY <1>1, <1>2 DEF RootsShape, RootNames, Name
<1>7. VisitedShape'
  BY <1>1 DEF VisitedShape
<1>8. WaitingShape'
  <2> SUFFICES ASSUME RootsAgree, NEW i \in Positions, IsDefine(i), Name(i) \in reachable
               PROVE  OnStack(i)
    BY <1>1, <1>3, SameModule DEF WaitingShape
  <2>1. IsRoot(i)
    BY <1>6 DEF RootsAgree, Name
  <2> QED
    BY <1>1, <1>2, <2>1 DEF RootsShape
<1>9. LeastShape'
  BY <1>1, SameModule DEF LeastShape
<1> QED
  BY <1>1, <1>4, <1>5, <1>6, <1>7, <1>8, <1>9, SameModule DEF RootsReached, RootsShape, KeptShape

\* The definition on top is visited: what it calls is reached.  Another
\* definition of that name was waiting on the stack and still is.
LEMMA VisitKeeps == PruneInv /\ Visit => PruneInv'
<1> SUFFICES ASSUME PruneInv, Visit PROVE PruneInv'
  OBVIOUS
<1> USE DEF PruneInv
<1> DEFINE top == toVisit[Len(toVisit)]
<1>1. /\ phase = "visit" /\ phase' = "rescan" /\ scan' = 1 /\ toVisit # <<>>
      /\ items' = items /\ items \in Seq(Item) /\ toVisit \in Seq(Positions)
      /\ toVisit' = SubSeq(toVisit, 1, Len(toVisit) - 1)
      /\ reachable' = reachable \cup items[top].calls
      /\ visited' = visited \cup {Name(top)}
  BY DEF Visit, PruneTypeOK, Name
<1>2. /\ toVisit' \in Seq(Positions) /\ top \in Positions /\ OnStack(top)
      /\ \A i : OnStack(i)' => OnStack(i)
      /\ \A i : OnStack(i) => i = top \/ OnStack(i)'
  BY <1>1, PopHas DEF OnStack
<1>3. IsDefine(top) /\ Name(top) \in reachable
  BY <1>2 DEF StackShape
<1>4. PruneTypeOK'
  <2>1. Name(top) \in STRING /\ items[top].calls \in SUBSET STRING /\ Len(items) \in Nat
    BY <1>1, <1>2, ItemTyped
  <2>2. scan' \in 1 .. Len(items') + 1
    BY <1>1, <2>1
  <2>3. reachable' \subseteq STRING /\ visited' \subseteq STRING
    BY <1>1, <2>1 DEF PruneTypeOK
  <2>4. toVisit' \in Seq(Positions')
    BY <1>1, <1>2, SameModule
  <2> QED
    BY <1>1, <2>2, <2>3, <2>4 DEF PruneTypeOK
<1>5. StackShape'
  BY <1>1, <1>2, SameModule DEF StackShape
<1>6. RootsReached'
  BY <1>1, SameModule DEF RootsReached
<1>7. VisitedShape'
  <2> SUFFICES ASSUME RootsAgree, NEW i \in Positions, IsDefine(i),
                      Name(i) \in visited \cup {Name(top)}
               PROVE  items[i].calls \subseteq reachable' \/ OnStack(i)'
    BY <1>1, SameModule DEF VisitedShape
  <2>1. CASE Name(i) \in visited
    BY <1>1, <1>2, <2>1 DEF VisitedShape
  <2>2. CASE Name(i) \notin visited
    <3>1. OnStack(i)
      BY <1>1, <1>3, <2>2 DEF WaitingShape
    <3> QED
      BY <1>1, <1>2, <3>1
  <2> QED
    BY <2>1, <2>2
<1>8. WaitingShape'
  <2>1. \A i \in Positions : ~(i < 1)
    BY DEF Positions
  <2> QED
    BY <1>1, <2>1, SameModule DEF WaitingShape
<1>9. LeastShape'
  <2> SUFFICES ASSUME NEW S \in SUBSET Mentioned, ClosedUnderCalls(S)
               PROVE  reachable' \subseteq S
    BY <1>1, SameModule DEF LeastShape
  <2>1. reachable \subseteq S
    BY DEF LeastShape
  <2>2. items[top].calls \subseteq S
    BY <1>2, <1>3, <2>1 DEF ClosedUnderCalls, Name
  <2> QED
    BY <1>1, <2>1, <2>2
<1> QED
  BY <1>1, <1>4, <1>5, <1>6, <1>7, <1>8, <1>9 DEF RootsShape, KeptShape

\* What the visit reached is pushed, one position after the other.
LEMMA RescanKeeps == PruneInv /\ Rescan => PruneInv'
<1> SUFFICES ASSUME PruneInv, Rescan PROVE PruneInv'
  OBVIOUS
<1> USE DEF PruneInv
<1> DEFINE waits == IsDefine(scan) /\ Name(scan) \in reachable /\ Name(scan) \notin visited
<1>1. /\ phase = "rescan" /\ phase' = "rescan" /\ scan \in Positions /\ scan' = scan + 1
      /\ items' = items /\ visited' = visited /\ reachable' = reachable
      /\ items \in Seq(Item) /\ toVisit \in Seq(Positions) /\ scan \in Nat
  BY DEF Rescan, PruneTypeOK, Positions
<1>2. toVisit' = IF waits THEN Append(toVisit, scan) ELSE toVisit
  BY DEF Rescan, Name
<1>3. /\ toVisit' \in Seq(Positions)
      /\ \A i : OnStack(i)' <=> OnStack(i) \/ (i = scan /\ waits)
  BY <1>1, <1>2, PushHas DEF OnStack
<1>4. PruneTypeOK'
  BY <1>1, <1>3, ItemTyped, SameModule DEF PruneTypeOK, Positions
<1>5. StackShape'
  BY <1>1, <1>3, SameModule DEF StackShape
<1>6. RootsReached'
  BY <1>1, SameModule DEF RootsReached
<1>7. VisitedShape'
  BY <1>1, <1>3, SameModule DEF VisitedShape
<1>8. WaitingShape'
  <2>1. \A i \in Positions : i < scan + 1 <=> i < scan \/ i = scan
    BY <1>1 DEF Positions
  <2> QED
    BY <1>1, <1>3, <2>1, SameModule DEF WaitingShape
<1>9. LeastShape'
  BY <1>1, SameModule DEF LeastShape
<1> QED
  BY <1>1, <1>4, <1>5, <1>6, <1>7, <1>8, <1>9 DEF RootsShape, KeptShape

\* The end of a round and the end of all rounds.
LEMMA RoundEndKeeps == PruneInv /\ (Rescanned \/ NothingToVisit) => PruneInv'
<1> SUFFICES ASSUME PruneInv, Rescanned \/ NothingToVisit PROVE PruneInv'
  OBVIOUS
<1> USE DEF PruneInv
<1>1. /\ phase \in {"rescan", "visit"} /\ phase' \in {"visit", "kept"} /\ scan' = scan
      /\ items' = items /\ visited' = visited /\ reachable' = reachable
      /\ toVisit' = toVisit /\ items \in Seq(Item)
  BY DEF Rescanned, NothingToVisit, PruneTypeOK
<1>2. \A i : OnStack(i)' <=> OnStack(i)
  BY <1>1 DEF OnStack
<1>3. phase = "rescan" => \A i \in Positions : i < scan
  BY <1>1, LenProperties DEF Rescanned, NothingToVisit, PruneTypeOK, Positions
<1>4. PruneTypeOK'
  BY <1>1, SameModule DEF PruneTypeOK
<1>5. StackShape' /\ RootsReached' /\ LeastShape'
  BY <1>1, <1>2, SameModule DEF StackShape, RootsReached, LeastShape
<1>6. VisitedShape'
  BY <1>1, <1>2, SameModule DEF VisitedShape
<1>7. WaitingShape'
  BY <1>1, <1>2, <1>3, SameModule DEF WaitingShape
<1>8. KeptShape'
  BY <1>1 DEF KeptShape, Rescanned, NothingToVisit
<1> QED
  BY <1>1, <1>4, <1>5, <1>6, <1>7, <1>8 DEF RootsShape

LEMMA StutterKeeps == PruneInv /\ UNCHANGED pruneVars => PruneInv'
<1> SUFFICES ASSUME PruneInv, UNCHANGED pruneVars PROVE PruneInv'
  OBVIOUS
<1> USE DEF PruneInv
<1>1. /\ phase' = phase /\ scan' = scan /\ items' = items /\ visited' = visited
      /\ reachable' = reachable /\ toVisit' = toVisit
  BY DEF pruneVars
<1>2. \A i : OnStack(i)' <=> OnStack(i)
  BY <1>1 DEF OnStack
<1>3. PruneTypeOK' /\ KeptShape' /\ LeastShape'
  BY <1>1, SameModule DEF PruneTypeOK, KeptShape, LeastShape
<1>4. StackShape' /\ RootsReached' /\ VisitedShape' /\ WaitingShape'
  BY <1>1, <1>2, SameModule DEF StackShape, RootsReached, VisitedShape, WaitingShape
<1>5. RootsShape'
  BY <1>1, <1>2, SameModule DEF RootsShape
<1> QED
  BY <1>3, <1>4, <1>5

LEMMA PruneKeeps == PruneInv /\ [PruneNext]_pruneVars => PruneInv'
  BY CollectRootKeeps, RootsCollectedKeeps, VisitKeeps, RescanKeeps, RoundEndKeeps, StutterKeeps
     DEF PruneNext

LEMMA PruneInvMeans == PruneInv => KeepsExactlyReachable
<1> SUFFICES ASSUME PruneInv, phase = "kept"
             PROVE  /\ RootsAgree => ClosedUnderCalls(reachable)
                    /\ \A S \in SUBSET Mentioned : ClosedUnderCalls(S) => reachable \subseteq S
  BY DEF KeepsExactlyReachable
<1> USE DEF PruneInv
<1>1. \A i : ~OnStack(i)
  BY NothingOnEmpty DEF KeptShape, OnStack
<1>2. ASSUME RootsAgree, NEW i \in Positions, IsDefine(i), Name(i) \in reachable
      PROVE  items[i].calls \subseteq reachable
  <2>1. Name(i) \in visited
    BY <1>1, <1>2 DEF WaitingShape
  <2> QED
    BY <1>1, <1>2, <2>1 DEF VisitedShape
<1> QED
  BY <1>2 DEF ClosedUnderCalls, RootsReached, LeastShape, Name

-----------------------------------------------------------------------------
THEOREM Invariant == PruneSpec => []PruneInv
  BY InitHolds, PruneKeeps, PTL DEF PruneSpec

(* The worklist of prune_dead_code stays well formed: its stack holds      *)
(* positions of the module, its scans stay within it.                      *)
THEOREM WorklistTyped == PruneSpec => []PruneTypeOK
<1>1. PruneInv => PruneTypeOK
  BY DEF PruneInv
<1> QED
  BY Invariant, <1>1, PTL

(* prune_dead_code keeps exactly what the roots reach, for every module:   *)
(* what is kept is closed under calls, and nothing is kept that is not in  *)
(* every set closed under calls.                                           *)
THEOREM KeepsReachable == PruneSpec => []KeepsExactlyReachable
  BY Invariant, PruneInvMeans, PTL
=============================================================================
