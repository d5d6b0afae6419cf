------------------------------ MODULE TaskProofs -----------------------------
(***************************************************************************)
(* What threads hand to one another is not lost on the way, for any number *)
(* of threads and any program: the tasks, that any thread runs on top of   *)
(* what it does and any panic may discard, and the JSON cells, that a task *)
(* returns to a thread that did not parse them.                            *)
(*                                                                         *)
(* For the tasks, the places of each are counted: the frames and the queue *)
(* hold every task that is not done exactly once.  For the cells it is     *)
(* what a registry may hold by mistake that has to be known: an entry that *)
(* another thread should have removed, and no other, may be there twice.   *)
(***************************************************************************)
EXTENDS UnwindingProofs, WellFoundedInduction

\* Where a stack has the frame of a task, and what its frames have forked.
TaskAt(s, i, k) == i \in 1 .. Len(s) /\ s[i].kind = "task" /\ s[i].id = k
ForkedIn(s, k)  == \E i \in 1 .. Len(s) : k \in s[i].forked

Ended == DOMAIN result \cup cut

BornNumbered == born = 1 .. Cardinality(born) /\ Ended \subseteq born \cup {0}
QueuedOnce   == \A i, j \in 1 .. Len(queue) : queue[i] = queue[j] => i = j
QueuedWaits  == \A i \in 1 .. Len(queue) :
                  /\ queue[i] \in born \ Ended
                  /\ \A t \in Threads : \A p : ~TaskAt(stack[t], p, queue[i])
RunningLives == \A t \in Threads : \A p, k : TaskAt(stack[t], p, k) /\ k # 0 => k \in born \ Ended
RunsOnce     == \A t, u \in Threads : \A p, q, k :
                  TaskAt(stack[t], p, k) /\ TaskAt(stack[u], q, k) => t = u /\ p = q
Somewhere    == \A k \in born \ Ended : \/ \E i \in 1 .. Len(queue) : queue[i] = k
                                        \/ \E t \in Threads : \E p : TaskAt(stack[t], p, k)
HasForker    == \A k \in born \ (DOMAIN result \cup orphaned) :
                  \E t \in Threads : ForkedIn(stack[t], k)
TaskBelow    == \A t \in Threads : stack[t] # <<>> => \E k : TaskAt(stack[t], 1, k)

StructInv == /\ BornNumbered /\ QueuedOnce /\ QueuedWaits /\ RunningLives
             /\ RunsOnce /\ Somewhere /\ HasForker /\ TaskBelow

-----------------------------------------------------------------------------
LEMMA TasksPush ==
  ASSUME NEW s \in Seq(FrameType), NEW f \in FrameType
  PROVE  /\ \A i, k : TaskAt(Append(s, f), i, k) <=>
                        TaskAt(s, i, k) \/ (i = Len(s) + 1 /\ f.kind = "task" /\ f.id = k)
         /\ \A k : ForkedIn(Append(s, f), k) <=> ForkedIn(s, k) \/ k \in f.forked
<1> DEFINE u == Append(s, f)
           n == Len(s)
<1>1. n \in Nat /\ Len(u) = n + 1 /\ u[n + 1] = f /\ \A i \in 1 .. n : u[i] = s[i]
  BY AppendProperties, LenProperties
<1>2. \A i : i \in 1 .. n + 1 <=> i \in 1 .. n \/ i = n + 1
  BY <1>1
<1>3. n + 1 \notin 1 .. n
  BY <1>1
<1> HIDE DEF u
<1>4. ASSUME NEW i, NEW k
      PROVE  TaskAt(u, i, k) <=> TaskAt(s, i, k) \/ (i = n + 1 /\ f.kind = "task" /\ f.id = k)
  <2>1. CASE i = n + 1
    BY <1>1, <1>2, <1>3, <2>1 DEF TaskAt
  <2>2. CASE i # n + 1
    BY <1>1, <1>2, <2>2 DEF TaskAt
  <2> QED
    BY <2>1, <2>2
<1>5. ASSUME NEW k PROVE ForkedIn(u, k) <=> ForkedIn(s, k) \/ k \in f.forked
  BY <1>1, <1>2 DEF ForkedIn
<1> QED
  BY <1>4, <1>5 DEF u

LEMMA TasksCut ==
  ASSUME NEW s \in Seq(FrameType), NEW n \in 0 .. Len(s)
  PROVE  /\ \A i, k : TaskAt(SubSeq(s, 1, n), i, k) <=> TaskAt(s, i, k) /\ i \in 1 .. n
         /\ \A k : ForkedIn(SubSeq(s, 1, n), k) <=> \E i \in 1 .. n : k \in s[i].forked
<1> DEFINE u == SubSeq(s, 1, n)
<1>1. Len(s) \in Nat /\ Len(u) = n /\ \A i \in 1 .. n : u[i] = s[i]
  BY Prefix, LenProperties
<1>2. \A i \in 1 .. n : i \in 1 .. Len(s)
  BY <1>1
<1> HIDE DEF u
<1>3. \A i, k : TaskAt(u, i, k) <=> TaskAt(s, i, k) /\ i \in 1 .. n
  BY <1>1, <1>2 DEF TaskAt
<1>4. \A k : ForkedIn(u, k) <=> \E i \in 1 .. n : k \in s[i].forked
  BY <1>1 DEF ForkedIn
<1> QED
  BY <1>3, <1>4 DEF u

LEMMA TasksTop ==
  ASSUME UnwindingInv, NEW t \in Threads, stack[t] # <<>>,
         NEW f \in FrameType, f.kind = Top(t).kind, f.id = Top(t).id
  PROVE  /\ \A i, k : TaskAt(Topped(t, f), i, k) <=> TaskAt(stack[t], i, k)
         /\ \A k : k \in f.forked => ForkedIn(Topped(t, f), k)
         /\ \A k : ForkedIn(stack[t], k) => ForkedIn(Topped(t, f), k) \/ k \in Top(t).forked
<1> DEFINE s == stack[t]
           u == Topped(t, f)
           n == Len(s)
<1>1. s \in Seq(FrameType)
  BY InvMatch
<1>2. n \in 1 .. n
  BY <1>1, EmptySeq, LenProperties
<1>3. Len(u) = n /\ \A i \in 1 .. n : u[i] = IF i = n THEN f ELSE s[i]
  BY <1>1, <1>2, ExceptSeq DEF Topped
<1>4. Top(t) = s[n]
  BY DEF Top, Last
<1> HIDE DEF u, s, n
<1>5. \A i, k : TaskAt(u, i, k) <=> TaskAt(s, i, k)
  BY <1>3, <1>4 DEF TaskAt, n
<1>6. \A k : k \in f.forked => ForkedIn(u, k)
  BY <1>2, <1>3 DEF ForkedIn, n
<1>7. ASSUME NEW k, ForkedIn(s, k) PROVE ForkedIn(u, k) \/ k \in s[n].forked
  <2>1. PICK i \in 1 .. n : k \in s[i].forked
    BY <1>7 DEF ForkedIn, n
  <2>2. CASE i # n
    BY <1>3, <2>1, <2>2 DEF ForkedIn, n
  <2>3. CASE i = n
    BY <2>1, <2>3
  <2> QED
    BY <2>2, <2>3
<1> QED
  BY <1>4, <1>5, <1>6, <1>7 DEF u, s

-----------------------------------------------------------------------------
\* What the stacks of a step look like.
LEMMA Stacks ==
  ASSUME UnwindingInv, NEW t \in Threads, NEW s, stack' = [stack EXCEPT ![t] = s]
  PROVE  stack'[t] = s /\ \A u \in Threads : u # t => stack'[u] = stack[u]
  BY DEF UnwindingInv, StackTyped

LEMMA OneFrame ==
  ASSUME StructInv, NEW t \in Threads, NEW u \in Threads, NEW p, NEW q, NEW k,
         TaskAt(stack[t], p, k), TaskAt(stack[u], q, k)
  PROVE  t = u /\ p = q
  BY DEF StructInv, RunsOnce

\* No task gets a second frame when frames only go.
LEMMA FewerFrames ==
  ASSUME StructInv, \A u \in Threads : \A i, k : TaskAt(stack'[u], i, k) => TaskAt(stack[u], i, k)
  PROVE  RunsOnce'
  BY OneFrame DEF RunsOnce

\* A step that leaves the tasks where they are.
LEMMA StructSame ==
  ASSUME UnwindingInv, StructInv, NEW t \in Threads, NEW s, stack' = [stack EXCEPT ![t] = s],
         \A i, k : TaskAt(s, i, k) <=> TaskAt(stack[t], i, k),
         \A k : ForkedIn(stack[t], k) => ForkedIn(s, k) \/ k \in DOMAIN result,
         s # <<>> => stack[t] # <<>>,
         UNCHANGED taskVars
  PROVE  StructInv'
<1>1. stack'[t] = s /\ \A u \in Threads : u # t => stack'[u] = stack[u]
  BY Stacks
<1>2. \A u \in Threads : \A i, k : TaskAt(stack'[u], i, k) <=> TaskAt(stack[u], i, k)
  BY <1>1
<1>3. UNCHANGED <<queue, result, born, orphaned, cut>>
  BY DEF taskVars
<1>4. Ended' = Ended
  BY <1>3 DEF Ended
<1>5. (BornNumbered /\ QueuedOnce)'
  BY <1>3, <1>4 DEF StructInv, BornNumbered, QueuedOnce
<1>10. Somewhere'
  BY <1>2, <1>3, <1>4 DEF StructInv, Somewhere
<1>6. QueuedWaits'
  BY <1>2, <1>3, <1>4 DEF StructInv, QueuedWaits
<1>7. (RunningLives /\ RunsOnce)'
  <2>1. RunningLives'
    BY <1>2, <1>3, <1>4 DEF StructInv, RunningLives
  <2>2. RunsOnce'
    BY <1>2, FewerFrames
  <2> QED
    BY <2>1, <2>2
<1>8. HasForker'
  <2> SUFFICES ASSUME NEW k \in born, k \notin DOMAIN result \cup orphaned
               PROVE  \E u \in Threads : ForkedIn(stack'[u], k)
    BY <1>3 DEF HasForker
  <2>1. PICK u \in Threads : ForkedIn(stack[u], k)
    BY DEF StructInv, HasForker
  <2> QED
    BY <1>1, <2>1
<1>9. TaskBelow'
  BY <1>1, <1>2 DEF StructInv, TaskBelow
<1> QED
  BY <1>5, <1>6, <1>7, <1>8, <1>9, <1>10 DEF StructInv

LEMMA ForkStructure ==
  ASSUME UnwindingInv, StructInv, NEW t \in Threads, Fork(t)
  PROVE  StructInv'
<1> DEFINE n == Cardinality(born)
           s == Topped(t, Forking(t))
<1>1. n \in Nat /\ IsFiniteSet(born)
  BY FS_CardinalityType DEF UnwindingInv, TasksTyped
<1>2. /\ born' = born \cup {n + 1} /\ queue' = Append(queue, n + 1)
      /\ UNCHANGED <<result, cut, orphaned>>
  BY DEF Fork
<1>3. /\ stack[t] # <<>> /\ stack' = [stack EXCEPT ![t] = s]
      /\ Forking(t) \in FrameType /\ Forking(t).kind = Top(t).kind /\ Forking(t).id = Top(t).id
  BY ForkMoves
<1>4. Forking(t).forked = Top(t).forked \cup {n + 1}
  BY <1>3, TopTyped DEF Forking, FrameType
<1>5. /\ \A i, k : TaskAt(s, i, k) <=> TaskAt(stack[t], i, k)
      /\ ForkedIn(s, n + 1)
      /\ \A k : ForkedIn(stack[t], k) => ForkedIn(s, k)
  BY <1>3, <1>4, TasksTop
<1> HIDE DEF n, s
<1>6. stack'[t] = s /\ \A u \in Threads : u # t => stack'[u] = stack[u]
  BY <1>3, Stacks
<1>7. \A u \in Threads : \A i, k : TaskAt(stack'[u], i, k) <=> TaskAt(stack[u], i, k)
  BY <1>5, <1>6
<1>8. n + 1 \notin born /\ n + 1 # 0 /\ n + 1 \notin Ended
  BY <1>1 DEF StructInv, BornNumbered, n
<1>9. Ended' = Ended
  BY <1>2 DEF Ended
<1>10. /\ Len(queue) \in Nat /\ Len(queue') = Len(queue) + 1 /\ queue'[Len(queue) + 1] = n + 1
       /\ \A i \in 1 .. Len(queue) : queue'[i] = queue[i]
  <2>1. queue \in Seq(Nat)
    BY DEF UnwindingInv, TasksTyped
  <2> QED
    BY <1>1, <1>2, <2>1, AppendProperties, LenProperties
<1>11. \A i : i \in 1 .. Len(queue') <=> i \in 1 .. Len(queue) \/ i = Len(queue) + 1
  BY <1>10
<1>12. BornNumbered'
  <2>1. Cardinality(born') = n + 1
    BY <1>1, <1>2, <1>8, FS_AddElement DEF n
  <2>2. 1 .. n + 1 = 1 .. n \cup {n + 1}
    BY <1>1
  <2> QED
    BY <1>2, <1>9, <2>1, <2>2 DEF StructInv, BornNumbered, n
<1>13. \A t1 \in Threads : \A p : ~TaskAt(stack[t1], p, n + 1)
  BY <1>8 DEF StructInv, RunningLives
<1>14. QueuedOnce'
  <2>1. \A i \in 1 .. Len(queue) : queue[i] # n + 1
    BY <1>8 DEF StructInv, QueuedWaits
  <2> QED
    BY <1>10, <1>11, <2>1 DEF StructInv, QueuedOnce
<1>15. QueuedWaits'
  <2> SUFFICES ASSUME NEW i \in 1 .. Len(queue')
               PROVE  /\ queue'[i] \in born' \ Ended'
                      /\ \A u \in Threads : \A p : ~TaskAt(stack'[u], p, queue'[i])
    BY DEF QueuedWaits
  <2>1. CASE i \in 1 .. Len(queue)
    BY <1>2, <1>7, <1>9, <1>10, <2>1 DEF StructInv, QueuedWaits
  <2>2. CASE i = Len(queue) + 1
    BY <1>2, <1>7, <1>8, <1>9, <1>10, <1>13, <2>2
  <2> QED
    BY <1>11, <2>1, <2>2
<1>16. (RunningLives /\ RunsOnce)'
  <2>1. RunningLives'
    BY <1>2, <1>7, <1>9 DEF StructInv, RunningLives
  <2>2. RunsOnce'
    BY <1>7, FewerFrames
  <2> QED
    BY <2>1, <2>2
<1>17. Somewhere'
  <2> SUFFICES ASSUME NEW k \in born' \ Ended'
               PROVE  \/ \E i \in 1 .. Len(queue') : queue'[i] = k
                      \/ \E u \in Threads : \E p : TaskAt(stack'[u], p, k)
    BY DEF Somewhere
  <2>1. CASE k = n + 1
    BY <1>10, <1>11, <2>1
  <2>2. CASE \E i \in 1 .. Len(queue) : queue[i] = k
    BY <1>10, <1>11, <2>2
  <2>3. CASE \E u \in Threads : \E p : TaskAt(stack[u], p, k)
    BY <1>7, <2>3
  <2> QED
    BY <1>2, <1>9, <2>1, <2>2, <2>3 DEF StructInv, Somewhere
<1>18. HasForker'
  <2> SUFFICES ASSUME NEW k \in born', k \notin DOMAIN result \cup orphaned
               PROVE  \E u \in Threads : ForkedIn(stack'[u], k)
    BY <1>2 DEF HasForker
  <2>1. CASE k = n + 1
    BY <1>5, <1>6, <2>1
  <2>2. CASE k # n + 1
    <3>1. PICK u \in Threads : ForkedIn(stack[u], k)
      BY <1>2, <2>2 DEF StructInv, HasForker
    <3> QED
      BY <1>5, <1>6, <3>1
  <2> QED
    BY <2>1, <2>2
<1>19. TaskBelow'
  BY <1>3, <1>6, <1>7 DEF StructInv, TaskBelow
<1> QED
  BY <1>12, <1>14, <1>15, <1>16, <1>17, <1>18, <1>19 DEF StructInv

LEMMA RunStructure ==
  ASSUME UnwindingInv, StructInv, NEW t \in Threads, RunTask(t)
  PROVE  StructInv'
<1> DEFINE k == Head(queue)
           f == Frame("task", k)
           s == Append(stack[t], f)
           m == Len(stack[t])
<1>1. queue \in Seq(Nat) /\ queue # <<>> /\ queue' = Tail(queue) /\ stack[t] \in Seq(FrameType)
  BY InvMatch DEF RunTask, UnwindingInv, TasksTyped
<1>2. /\ k = queue[1] /\ k \in Nat /\ Len(queue) \in Nat /\ 1 \in 1 .. Len(queue)
      /\ Len(queue') = Len(queue) - 1
      /\ \A i \in 1 .. Len(queue) - 1 : queue'[i] = queue[i + 1]
  BY <1>1, HeadTailProperties, EmptySeq, LenProperties
<1>3. \A i \in 1 .. Len(queue') : i + 1 \in 1 .. Len(queue) /\ i + 1 # 1
  BY <1>2
<1>4. f \in FrameType /\ f.kind = "task" /\ f.id = k /\ f.forked = {}
  BY <1>2 DEF Frame, FrameType, Kinds, Id
<1>5. stack' = [stack EXCEPT ![t] = s]
  BY DEF RunTask, Push
<1>6. UNCHANGED <<born, result, cut, orphaned>> /\ Ended' = Ended
  BY DEF RunTask, Ended
<1> HIDE DEF k, f
<1>7. /\ \A i, j : TaskAt(s, i, j) <=> TaskAt(stack[t], i, j) \/ (i = m + 1 /\ j = k)
      /\ \A j : ForkedIn(s, j) <=> ForkedIn(stack[t], j)
  BY <1>1, <1>4, TasksPush
<1> HIDE DEF s, m
<1>8. stack'[t] = s /\ \A u \in Threads : u # t => stack'[u] = stack[u]
  BY <1>5, Stacks
<1>9. \A u \in Threads : \A i, j : TaskAt(stack'[u], i, j) <=>
        TaskAt(stack[u], i, j) \/ (u = t /\ i = m + 1 /\ j = k)
  BY <1>7, <1>8
<1>10. k \in born \ Ended /\ \A u \in Threads : \A p : ~TaskAt(stack[u], p, k)
  BY <1>2 DEF StructInv, QueuedWaits
<1>11. BornNumbered'
  BY <1>6 DEF StructInv, BornNumbered
<1>12. QueuedOnce'
  <2> SUFFICES ASSUME NEW i \in 1 .. Len(queue'), NEW j \in 1 .. Len(queue'), queue'[i] = queue'[j]
               PROVE  i = j
    BY DEF QueuedOnce
  <2>1. queue[i + 1] = queue[j + 1] /\ i + 1 \in 1 .. Len(queue) /\ j + 1 \in 1 .. Len(queue)
    BY <1>2, <1>3
  <2>2. i + 1 = j + 1
    BY <2>1 DEF StructInv, QueuedOnce
  <2> QED
    BY <2>2
<1>13. QueuedWaits'
  <2> SUFFICES ASSUME NEW i \in 1 .. Len(queue')
               PROVE  /\ queue'[i] \in born' \ Ended'
                      /\ \A u \in Threads : \A p : ~TaskAt(stack'[u], p, queue'[i])
    BY DEF QueuedWaits
  <2>1. queue'[i] = queue[i + 1] /\ i + 1 \in 1 .. Len(queue) /\ i + 1 # 1
    BY <1>2, <1>3
  <2>2. queue'[i] # k
    BY <1>2, <2>1 DEF StructInv, QueuedOnce
  <2> QED
    BY <1>6, <1>9, <2>1, <2>2 DEF StructInv, QueuedWaits
<1>14. RunningLives'
  BY <1>6, <1>9, <1>10 DEF StructInv, RunningLives
<1>15. RunsOnce'
  <2> SUFFICES ASSUME NEW u \in Threads, NEW v \in Threads, NEW i, NEW l, NEW j,
                      TaskAt(stack'[u], i, j), TaskAt(stack'[v], l, j)
               PROVE  u = v /\ i = l
    BY DEF RunsOnce
  <2>1. CASE j = k
    BY <1>9, <1>10, <2>1
  <2>2. CASE j # k
    <3>1. TaskAt(stack[u], i, j) /\ TaskAt(stack[v], l, j)
      BY <1>9, <2>2
    <3> QED
      BY <3>1, OneFrame
  <2> QED
    BY <2>1, <2>2
<1>16. Somewhere'
  <2> SUFFICES ASSUME NEW j \in born \ Ended
               PROVE  \/ \E i \in 1 .. Len(queue') : queue'[i] = j
                      \/ \E u \in Threads : \E p : TaskAt(stack'[u], p, j)
    BY <1>6 DEF Somewhere
  <2>1. CASE j = k
    BY <1>9, <2>1
  <2>2. CASE \E u \in Threads : \E p : TaskAt(stack[u], p, j)
    BY <1>9, <2>2
  <2>3. ASSUME NEW i \in 1 .. Len(queue), queue[i] = j, j # k
        PROVE  \E l \in 1 .. Len(queue') : queue'[l] = j
    <3>1. i - 1 \in 1 .. Len(queue') /\ queue'[i - 1] = queue[i]
      BY <1>2, <2>3
    <3> QED
      BY <2>3, <3>1
  <2> QED
    BY <2>1, <2>2, <2>3 DEF StructInv, Somewhere
<1>17. HasForker'
  BY <1>6, <1>7, <1>8 DEF StructInv, HasForker
<1>18. TaskBelow'
  <2> SUFFICES ASSUME NEW u \in Threads, stack'[u] # <<>> PROVE \E j : TaskAt(stack'[u], 1, j)
    BY DEF TaskBelow
  <2>1. CASE stack[u] # <<>>
    BY <1>9, <2>1 DEF StructInv, TaskBelow
  <2>2. CASE stack[u] = <<>>
    <3>1. u = t
      BY <1>8, <2>2
    <3>2. m + 1 = 1
      BY <2>2, <3>1 DEF m
    <3> QED
      BY <1>9, <3>1, <3>2
  <2> QED
    BY <2>1, <2>2
<1> QED
  BY <1>11, <1>12, <1>13, <1>14, <1>15, <1>16, <1>17, <1>18 DEF StructInv

\* The task k is done: its frame, at p, goes, with what is above it.
LEMMA DoneStructure ==
  ASSUME UnwindingInv, StructInv, NEW t \in Threads, NEW n \in 0 .. Len(stack[t]),
         stack' = [stack EXCEPT ![t] = SubSeq(stack[t], 1, n)],
         NEW p, NEW k, TaskAt(stack[t], p, k), p \notin 1 .. n,
         \A i, j : TaskAt(stack[t], i, j) /\ i \notin 1 .. n => i = p,
         \A i \in n + 1 .. Len(stack[t]) : stack[t][i].forked = {},
         DOMAIN result' = DOMAIN result \cup {k},
         UNCHANGED <<queue, born, cut, orphaned>>
  PROVE  StructInv'
<1> DEFINE s == SubSeq(stack[t], 1, n)
<1>1. stack[t] \in Seq(FrameType) /\ Len(stack[t]) \in Nat
  BY InvMatch, LenProperties
<1>2. /\ \A i, j : TaskAt(s, i, j) <=> TaskAt(stack[t], i, j) /\ i \in 1 .. n
      /\ \A j : ForkedIn(s, j) <=> \E i \in 1 .. n : j \in stack[t][i].forked
  BY <1>1, TasksCut
<1>3. \A j : ForkedIn(stack[t], j) => ForkedIn(s, j)
  <2>1. \A i \in 1 .. Len(stack[t]) : i \in 1 .. n \/ i \in n + 1 .. Len(stack[t])
    BY <1>1
  <2> QED
    BY <1>2, <2>1 DEF ForkedIn
<1>4. stack'[t] = s /\ \A u \in Threads : u # t => stack'[u] = stack[u]
  BY Stacks
<1>5. s # <<>> => stack[t] # <<>> /\ 1 \in 1 .. n
  <2>1. Len(s) = n
    BY <1>1, Prefix
  <2> QED
    BY <1>1, <2>1
<1> HIDE DEF s
<1>6. \A u \in Threads : \A i, j : TaskAt(stack'[u], i, j) <=>
        TaskAt(stack[u], i, j) /\ (u = t => i \in 1 .. n)
  BY <1>2, <1>4
<1>7. \A u \in Threads : \A i : ~TaskAt(stack'[u], i, k)
  <2> SUFFICES ASSUME NEW u \in Threads, NEW i, TaskAt(stack'[u], i, k) PROVE FALSE
    OBVIOUS
  <2>1. TaskAt(stack[u], i, k) /\ (u = t => i \in 1 .. n)
    BY <1>6
  <2>2. u = t /\ i = p
    BY <2>1, OneFrame
  <2> QED
    BY <2>1, <2>2
<1>8. Ended' = Ended \cup {k} /\ Ended \subseteq Ended'
  BY DEF Ended
<1>9. k \in born \cup {0}
  BY DEF StructInv, RunningLives
<1>10. \A i \in 1 .. Len(queue) : queue[i] # k
  BY DEF StructInv, QueuedWaits
<1>11. (BornNumbered /\ QueuedOnce)'
  BY <1>8, <1>9 DEF StructInv, BornNumbered, QueuedOnce
<1>12. QueuedWaits'
  BY <1>6, <1>8, <1>10 DEF StructInv, QueuedWaits
<1>13. RunningLives'
  <2> SUFFICES ASSUME NEW u \in Threads, NEW i, NEW j, TaskAt(stack'[u], i, j), j # 0
               PROVE  j \in born \ Ended'
    BY DEF RunningLives
  <2>1. TaskAt(stack[u], i, j) /\ j # k
    BY <1>6, <1>7
  <2> QED
    BY <1>8, <2>1 DEF StructInv, RunningLives
<1>14. RunsOnce'
  BY <1>6, FewerFrames
<1>15. Somewhere'
  <2> SUFFICES ASSUME NEW j \in born \ Ended, j # k
               PROVE  \/ \E i \in 1 .. Len(queue) : queue[i] = j
                      \/ \E u \in Threads : \E i : TaskAt(stack'[u], i, j)
    BY <1>8 DEF Somewhere
  <2>1. ASSUME NEW u \in Threads, NEW i, TaskAt(stack[u], i, j) PROVE TaskAt(stack'[u], i, j)
    <3>1. u = t => i # p
      BY <2>1 DEF TaskAt
    <3> QED
      BY <1>6, <2>1, <3>1
  <2> QED
    BY <2>1 DEF StructInv, Somewhere
<1>16. HasForker'
  BY <1>3, <1>4 DEF StructInv, HasForker
<1>17. TaskBelow'
  BY <1>4, <1>5, <1>6 DEF StructInv, TaskBelow
<1> QED
  BY <1>11, <1>12, <1>13, <1>14, <1>15, <1>16, <1>17 DEF StructInv

LEMMA PanicStructure ==
  ASSUME UnwindingInv, StructInv, NEW t \in Threads, Panic(t), traps[t] # <<>>
  PROVE  StructInv'
<1> DEFINE d == Last(traps[t])
           n == d - 1
           f == Frame("fallback", 0)
           s == Append(Below(t), f)
<1>1. /\ d \in 1 .. Len(stack[t]) /\ stack[t][d].kind = "try"
      /\ Below(t) \in Seq(FrameType) /\ f \in FrameType /\ f.kind = "fallback"
      /\ stack' = [stack EXCEPT ![t] = s]
  BY PanicMoves
<1>2. /\ cut' = cut \cup Tasks(t, d) /\ orphaned' = orphaned \cup Forks(t, d)
      /\ UNCHANGED <<queue, result, born>>
  BY DEF Panic
<1>3. stack[t] \in Seq(FrameType) /\ Len(stack[t]) \in Nat /\ DOMAIN stack[t] = 1 .. Len(stack[t])
  BY InvMatch, LenProperties
<1>4. f.forked = {}
  BY DEF Frame
<1> HIDE DEF d, f
<1>5. n \in 0 .. Len(stack[t])
  BY <1>1, <1>3
<1>6. \A i : i \in 1 .. Len(stack[t]) <=> i \in 1 .. n \/ i = d \/ i \in Discarded(t, d)
  BY <1>1, <1>3 DEF Discarded
<1>7. /\ \A i, k : TaskAt(Below(t), i, k) <=> TaskAt(stack[t], i, k) /\ i \in 1 .. n
      /\ \A k : ForkedIn(Below(t), k) <=> \E i \in 1 .. n : k \in stack[t][i].forked
  BY <1>3, <1>5, TasksCut DEF Below, d
<1> HIDE DEF n
<1>8. /\ \A i, k : TaskAt(s, i, k) <=> TaskAt(Below(t), i, k)
      /\ \A k : ForkedIn(s, k) <=> ForkedIn(Below(t), k)
  BY <1>1, <1>4, TasksPush
<1> HIDE DEF s
<1>9. stack'[t] = s /\ \A u \in Threads : u # t => stack'[u] = stack[u]
  BY <1>1, Stacks
<1>10. \A u \in Threads : \A i, k : TaskAt(stack'[u], i, k) <=>
         TaskAt(stack[u], i, k) /\ (u = t => i \in 1 .. n)
  BY <1>7, <1>8, <1>9
<1>11. \A k : k \in Tasks(t, d) <=> \E i \in Discarded(t, d) : TaskAt(stack[t], i, k)
  <2>1. Discarded(t, d) \subseteq 1 .. Len(stack[t])
    BY <1>6
  <2> QED
    BY <2>1 DEF Tasks, TaskAt
<1>12. \A i \in Discarded(t, d) : i \notin 1 .. n
  BY <1>1, <1>3 DEF Discarded, n
<1>13. \A u \in Threads : \A i, k : TaskAt(stack[u], i, k) =>
         TaskAt(stack'[u], i, k) \/ k \in Tasks(t, d)
  <2> SUFFICES ASSUME NEW i, NEW k, TaskAt(stack[t], i, k), i \notin 1 .. n
               PROVE  k \in Tasks(t, d)
    BY <1>10
  <2>1. i # d
    BY <1>1 DEF TaskAt
  <2>2. i \in Discarded(t, d)
    BY <1>6, <2>1 DEF TaskAt
  <2> QED
    BY <1>11, <2>2
<1>14. \A u \in Threads : \A i, k : TaskAt(stack'[u], i, k) => k \notin Tasks(t, d)
  <2> SUFFICES ASSUME NEW u \in Threads, NEW i, NEW k, TaskAt(stack'[u], i, k), k \in Tasks(t, d)
               PROVE  FALSE
    OBVIOUS
  <2>1. PICK j \in Discarded(t, d) : TaskAt(stack[t], j, k)
    BY <1>11
  <2>2. TaskAt(stack[u], i, k) /\ (u = t => i \in 1 .. n)
    BY <1>10
  <2>3. u = t /\ i = j
    BY <2>1, <2>2, OneFrame
  <2> QED
    BY <1>12, <2>1, <2>2, <2>3
<1>15. Ended' = Ended \cup Tasks(t, d)
  BY <1>2 DEF Ended
<1>16. BornNumbered'
  <2>1. \A k \in Tasks(t, d) : k \in born \cup {0}
    BY <1>11 DEF StructInv, RunningLives
  <2> QED
    BY <1>2, <1>15, <2>1 DEF StructInv, BornNumbered
<1>17. QueuedOnce'
  BY <1>2 DEF StructInv, QueuedOnce
<1>18. QueuedWaits'
  <2>1. \A i \in 1 .. Len(queue) : queue[i] \notin Tasks(t, d)
    BY <1>11 DEF StructInv, QueuedWaits
  <2> QED
    BY <1>2, <1>10, <1>15, <2>1 DEF StructInv, QueuedWaits
<1>19. RunningLives'
  <2> SUFFICES ASSUME NEW u \in Threads, NEW i, NEW k, TaskAt(stack'[u], i, k), k # 0
               PROVE  k \in born \ Ended'
    BY <1>2 DEF RunningLives
  <2>1. k \in born \ Ended
    BY <1>10 DEF StructInv, RunningLives
  <2> QED
    BY <1>14, <1>15, <2>1
<1>20. RunsOnce'
  BY <1>10, FewerFrames
<1>21. Somewhere'
  <2> SUFFICES ASSUME NEW k \in born \ Ended, k \notin Tasks(t, d)
               PROVE  \/ \E i \in 1 .. Len(queue) : queue[i] = k
                      \/ \E u \in Threads : \E i : TaskAt(stack'[u], i, k)
    BY <1>2, <1>15 DEF Somewhere
  <2> QED
    BY <1>13 DEF StructInv, Somewhere
<1>22. HasForker'
  <2> SUFFICES ASSUME NEW k \in born, k \notin DOMAIN result \cup orphaned, k \notin Forks(t, d)
               PROVE  \E u \in Threads : ForkedIn(stack'[u], k)
    BY <1>2 DEF HasForker
  <2>1. PICK u \in Threads : ForkedIn(stack[u], k)
    BY DEF StructInv, HasForker
  <2>2. CASE u = t
    <3>1. PICK i \in 1 .. Len(stack[t]) : k \in stack[t][i].forked
      BY <2>1, <2>2 DEF ForkedIn
    <3>2. i \in 1 .. n
      BY <1>6, <3>1 DEF Forks
    <3> QED
      BY <1>7, <1>8, <1>9, <3>1, <3>2
  <2>3. CASE u # t
    BY <1>9, <2>1, <2>3
  <2> QED
    BY <2>2, <2>3
<1>23. TaskBelow'
  <2> SUFFICES ASSUME NEW u \in Threads, stack'[u] # <<>> PROVE \E k : TaskAt(stack'[u], 1, k)
    BY DEF TaskBelow
  <2>1. CASE u # t
    BY <1>9, <2>1 DEF StructInv, TaskBelow
  <2>2. CASE u = t
    <3>1. PICK k : TaskAt(stack[t], 1, k)
      BY <1>1 DEF StructInv, TaskBelow
    <3>2. d # 1
      BY <1>1, <3>1 DEF TaskAt
    <3>3. 1 \in 1 .. n
      BY <1>1, <1>3, <3>2 DEF n
    <3> QED
      BY <1>10, <2>2, <3>1, <3>3
  <2> QED
    BY <2>1, <2>2
<1> QED
  BY <1>16, <1>17, <1>18, <1>19, <1>20, <1>21, <1>22, <1>23 DEF StructInv

-----------------------------------------------------------------------------
\* A frame that is no task's comes, or goes once it has joined what it forked.
LEMMA PushStructure ==
  ASSUME UnwindingInv, StructInv, NEW t \in Threads, NEW f \in FrameType, f.kind # "task",
         Push(t, f), stack[t] # <<>>, UNCHANGED taskVars
  PROVE  StructInv'
<1>1. stack[t] \in Seq(FrameType) /\ stack' = [stack EXCEPT ![t] = Append(stack[t], f)]
  BY InvMatch DEF Push
<1> QED
  BY <1>1, TasksPush, StructSame

LEMMA PopStructure ==
  ASSUME UnwindingInv, StructInv, NEW t \in Threads, stack[t] # <<>>,
         Top(t).kind # "task", Top(t).forked = {}, Pop(t), UNCHANGED taskVars
  PROVE  StructInv'
<1> DEFINE s == stack[t]
           n == Len(s) - 1
           u == SubSeq(s, 1, n)
<1>1. s \in Seq(FrameType)
  BY InvMatch
<1>2. n \in 0 .. Len(s) /\ \A i : i \in 1 .. Len(s) <=> i \in 1 .. n \/ i = Len(s)
  BY <1>1, EmptySeq, LenProperties
<1>3. stack' = [stack EXCEPT ![t] = u]
  BY DEF Pop, Front
<1>4. s[Len(s)].kind # "task" /\ s[Len(s)].forked = {}
  BY DEF Top, Last
<1>5. /\ \A i, k : TaskAt(u, i, k) <=> TaskAt(s, i, k) /\ i \in 1 .. n
      /\ \A k : ForkedIn(u, k) <=> \E i \in 1 .. n : k \in s[i].forked
  BY <1>1, <1>2, TasksCut
<1> HIDE DEF n, u
<1>6. \A i, k : TaskAt(u, i, k) <=> TaskAt(s, i, k)
  BY <1>2, <1>4, <1>5 DEF TaskAt
<1>7. \A k : ForkedIn(s, k) => ForkedIn(u, k)
  BY <1>2, <1>4, <1>5 DEF ForkedIn
<1> QED
  BY <1>3, <1>6, <1>7, StructSame

LEMMA JoinStructure ==
  ASSUME UnwindingInv, StructInv, NEW t \in Threads, StartJoin(t) \/ EndJoin(t)
  PROVE  StructInv'
<1>1. UNCHANGED taskVars
  BY DEF StartJoin, EndJoin
<1>2. CASE StartJoin(t)
  <2>1. PICK k \in Top(t).forked :
          /\ stack[t] # <<>> /\ Awaiting(t, k) \in FrameType
          /\ Awaiting(t, k).kind = Top(t).kind /\ Awaiting(t, k).id = Top(t).id
          /\ stack' = [stack EXCEPT ![t] = Topped(t, Awaiting(t, k))]
    BY <1>2, StartJoinMoves
  <2>2. Awaiting(t, k).forked = Top(t).forked
    BY <2>1, TopTyped DEF Awaiting, FrameType
  <2>3. /\ \A i, j : TaskAt(Topped(t, Awaiting(t, k)), i, j) <=> TaskAt(stack[t], i, j)
        /\ \A j : ForkedIn(stack[t], j) => ForkedIn(Topped(t, Awaiting(t, k)), j)
    BY <2>1, <2>2, TasksTop
  <2> QED
    BY <1>1, <2>1, <2>3, StructSame
<1>3. CASE EndJoin(t)
  <2> DEFINE s == Topped(t, Joined(t))
             k == Top(t).joining
             u == IF result[k] = 0 THEN s ELSE Append(s, Given(t))
  <2>1. /\ stack[t] # <<>> /\ k \in DOMAIN result /\ Joined(t) \in FrameType
        /\ Joined(t).kind = Top(t).kind /\ Joined(t).id = Top(t).id
        /\ Given(t) \in FrameType /\ Given(t).kind = "json"
        /\ stack' = [stack EXCEPT ![t] = u]
    BY <1>3, EndJoinMoves
  <2>2. Joined(t).forked = Top(t).forked \ {k}
    BY <2>1, TopTyped DEF Joined, FrameType
  <2>3. s \in Seq(FrameType)
    BY <2>1, TopMoves
  <2>4. /\ \A i, j : TaskAt(s, i, j) <=> TaskAt(stack[t], i, j)
        /\ \A j : ForkedIn(stack[t], j) => ForkedIn(s, j) \/ j \in DOMAIN result
    BY <2>1, <2>2, TasksTop
  <2> HIDE DEF s, k
  <2>5. /\ \A i, j : TaskAt(u, i, j) <=> TaskAt(s, i, j)
        /\ \A j : ForkedIn(s, j) => ForkedIn(u, j)
    BY <2>1, <2>3, TasksPush
  <2> HIDE DEF u
  <2> QED
    BY <1>1, <2>1, <2>4, <2>5, StructSame
<1> QED
  BY <1>2, <1>3

LEMMA FinishStructure ==
  ASSUME UnwindingInv, StructInv, NEW t \in Threads, FinishTask(t)
  PROVE  StructInv'
<1> DEFINE s == stack[t]
           m == Len(s)
           n == m - 1
           k == Top(t).id
<1>1. /\ s # <<>> /\ Top(t).kind = "task" /\ Top(t).forked = {}
      /\ stack' = [stack EXCEPT ![t] = SubSeq(s, 1, n)]
  BY DEF FinishTask, Leaving, Active, Busy, Pop, Front
<1>2. DOMAIN result' = DOMAIN result \cup {k} /\ UNCHANGED <<queue, born, cut, orphaned>>
  BY DEF FinishTask, Done
<1>3. s \in Seq(FrameType) /\ m \in Nat /\ m # 0
  BY <1>1, InvMatch, EmptySeq, LenProperties
<1>4. s[m].kind = "task" /\ s[m].id = k /\ s[m].forked = {}
  BY <1>1 DEF Top, Last
<1>5. /\ n \in 0 .. m /\ m \in 1 .. m /\ m \notin 1 .. n
      /\ \A i : i \in 1 .. m /\ i \notin 1 .. n => i = m
      /\ \A i \in n + 1 .. m : i = m
  BY <1>3
<1> HIDE DEF n, k
<1>6. TaskAt(s, m, k) /\ \A i, j : TaskAt(s, i, j) /\ i \notin 1 .. n => i = m
  BY <1>4, <1>5 DEF TaskAt
<1>7. \A i \in n + 1 .. m : s[i].forked = {}
  BY <1>4, <1>5
<1> QED
  BY <1>1, <1>2, <1>5, <1>6, <1>7, DoneStructure

LEMMA ReturnStructure ==
  ASSUME UnwindingInv, StructInv, NEW t \in Threads, ReturnJson(t)
  PROVE  StructInv'
<1> DEFINE s == stack[t]
           m == Len(s)
           n == m - 2
           p == m - 1
           k == s[p].id
<1>1. /\ s # <<>> /\ Top(t).kind = "json" /\ Top(t).forked = {}
      /\ s[m - 1].kind = "task" /\ s[m - 1].forked = {}
      /\ stack' = [stack EXCEPT ![t] = SubSeq(s, 1, n)]
  BY DEF ReturnJson, Leaving, Active, Busy
<1>2. DOMAIN result' = DOMAIN result \cup {k} /\ UNCHANGED <<queue, born, cut, orphaned>>
  BY DEF ReturnJson, Done
<1>3. s \in Seq(FrameType) /\ m \in Nat /\ m # 0
  BY <1>1, InvMatch, EmptySeq, LenProperties
<1>4. s[m].kind = "json" /\ s[m].forked = {}
  BY <1>1 DEF Top, Last
<1>5. m # 1
  <2>1. \E j : TaskAt(s, 1, j)
    BY <1>1 DEF StructInv, TaskBelow
  <2>2. s[1].kind = "task"
    BY <2>1 DEF TaskAt
  <2> QED
    BY <1>4, <2>2
<1>6. /\ n \in 0 .. m /\ p \in 1 .. m /\ p \notin 1 .. n
      /\ \A i : i \in 1 .. m /\ i \notin 1 .. n => i = m \/ i = p
      /\ \A i \in n + 1 .. m : i = m \/ i = p
  <2>1. m \in Nat /\ m # 0 /\ m # 1
    BY <1>3, <1>5
  <2> HIDE DEF m, s
  <2> QED
    BY <2>1
<1>7. s[p].kind = "task" /\ s[p].id = k /\ s[p].forked = {}
  BY <1>1
<1> HIDE DEF n, p, k
<1>8. TaskAt(s, p, k) /\ \A i, j : TaskAt(s, i, j) /\ i \notin 1 .. n => i = p
  BY <1>4, <1>6, <1>7 DEF TaskAt
<1>9. \A i \in n + 1 .. m : s[i].forked = {}
  BY <1>4, <1>6, <1>7
<1> QED
  BY <1>1, <1>2, <1>6, <1>8, <1>9, DoneStructure

LEMMA StructInit == Init => StructInv
<1> SUFFICES ASSUME Init PROVE StructInv
  OBVIOUS
<1>1. /\ born = {} /\ Ended = {} /\ queue = <<>> /\ Len(queue) = 0
      /\ \A t \in Threads : stack[t] = IF t = Main THEN <<Frame("task", 0)>> ELSE <<>>
  BY DEF Init, Ended
<1>2. \A t \in Threads : \A i, k : TaskAt(stack[t], i, k) <=> t = Main /\ i = 1 /\ k = 0
  <2> SUFFICES ASSUME NEW t \in Threads, NEW i, NEW k
               PROVE  TaskAt(stack[t], i, k) <=> t = Main /\ i = 1 /\ k = 0
    OBVIOUS
  <2>1. CASE t = Main
    <3>1. Len(stack[t]) = 1 /\ stack[t][1] = Frame("task", 0)
      BY <1>1, <2>1
    <3>2. i \in 1 .. 1 <=> i = 1
      OBVIOUS
    <3> QED
      BY <2>1, <3>1, <3>2 DEF TaskAt, Frame
  <2>2. CASE t # Main
    <3>1. Len(stack[t]) = 0
      BY <1>1, <2>2
    <3> QED
      BY <2>2, <3>1 DEF TaskAt
  <2> QED
    BY <2>1, <2>2
<1>3. BornNumbered
  <2>1. Cardinality(born) = 0 /\ 1 .. 0 = {}
    BY <1>1, FS_EmptySet
  <2> QED
    BY <1>1, <2>1 DEF BornNumbered
<1>4. QueuedOnce /\ QueuedWaits /\ Somewhere /\ HasForker
  BY <1>1 DEF QueuedOnce, QueuedWaits, Somewhere, HasForker
<1>5. RunningLives /\ RunsOnce /\ TaskBelow
  <2>1. RunningLives
    BY <1>2 DEF RunningLives
  <2>2. RunsOnce
    <3> SUFFICES ASSUME NEW t \in Threads, NEW u \in Threads, NEW p, NEW q, NEW k,
                        TaskAt(stack[t], p, k), TaskAt(stack[u], q, k)
                 PROVE  t = u /\ p = q
      BY DEF RunsOnce
    <3>1. t = Main /\ p = 1 /\ u = Main /\ q = 1
      BY <1>2
    <3> QED
      BY <3>1
  <2>3. TaskBelow
    BY <1>1, <1>2 DEF TaskBelow
  <2> QED
    BY <2>1, <2>2, <2>3
<1> QED
  BY <1>3, <1>4, <1>5 DEF StructInv

LEMMA StructNext == UnwindingInv /\ StructInv /\ [Next]_vars => StructInv'
<1> SUFFICES ASSUME UnwindingInv, StructInv, [Next]_vars PROVE StructInv'
  OBVIOUS
<1>1. ASSUME NEW t \in Threads, Step(t) PROVE StructInv'
  <2>1. CASE Fork(t)
    BY <2>1, ForkStructure
  <2>2. CASE Work(t) \/ Help(t)
    BY <2>2, RunStructure DEF Work, Help
  <2>3. CASE StartJoin(t) \/ EndJoin(t)
    BY <2>3, JoinStructure
  <2>4. CASE FinishTask(t)
    BY <2>4, FinishStructure
  <2>5. CASE ReturnJson(t)
    BY <2>5, ReturnStructure
  <2>6. CASE OpenTry(t) \/ EnterSpan(t) \/ \E a \in Addresses : ParseJson(t, a)
    <3>1. stack[t] # <<>> /\ UNCHANGED taskVars
      BY <2>6 DEF OpenTry, EnterSpan, ParseJson, Active, Busy
    <3>2. PICK f : f \in FrameType /\ f.kind # "task" /\ Push(t, f)
      <4>1. left.span \in Nat
        BY DEF UnwindingInv, TasksTyped, Operations
      <4>2. /\ Frame("try", 0) \in FrameType /\ Frame("span", left.span) \in FrameType
            /\ \A a \in Addresses : Frame("json", a) \in FrameType
        BY <4>1 DEF Frame, FrameType, Kinds, Id
      <4>3. /\ Frame("try", 0).kind # "task" /\ Frame("span", left.span).kind # "task"
            /\ \A a \in Addresses : Frame("json", a).kind # "task"
        BY DEF Frame
      <4> QED
        BY <2>6, <4>2, <4>3 DEF OpenTry, EnterSpan, ParseJson
    <3> QED
      BY <3>1, <3>2, PushStructure
  <2>7. CASE CloseTry(t) \/ EndFallback(t) \/ ExitSpan(t) \/ DropJson(t)
    <3>1. /\ stack[t] # <<>> /\ Top(t).kind # "task" /\ Top(t).forked = {}
          /\ Pop(t) /\ UNCHANGED taskVars
      BY <2>7 DEF CloseTry, EndFallback, ExitSpan, DropJson, Leaving, Active, Busy
    <3> QED
      BY <3>1, PopStructure
  <2>8. CASE Panic(t)
    <3>1. CASE traps[t] = <<>>
      <4>1. stack' = [stack EXCEPT ![t] = stack[t]] /\ UNCHANGED taskVars
        BY <2>8, <3>1 DEF Panic, taskVars, UnwindingInv, StackTyped
      <4> QED
        BY <4>1, StructSame
    <3> QED
      BY <2>8, <3>1, PanicStructure
  <2> QED
    BY <1>1, <2>1, <2>2, <2>3, <2>4, <2>5, <2>6, <2>7, <2>8 DEF Step
<1>2. CASE UNCHANGED vars
  <2>1. UNCHANGED <<stack, queue, result, born, orphaned, cut>>
    BY <1>2 DEF vars, historyVars
  <2>2. UNCHANGED Ended
    BY <2>1 DEF Ended
  <2>3. (BornNumbered /\ QueuedOnce /\ QueuedWaits /\ RunningLives)'
    BY <2>1, <2>2 DEF StructInv, BornNumbered, QueuedOnce, QueuedWaits, RunningLives
  <2>4. (RunsOnce /\ Somewhere /\ HasForker /\ TaskBelow)'
    BY <2>1, <2>2 DEF StructInv, RunsOnce, Somewhere, HasForker, TaskBelow
  <2> QED
    BY <2>3, <2>4 DEF StructInv
<1> QED
  BY <1>1, <1>2 DEF Next

\* The places of a task in numbers.
LEMMA Counted ==
  ASSUME UnwindingInv, StructInv, NEW k \in born
  PROVE  /\ Cardinality(Running(k)) + Cardinality({i \in DOMAIN queue : queue[i] = k})
              = IF k \in Ended THEN 0 ELSE 1
         /\ k \notin DOMAIN result \cup orphaned => \E f \in Frames : k \in At(f).forked
<1> DEFINE Places == {i \in DOMAIN queue : queue[i] = k}
<1>1. /\ DOMAIN queue = 1 .. Len(queue)
      /\ \A t \in Threads : DOMAIN stack[t] = 1 .. Len(stack[t])
  BY InvMatch, LenProperties DEF UnwindingInv, TasksTyped
<1>2. ASSUME NEW t \in Threads, NEW i
      PROVE  <<t, i>> \in Frames <=> i \in 1 .. Len(stack[t])
  BY <1>1 DEF Frames
<1>3. \A f \in Frames : \E t \in Threads : \E i \in 1 .. Len(stack[t]) : f = <<t, i>>
  BY <1>1 DEF Frames
<1>4. \A t \in Threads : \A i : <<t, i>> \in Running(k) <=> TaskAt(stack[t], i, k)
  BY <1>2 DEF Running, At, TaskAt
<1>5. \A f \in Running(k) : \E t \in Threads : \E i : f = <<t, i>>
  BY <1>3 DEF Running
<1>6. \A i : i \in Places <=> i \in 1 .. Len(queue) /\ queue[i] = k
  BY <1>1
<1>7. k # 0
  <2>1. Cardinality(born) \in Nat
    BY FS_CardinalityType DEF UnwindingInv, TasksTyped
  <2> QED
    BY <2>1 DEF StructInv, BornNumbered
<1> HIDE DEF Places
<1>8. Cardinality(Running(k)) + Cardinality(Places) = IF k \in Ended THEN 0 ELSE 1
  <2>1. CASE k \in Ended
    <3>1. \A t \in Threads : \A i : ~TaskAt(stack[t], i, k)
      BY <1>7, <2>1 DEF StructInv, RunningLives
    <3>2. Running(k) = {}
      BY <1>4, <1>5, <3>1
    <3>3. Places = {}
      BY <1>6, <2>1 DEF StructInv, QueuedWaits
    <3> QED
      BY <2>1, <3>3, <3>2, FS_EmptySet
  <2>2. ASSUME k \notin Ended, NEW j \in 1 .. Len(queue), queue[j] = k
        PROVE  Cardinality(Running(k)) + Cardinality(Places) = 1
    <3>1. Running(k) = {}
      BY <1>4, <1>5, <2>2 DEF StructInv, QueuedWaits
    <3>2. Places = {j}
      BY <1>6, <2>2 DEF StructInv, QueuedOnce
    <3>3. Cardinality(Running(k)) = 0
      BY <3>1, FS_EmptySet
    <3>4. Cardinality(Places) = 1
      BY <3>2, FS_Singleton
    <3> QED
      BY <3>3, <3>4
  <2>3. ASSUME k \notin Ended, NEW t \in Threads, NEW p, TaskAt(stack[t], p, k)
        PROVE  Cardinality(Running(k)) + Cardinality(Places) = 1
    <3>1. Running(k) = {<<t, p>>}
      BY <1>4, <1>5, <2>3, OneFrame
    <3>2. Places = {}
      BY <1>6, <2>3 DEF StructInv, QueuedWaits
    <3>3. Cardinality(Running(k)) = 1
      BY <3>1, FS_Singleton
    <3>4. Cardinality(Places) = 0
      BY <3>2, FS_EmptySet
    <3> QED
      BY <3>3, <3>4
  <2> QED
    BY <2>1, <2>2, <2>3 DEF StructInv, Somewhere
<1>9. ASSUME k \notin DOMAIN result \cup orphaned PROVE \E f \in Frames : k \in At(f).forked
  <2>1. PICK t \in Threads : ForkedIn(stack[t], k)
    BY <1>9 DEF StructInv, HasForker
  <2>2. PICK i \in 1 .. Len(stack[t]) : k \in stack[t][i].forked
    BY <2>1 DEF ForkedIn
  <2> QED
    <3>1. <<t, i>> \in Frames /\ At(<<t, i>>) = stack[t][i]
      BY <1>2 DEF At
    <3> QED
      BY <2>2, <3>1
<1> QED
  BY <1>8, <1>9 DEF Places

(* However threads help one another and panics unwind them, every task     *)
(* waits in the queue, is on one stack at one place or is done, and is     *)
(* lost only with a frame that a panic discarded; until it is done, who    *)
(* forked it is on a stack, unless a panic discarded that.                 *)
THEOREM TasksStayStructured == Spec => []StructuredUnlessCut
<1>1. UnwindingInv /\ StructInv => StructuredUnlessCut
  BY Counted DEF StructuredUnlessCut, Ended
<1> QED
  BY InitHolds, NextKeeps, StructInit, StructNext, <1>1, PTL DEF Spec

-----------------------------------------------------------------------------
(* The registries of JSON cells.                                           *)

(* A nonempty set of naturals has a least element: among the intervals     *)
(* that end in it one contains no other, and a finite set has such.        *)
LEMMA MinIn ==
  ASSUME NEW S \in SUBSET Nat, S # {}
  PROVE  Min(S) \in S
<1> DEFINE R == StrictSubsetOrdering(Nat)
           T == {1 .. k : k \in S}
<1>1. IsWellFoundedOn(R, FiniteSubsetsOf(Nat))
  BY FS_StrictSubsetOrderingWellFounded
<1>2. T \subseteq FiniteSubsetsOf(Nat)
  <2>1. \A k \in Nat : IsFiniteSet(1 .. k) /\ 1 .. k \subseteq Nat
    BY FS_Interval
  <2> QED
    BY <2>1 DEF FiniteSubsetsOf
<1>3. T # {}
  OBVIOUS
<1>4. \E m \in T : \A y \in T : ~ (<<y, m>> \in R)
  <2> HIDE DEF T, R
  <2> QED
    BY <1>1, <1>2, <1>3, WFMin
<1>5. PICK x \in S : \A y \in S : ~ (<<1 .. y, 1 .. x>> \in R)
  BY <1>4
<1>6. ASSUME NEW y \in S PROVE x =< y
  <2>1. CASE y < x
    <3>1. x \in 1 .. x /\ x \notin 1 .. y /\ 1 .. y \subseteq 1 .. x
      BY <2>1
    <3>2. 1 .. y \in SUBSET Nat /\ 1 .. x \in SUBSET Nat /\ 1 .. y # 1 .. x
      BY <3>1
    <3>3. <<1 .. y, 1 .. x>> \in R
      BY <3>1, <3>2 DEF StrictSubsetOrdering
    <3> QED
      BY <1>5, <3>3
  <2> QED
    BY <2>1
<1> QED
  BY <1>6 DEF Min

LEMMA Found ==
  ASSUME NEW list, NEW a, Len(list) \in Nat
  PROVE  LET i == SelectInSeq(list, LAMBDA x : x = a)
         IN  \/ i = 0 /\ \A j \in 1 .. Len(list) : list[j] # a
             \/ i \in 1 .. Len(list) /\ list[i] = a
<1> DEFINE I == {j \in 1 .. Len(list) : list[j] = a}
<1>1. SelectInSeq(list, LAMBDA x : x = a) = IF I # {} THEN Min(I) ELSE 0
  BY DEF SelectInSeq
<1>2. I # {} => Min(I) \in I
  <2>1. I \in SUBSET Nat
    OBVIOUS
  <2> HIDE DEF I
  <2> QED
    BY <2>1, MinIn
<1>3. CASE I = {}
  BY <1>1, <1>3
<1>4. CASE I # {}
  BY <1>1, <1>2, <1>4
<1> QED
  BY <1>3, <1>4

(* What the drop of a may leave of a registry: each entry of u was one of  *)
(* the list, h says which, and an entry for a is missing if there was one. *)
Thinned(list, a, u, h) ==
  /\ h \in [1 .. Len(u) -> 1 .. Len(list)]
  /\ \A k, l \in 1 .. Len(u) : h[k] = h[l] => k = l
  /\ \A k \in 1 .. Len(u) : u[k] = list[h[k]]
  /\ \A j \in 1 .. Len(list) : list[j] # a => \E k \in 1 .. Len(u) : h[k] = j
  /\ \/ \A j \in 1 .. Len(list) : list[j] # a
     \/ \E i \in 1 .. Len(list) : list[i] = a /\ \A k \in 1 .. Len(u) : h[k] # i

LEMMA Unregister ==
  ASSUME NEW list \in Seq(Addresses), NEW a
  PROVE  /\ Unregistered(list, a) \in Seq(Addresses)
         /\ \E h : Thinned(list, a, Unregistered(list, a), h)
<1> DEFINE i == SelectInSeq(list, LAMBDA x : x = a)
           u == Unregistered(list, a)
           n == Len(list)
<1>1. n \in Nat
  BY LenProperties
<1>2. \/ i = 0 /\ \A j \in 1 .. n : list[j] # a
      \/ i \in 1 .. n /\ list[i] = a
  BY <1>1, Found
<1>3. u = IF i = 0 THEN list ELSE Front([list EXCEPT ![i] = Last(list)])
  BY DEF Unregistered
<1> HIDE DEF i, u
<1>4. CASE i = 0 /\ \A j \in 1 .. n : list[j] # a
  <2> DEFINE h == [k \in 1 .. Len(u) |-> k]
  <2>1. u = list
    BY <1>3, <1>4
  <2>2. h \in [1 .. Len(u) -> 1 .. Len(list)] /\ \A k \in 1 .. Len(u) : h[k] = k
    BY <2>1
  <2> HIDE DEF h
  <2> QED
    BY <1>4, <2>1, <2>2 DEF u, Thinned
<1>5. CASE i \in 1 .. n /\ list[i] = a
  <2> DEFINE w == [list EXCEPT ![i] = Last(list)]
             h == [k \in 1 .. Len(u) |-> IF k = i THEN n ELSE k]
  <2>1. n \in 1 .. n /\ i # 0
    BY <1>1, <1>5
  <2>2. Last(list) = list[n] /\ Last(list) \in Addresses
    BY <2>1, ElementOfSeq DEF Last
  <2>3. w \in Seq(Addresses) /\ Len(w) = n /\ \A k \in 1 .. n : w[k] = IF k = i THEN list[n] ELSE list[k]
    BY <1>5, <2>2, ExceptSeq
  <2> HIDE DEF w
  <2>4. u \in Seq(Addresses) /\ Len(u) = n - 1 /\ \A k \in 1 .. n - 1 : u[k] = w[k]
    <3>1. n - 1 \in 0 .. Len(w) /\ u = SubSeq(w, 1, n - 1)
      BY <1>1, <1>3, <2>1, <2>3 DEF Front, w
    <3> QED
      BY <2>3, <3>1, Prefix
  <2>5. h \in [1 .. Len(u) -> 1 .. n] /\ \A k \in 1 .. Len(u) : h[k] = IF k = i THEN n ELSE k
    BY <1>1, <2>1, <2>4
  <2> HIDE DEF h
  <2>6. \A k, l \in 1 .. Len(u) : h[k] = h[l] => k = l
    BY <1>1, <2>4, <2>5
  <2>7. \A k \in 1 .. Len(u) : u[k] = list[h[k]]
    BY <1>1, <2>3, <2>4, <2>5
  <2>8. ASSUME NEW j \in 1 .. n, list[j] # a PROVE \E k \in 1 .. Len(u) : h[k] = j
    <3>1. CASE j = n
      <4>1. i \in 1 .. Len(u) /\ h[i] = j
        BY <1>1, <1>5, <2>4, <2>5, <2>8, <3>1
      <4> QED
        BY <4>1
    <3>2. CASE j # n
      <4>1. j \in 1 .. Len(u) /\ h[j] = j
        BY <1>1, <1>5, <2>4, <2>5, <2>8, <3>2
      <4> QED
        BY <4>1
    <3> QED
      BY <3>1, <3>2
  <2>9. \A k \in 1 .. Len(u) : h[k] # i
    BY <1>1, <1>5, <2>4, <2>5
  <2>10. \E j \in 1 .. n : list[j] = a /\ \A k \in 1 .. Len(u) : h[k] # j
    BY <1>5, <2>9
  <2> HIDE DEF n
  <2> QED
    BY <2>4, <2>5, <2>6, <2>7, <2>8, <2>10 DEF u, n, Thinned
<1> QED
  BY <1>2, <1>4, <1>5

-----------------------------------------------------------------------------
(* The thread t has the cell a registered.  A second entry for a cell, or  *)
(* one for a cell that is not on record as registered, is of a cell that   *)
(* another thread freed.                                                   *)
Listed(t, a) == \E i \in 1 .. Len(roots[t]) : roots[t][i] = a
Own(t, a)    == a \in live /\ maker[a] = t

RootsTyped  == roots \in [Threads -> Seq(Addresses)] /\ live \subseteq DOMAIN maker
OwnListed   == \A t \in Threads, a \in Addresses : Own(t, a) /\ a \notin unlisted => Listed(t, a)
ListedOwn   == \A t \in Threads, a \in Addresses : Listed(t, a) => Own(t, a) \/ <<t, a>> \in stray
ListedKnown == \A t \in Threads, a \in Addresses :
                 Listed(t, a) /\ <<t, a>> \notin stray => a \notin unlisted
ListedOnce  == \A t \in Threads : \A i, j \in 1 .. Len(roots[t]) :
                 i # j /\ roots[t][i] = roots[t][j] => <<t, roots[t][i]>> \in stray
RootInv == RootsTyped /\ OwnListed /\ ListedOwn /\ ListedKnown /\ ListedOnce

LEMMA RootInvInit == Init => RootInv
<1> SUFFICES ASSUME Init PROVE RootInv
  OBVIOUS
<1>1. live = {} /\ \A t \in Threads : roots[t] = <<>>
  BY DEF Init
<1>2. RootsTyped
  BY DEF Init, RootsTyped
<1>3. \A t \in Threads, a \in Addresses : ~Own(t, a) /\ ~Listed(t, a)
  BY <1>1 DEF Own, Listed
<1>4. ListedOnce
  BY <1>1 DEF ListedOnce
<1> QED
  BY <1>2, <1>3, <1>4 DEF RootInv, OwnListed, ListedOwn, ListedKnown

LEMMA ParseRoots ==
  ASSUME RootInv, NEW t \in Threads, NEW a \in Addresses, ParseJson(t, a)
  PROVE  RootInv'
<1>1. a \notin live /\ live' = live \cup {a} /\ UNCHANGED stray
  BY DEF ParseJson
<1>2. /\ DOMAIN maker' = DOMAIN maker \cup {a} /\ maker'[a] = t
      /\ \A b \in DOMAIN maker : b # a => maker'[b] = maker[b]
  <2>1. maker' = [x \in DOMAIN maker \cup {a} |-> IF x = a THEN t ELSE maker[x]]
    BY DEF ParseJson
  <2> QED
    BY <2>1
<1>3. roots[t] \in Seq(Addresses) /\ Len(roots[t]) \in Nat
  BY LenProperties DEF RootInv, RootsTyped
<1>4. \A s \in Threads : ~Own(s, a) /\ (Own(s, a)' <=> s = t)
  BY <1>1, <1>2 DEF Own
<1>5. \A s \in Threads, b \in Addresses : b # a => (Own(s, b)' <=> Own(s, b))
  BY <1>1, <1>2 DEF Own, RootInv, RootsTyped
<1>6. \A s \in Threads : Listed(s, a) => <<s, a>> \in stray
  BY <1>4 DEF RootInv, ListedOwn
<1>7. CASE Len(roots[t]) < MaxRoots
  <2>1. roots' = [roots EXCEPT ![t] = Append(roots[t], a)] /\ unlisted' = unlisted \ {a}
    BY <1>7 DEF ParseJson
  <2> DEFINE u == Append(roots[t], a)
             n == Len(roots[t])
  <2>2. u \in Seq(Addresses) /\ Len(u) = n + 1 /\ u[n + 1] = a /\ \A i \in 1 .. n : u[i] = roots[t][i]
    BY <1>3, AppendProperties
  <2>3. \A s \in Threads : roots'[s] = IF s = t THEN u ELSE roots[s]
    BY <2>1 DEF RootInv, RootsTyped
  <2> HIDE DEF u
  <2>4. \A s \in Threads, b \in Addresses : Listed(s, b)' <=> Listed(s, b) \/ (s = t /\ b = a)
    <3>1. SUFFICES ASSUME NEW b \in Addresses PROVE Listed(t, b)' <=> Listed(t, b) \/ b = a
      BY <2>3 DEF Listed
    <3>2. 1 .. Len(u) = 1 .. n \cup {n + 1}
      BY <1>3, <2>2
    <3>3. Listed(t, b)' <=> \E i \in 1 .. Len(u) : u[i] = b
      BY <2>3 DEF Listed
    <3>4. (\E i \in 1 .. Len(u) : u[i] = b) <=> (\E i \in 1 .. n : roots[t][i] = b) \/ b = a
      BY <2>2, <3>2
    <3> QED
      BY <3>3, <3>4 DEF Listed
  <2>5. RootsTyped'
    BY <1>1, <1>2, <2>1, <2>2 DEF RootInv, RootsTyped, u
  <2>6. OwnListed'
    BY <1>4, <1>5, <2>1, <2>4 DEF RootInv, OwnListed
  <2>7. ListedOwn'
    BY <1>1, <1>4, <1>5, <1>6, <2>4 DEF RootInv, ListedOwn
  <2>8. ListedKnown'
    BY <1>1, <2>1, <2>4 DEF RootInv, ListedKnown
  <2>9. ListedOnce'
    <3> SUFFICES ASSUME NEW s \in Threads, NEW i \in 1 .. Len(roots'[s]), NEW j \in 1 .. Len(roots'[s]),
                        i # j, roots'[s][i] = roots'[s][j]
                 PROVE  <<s, roots'[s][i]>> \in stray'
      BY DEF ListedOnce
    <3>1. CASE s # t
      BY <1>1, <2>3, <3>1 DEF RootInv, ListedOnce
    <3>2. CASE s = t
      <4>1. roots'[s] = u
        BY <2>3, <3>2
      <4>2. CASE i \in 1 .. n /\ j \in 1 .. n
        BY <1>1, <2>2, <3>2, <4>1, <4>2 DEF RootInv, ListedOnce
      <4>3. CASE i = n + 1 \/ j = n + 1
        <5>1. u[i] = a /\ u[j] = a /\ (i \in 1 .. n \/ j \in 1 .. n)
          BY <1>3, <2>2, <4>1, <4>3
        <5>2. Listed(t, a)
          BY <2>2, <5>1 DEF Listed
        <5> QED
          BY <1>1, <1>6, <3>2, <4>1, <5>1, <5>2
      <4> QED
        BY <1>3, <2>2, <4>1, <4>2, <4>3
    <3> QED
      BY <3>1, <3>2
  <2> QED
    BY <2>5, <2>6, <2>7, <2>8, <2>9 DEF RootInv
<1>8. CASE ~(Len(roots[t]) < MaxRoots)
  <2>1. UNCHANGED roots /\ unlisted' = unlisted \cup {a}
    BY <1>8 DEF ParseJson
  <2>2. \A s \in Threads, b \in Addresses : Listed(s, b)' <=> Listed(s, b)
    BY <2>1 DEF Listed
  <2>3. RootsTyped'
    BY <1>1, <1>2, <2>1 DEF RootInv, RootsTyped
  <2>4. OwnListed'
    BY <1>5, <2>1, <2>2 DEF RootInv, OwnListed
  <2>5. ListedOwn'
    BY <1>1, <1>5, <1>6, <2>2 DEF RootInv, ListedOwn
  <2>6. ListedKnown'
    BY <1>1, <1>6, <2>1, <2>2 DEF RootInv, ListedKnown
  <2>7. ListedOnce'
    BY <1>1, <2>1 DEF RootInv, ListedOnce
  <2> QED
    BY <2>3, <2>4, <2>5, <2>6, <2>7 DEF RootInv
<1> QED
  BY <1>7, <1>8

LEMMA DropRoots ==
  ASSUME RootInv, NEW t \in Threads, DropJson(t)
  PROVE  RootInv'
<1> SUFFICES ASSUME NEW a, a = Top(t).id PROVE RootInv'
  OBVIOUS
<1> DEFINE u == Unregistered(roots[t], a)
<1>1. /\ roots' = [roots EXCEPT ![t] = u] /\ live' = live \ {a} /\ UNCHANGED <<maker, unlisted>>
      /\ stray' = IF maker[a] # t /\ a \notin unlisted THEN stray \cup {<<maker[a], a>>} ELSE stray
  BY DEF DropJson
<1>2. roots[t] \in Seq(Addresses)
  BY DEF RootInv, RootsTyped
<1>3. u \in Seq(Addresses)
  BY <1>2, Unregister
<1>4. PICK h : Thinned(roots[t], a, u, h)
  BY <1>2, Unregister
<1> HIDE DEF u
<1>5. \A s \in Threads : roots'[s] = IF s = t THEN u ELSE roots[s]
  BY <1>1 DEF RootInv, RootsTyped
<1>6. stray \subseteq stray'
  BY <1>1
<1>7. \A s \in Threads, b \in Addresses : b # a =>
        /\ Own(s, b)' <=> Own(s, b)
        /\ Listed(s, b)' <=> Listed(s, b)
  <2> SUFFICES ASSUME NEW s \in Threads, NEW b \in Addresses, b # a
               PROVE  (Own(s, b)' <=> Own(s, b)) /\ (Listed(s, b)' <=> Listed(s, b))
    OBVIOUS
  <2>1. Own(s, b)' <=> Own(s, b)
    BY <1>1 DEF Own
  <2>2. CASE s # t
    BY <1>5, <2>1, <2>2 DEF Listed
  <2>3. CASE s = t
    <3>1. (\E k \in 1 .. Len(u) : u[k] = b) <=> \E j \in 1 .. Len(roots[t]) : roots[t][j] = b
      <4>1. ASSUME NEW k \in 1 .. Len(u), u[k] = b
            PROVE  h[k] \in 1 .. Len(roots[t]) /\ roots[t][h[k]] = b
        BY <1>4, <4>1 DEF Thinned
      <4>2. ASSUME NEW j \in 1 .. Len(roots[t]), roots[t][j] = b
            PROVE  \E k \in 1 .. Len(u) : u[k] = b
        BY <1>4, <4>2 DEF Thinned
      <4> QED
        BY <4>1, <4>2
    <3> QED
      BY <1>5, <2>1, <2>3, <3>1 DEF Listed
  <2> QED
    BY <2>2, <2>3
<1>8. \A s \in Threads : Listed(s, a)' => Listed(s, a)
  <2> SUFFICES ASSUME NEW s \in Threads, Listed(s, a)' PROVE Listed(s, a)
    OBVIOUS
  <2>1. CASE s # t
    BY <1>5, <2>1 DEF Listed
  <2>2. CASE s = t
    <3>1. PICK k \in 1 .. Len(u) : u[k] = a
      BY <1>5, <2>2 DEF Listed
    <3>2. h[k] \in 1 .. Len(roots[t]) /\ roots[t][h[k]] = a
      BY <1>4, <3>1 DEF Thinned
    <3> QED
      BY <2>2, <3>2 DEF Listed
  <2> QED
    BY <2>1, <2>2
<1>9. \A s \in Threads : Listed(s, a)' /\ a \in Addresses => <<s, a>> \in stray'
  <2> SUFFICES ASSUME NEW s \in Threads, Listed(s, a)', a \in Addresses, <<s, a>> \notin stray
               PROVE  <<s, a>> \in stray'
    BY <1>6
  <2>1. Own(s, a) /\ a \notin unlisted
    BY <1>8 DEF RootInv, ListedOwn, ListedKnown
  <2>2. CASE s # t
    BY <1>1, <2>1, <2>2 DEF Own
  <2>3. CASE s = t
    <3>1. PICK k \in 1 .. Len(u) : u[k] = a
      BY <1>5, <2>3 DEF Listed
    <3>2. h[k] \in 1 .. Len(roots[t]) /\ roots[t][h[k]] = a
      BY <1>4, <3>1 DEF Thinned
    <3>3. PICK i \in 1 .. Len(roots[t]) : roots[t][i] = a /\ \A l \in 1 .. Len(u) : h[l] # i
      BY <1>4, <3>2 DEF Thinned
    <3> QED
      BY <2>3, <3>2, <3>3 DEF RootInv, ListedOnce
  <2> QED
    BY <2>2, <2>3
<1>10. RootsTyped'
  BY <1>1, <1>3 DEF RootInv, RootsTyped
<1>11. OwnListed'
  <2> SUFFICES ASSUME NEW s \in Threads, NEW b \in Addresses, Own(s, b)', b \notin unlisted'
               PROVE  Listed(s, b)'
    BY DEF OwnListed
  <2>1. b # a
    BY <1>1 DEF Own
  <2> QED
    BY <1>1, <1>7, <2>1 DEF RootInv, OwnListed
<1>12. ListedOwn'
  BY <1>6, <1>7, <1>9 DEF RootInv, ListedOwn
<1>13. ListedKnown'
  <2>1. UNCHANGED unlisted
    BY <1>1
  <2> QED
    BY <1>6, <1>7, <1>9, <2>1 DEF RootInv, ListedKnown
<1>14. ListedOnce'
  <2> SUFFICES ASSUME NEW s \in Threads, NEW i \in 1 .. Len(roots'[s]), NEW j \in 1 .. Len(roots'[s]),
                      i # j, roots'[s][i] = roots'[s][j]
               PROVE  <<s, roots'[s][i]>> \in stray'
    BY DEF ListedOnce
  <2>1. CASE s # t
    BY <1>5, <1>6, <2>1 DEF RootInv, ListedOnce
  <2>2. CASE s = t
    <3>1. i \in 1 .. Len(u) /\ j \in 1 .. Len(u) /\ u[i] = u[j] /\ roots'[s][i] = u[i]
      BY <1>5, <2>2
    <3>2. /\ h[i] \in 1 .. Len(roots[t]) /\ h[j] \in 1 .. Len(roots[t]) /\ h[i] # h[j]
          /\ roots[t][h[i]] = u[i] /\ roots[t][h[j]] = u[i]
      BY <1>4, <3>1 DEF Thinned
    <3>3. <<t, u[i]>> \in stray
      BY <3>2 DEF RootInv, ListedOnce
    <3> QED
      BY <1>6, <2>2, <3>1, <3>3
  <2> QED
    BY <2>1, <2>2
<1> QED
  BY <1>10, <1>11, <1>12, <1>13, <1>14 DEF RootInv

LEMMA RootInvNext == RootInv /\ [Next]_vars => RootInv'
<1> SUFFICES ASSUME RootInv, [Next]_vars PROVE RootInv'
  OBVIOUS
<1>1. CASE UNCHANGED jsonVars
  BY <1>1 DEF jsonVars, RootInv, RootsTyped, OwnListed, ListedOwn, ListedKnown, ListedOnce, Own, Listed
<1>2. ASSUME NEW t \in Threads, Step(t) PROVE RootInv'
  <2>1. CASE \E a \in Addresses : ParseJson(t, a)
    BY <2>1, ParseRoots
  <2>2. CASE DropJson(t)
    BY <2>2, DropRoots
  <2>3. CASE Fork(t) \/ StartJoin(t) \/ EndJoin(t) \/ FinishTask(t) \/ ReturnJson(t)
    BY <1>1, <2>3 DEF Fork, StartJoin, EndJoin, FinishTask, ReturnJson
  <2>4. CASE Work(t) \/ Help(t)
    BY <1>1, <2>4 DEF Work, Help, RunTask
  <2>5. CASE OpenTry(t) \/ CloseTry(t) \/ EndFallback(t) \/ EnterSpan(t) \/ ExitSpan(t)
    BY <1>1, <2>5 DEF OpenTry, CloseTry, EndFallback, EnterSpan, ExitSpan
  <2>6. CASE Panic(t)
    BY <1>1, <2>6 DEF Panic
  <2> QED
    BY <1>2, <2>1, <2>2, <2>3, <2>4, <2>5, <2>6 DEF Step
<1>3. CASE UNCHANGED vars
  BY <1>1, <1>3 DEF vars, historyVars, jsonVars
<1> QED
  BY <1>2, <1>3 DEF Next

(* The registry of a thread holds every cell that the thread parsed while  *)
(* there was room and that is not freed, whatever was dropped in between,  *)
(* and else only cells that another thread freed.                          *)
THEOREM RootsStayOwn == Spec => []RootsAreOwn
<1>1. RootInv => RootsAreOwn
  <2> SUFFICES ASSUME RootInv, NEW t \in Threads, NEW a \in Addresses
               PROVE  LET own == a \in live /\ maker[a] = t
                      IN  /\ own /\ a \notin unlisted => a \in ToSet(roots[t])
                          /\ a \in ToSet(roots[t]) => own \/ <<t, a>> \in stray
    BY DEF RootsAreOwn
  <2>1. DOMAIN roots[t] = 1 .. Len(roots[t])
    BY LenProperties DEF RootInv, RootsTyped
  <2>2. a \in ToSet(roots[t]) <=> Listed(t, a)
    BY <2>1 DEF ToSet, Listed
  <2> QED
    BY <2>2 DEF RootInv, OwnListed, ListedOwn, Own
<1> QED
  BY RootInvInit, RootInvNext, <1>1, PTL DEF Spec
=============================================================================
