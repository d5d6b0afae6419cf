-------------------------- MODULE ThreadPoolProofs --------------------------
(***************************************************************************)
(* Proofs about ThreadPool, for any tree of tasks, any finite set of       *)
(* workers (the empty one too) and any ring size (zero too).               *)
(*                                                                         *)
(* The properties are not inductive.  IInv adds what the code relies on    *)
(* without saying it: the stacks of the threads are disjoint lists, a join *)
(* reaps a handle only after the runner has left it, and the code of a     *)
(* task has joined its children before it enters its epilogue.             *)
(***************************************************************************)
EXTENDS ThreadPool, FiniteSetTheorems, TLAPS

\* The tail is count slots after the head, around the end of the ring.
TailShape ==
  QueueSize > 0 =>
    tail = IF head + count < QueueSize THEN head + count
           ELSE head + count - QueueSize

\* Each active task is on one stack, at one place.
StackShape ==
  /\ \A t \in Threads : top[t] # NoTask => Active(top[t])
  /\ \A u \in Tasks : Active(u) /\ below[u] # NoTask => Active(below[u])
  /\ \A s, t \in Threads : top[s] = top[t] /\ top[s] # NoTask => s = t
  /\ \A u, v \in Tasks :
       Active(u) /\ Active(v) /\ below[u] = below[v] /\ below[u] # NoTask => u = v
  /\ \A u \in Tasks : Active(u) /\ below[u] # NoTask =>
       \A t \in Threads : top[t] # below[u]

\* A join waits for a live handle of its own, and reaps it when it is abandoned.
JoinShape ==
  \A u \in Tasks : at[u] \in InJoin =>
    /\ wait[u] \in Forked
    /\ Parent[wait[u]] = u
    /\ mem[wait[u]] = "live"
    /\ at[u] = "reap" => at[wait[u]] = "ended"

\* done is set in the epilogue only, and the root has no handle.
DoneShape ==
  /\ \A c \in done : at[c] \in {"unlock", "ended"}
  /\ at[Root] \notin {"unborn", "queued"} \cup Epilogue

\* A handle is allocated by the fork, and freed after the task has ended.
HandleShape ==
  \A c \in Forked :
    /\ mem[c] = "none" <=> at[c] = "unborn"
    /\ mem[c] = "freed" => at[c] = "ended"

\* A task with a child to join is on a stack and has not begun its epilogue.
PendingShape ==
  \A c \in Forked : mem[c] = "live" => at[Parent[c]] \in {"run"} \cup InJoin

IInv ==
  /\ TypeOK /\ TailShape /\ QueueExact
  /\ StackShape /\ JoinShape /\ DoneShape /\ HandleShape /\ PendingShape

-----------------------------------------------------------------------------
(* The ring. *)

\* The item at the head is one of the tasks that wait to be run.
LEMMA HeadUsed ==
  ASSUME TypeOK, count > 0
  PROVE  head \in Slots /\ Used(head)
BY QueueAssumption DEF TypeOK, Slots, Used

\* Dequeue gives up the slot at the head and no other.
LEMMA DequeueSlots ==
  ASSUME TypeOK, TailShape, count > 0, Dequeue
  PROVE  /\ head' \in Slots /\ count' \in 0 .. QueueSize /\ tail' = tail
         /\ queue' = queue
         /\ TailShape'
         /\ \A i \in Slots : Used(i)' <=> Used(i) /\ i # head
BY QueueAssumption DEF TypeOK, TailShape, Dequeue, NextSlot, Slots, Used

\* Enqueue takes the slot at the tail, which was free, and no other.
LEMMA EnqueueSlots ==
  ASSUME TypeOK, TailShape, HasRoom, NEW c \in Tasks, Enqueue(c)
  PROVE  /\ tail \in Slots /\ tail' \in Slots /\ count' \in 0 .. QueueSize
         /\ head' = head /\ head \in Slots
         /\ queue' = [queue EXCEPT ![tail] = c]
         /\ TailShape'
         /\ ~Used(tail)
         /\ \A i \in Slots : Used(i)' <=> Used(i) \/ i = tail
BY QueueAssumption DEF TypeOK, TailShape, Enqueue, HasRoom, NextSlot, Slots, Used

-----------------------------------------------------------------------------
(* The actions that leave the ring and the stacks alone. *)

\* IInv does not say where a worker is in its loop, beyond its type.
LEMMA WorkerMoves ==
  ASSUME IInv, worker' \in [Workers -> {"off", "loop", "asleep", "take", "busy"}],
         up' \in BOOLEAN,
         UNCHANGED <<ring, stacks, at, inline, wait, done, mem>>
  PROVE  IInv'
BY DEF IInv, TypeOK, TailShape, QueueExact, StackShape, JoinShape, DoneShape,
       HandleShape, PendingShape, Used, Active, ring, stacks

\* A join that moves within its loop, to "reap" only for a task that has ended.
LEMMA JoinMoves ==
  ASSUME IInv, NEW u \in Tasks, at[u] \in InJoin, NEW place \in InJoin,
         place = "reap" => at[wait[u]] = "ended",
         at' = [at EXCEPT ![u] = place],
         UNCHANGED <<up, ring, stacks, worker, inline, wait, done, mem>>
  PROVE  IInv'
<1> USE DEF ring, stacks
<1>1. TypeOK'
  BY DEF IInv, TypeOK, OnStack, InJoin
<1>2. TailShape'
  BY DEF IInv, TailShape
<1>3. QueueExact'
  BY DEF IInv, TypeOK, QueueExact, Used, InJoin
<1>4. StackShape'
  BY DEF IInv, TypeOK, StackShape, Active, OnStack, InJoin
<1>5. JoinShape'
  BY DEF IInv, TypeOK, JoinShape, InJoin
<1>6. DoneShape' /\ HandleShape' /\ PendingShape'
  BY DEF IInv, TypeOK, DoneShape, HandleShape, PendingShape, InJoin, Epilogue
<1> QED
  BY <1>1, <1>2, <1>3, <1>4, <1>5, <1>6 DEF IInv

\* llm_join's test of done: the runner of a done task whose handle->mutex is
\* free has left it.
LEMMA JoinTestInv ==
  ASSUME IInv, NEW t \in Threads, JoinTest(t)
  PROVE  IInv'
<1>1. PICK u \in Tasks :
        /\ Executes(t, u, "test") /\ HandleUnlocked(wait[u])
        /\ at' = [at EXCEPT ![u] = IF wait[u] \in done THEN "reap" ELSE NotDone]
        /\ UNCHANGED <<up, ring, stacks, worker, inline, wait, done, mem>>
  BY DEF JoinTest
<1>2. wait[u] \in done => at[wait[u]] = "ended"
  BY <1>1 DEF IInv, DoneShape, HandleUnlocked
<1>3. at[u] \in InJoin /\ "reap" \in InJoin /\ NotDone \in InJoin /\ NotDone # "reap"
  BY <1>1 DEF Executes, InJoin, NotDone
<1> QED
  BY <1>1, <1>2, <1>3, JoinMoves

LEMMA JoinIdleInv ==
  ASSUME IInv, NEW t \in Threads, JoinNoHelp(t) \/ JoinRetest(t) \/ JoinTimeout(t)
  PROVE  IInv'
<1>1. PICK u \in Tasks, place \in {"test", "retest", "sleep"} :
        /\ at[u] \in InJoin
        /\ at' = [at EXCEPT ![u] = place]
        /\ UNCHANGED <<up, ring, stacks, worker, inline, wait, done, mem>>
  BY DEF JoinNoHelp, JoinRetest, JoinTimeout, Executes, AfterWait, InJoin
<1>2. place \in InJoin /\ place # "reap"
  BY DEF InJoin
<1> QED
  BY <1>1, <1>2, JoinMoves

-----------------------------------------------------------------------------
(* The stacks. *)

\* A task pushed on the stack of t that was on none.
LEMMA PushShape ==
  ASSUME TypeOK, StackShape, NEW t \in Threads, NEW c \in Tasks, ~Active(c),
         Push(t, c), \A u \in Tasks : Active(u)' <=> Active(u) \/ u = c
  PROVE  StackShape'
BY DEF TypeOK, StackShape, Push

\* The task on top of t is popped and ends.
LEMMA PopShape ==
  ASSUME TypeOK, StackShape, NEW t \in Threads, top[t] \in Tasks, Pop(t),
         \A u \in Tasks : Active(u)' <=> Active(u) /\ u # top[t]
  PROVE  StackShape'
BY TasksAssumption DEF TypeOK, StackShape, Pop

-----------------------------------------------------------------------------
(* llm_fork. *)

LEMMA ForkQueuedInv ==
  ASSUME IInv, NEW t \in Threads, ForkQueued(t)
  PROVE  IInv'
<1>1. PICK u \in Tasks, c \in Forked :
        /\ CanFork(t, u, c) /\ HasRoom /\ Enqueue(c) /\ Signal
        /\ at'  = [at EXCEPT ![c] = "queued"]
        /\ mem' = [mem EXCEPT ![c] = "live"]
        /\ UNCHANGED <<up, stacks, inline, wait, done>>
  BY DEF ForkQueued, Children
<1>2. c \in Forked /\ c \in Tasks /\ Parent[c] = u /\ at[c] = "unborn" /\ at[u] = "run"
  BY <1>1 DEF Children, Forked, CanFork, Executes
<1>3. /\ tail \in Slots /\ tail' \in Slots /\ count' \in 0 .. QueueSize
      /\ head' = head /\ head \in Slots
      /\ queue' = [queue EXCEPT ![tail] = c]
      /\ TailShape' /\ ~Used(tail)
      /\ \A i \in Slots : Used(i)' <=> Used(i) \/ i = tail
  BY <1>1, <1>2, EnqueueSlots DEF IInv
<1>4. worker' \in [Workers -> {"off", "loop", "asleep", "take", "busy"}]
  BY <1>1 DEF IInv, TypeOK, Signal
<1>5. TypeOK'
  BY <1>1, <1>2, <1>3, <1>4, QueueAssumption DEF IInv, TypeOK, stacks, Slots
<1>6. QueueExact'
  BY <1>1, <1>2, <1>3 DEF IInv, TypeOK, QueueExact
<1>7. StackShape'
  BY <1>1, <1>2 DEF IInv, TypeOK, StackShape, Active, OnStack, InJoin, Epilogue, stacks
<1>8. JoinShape' /\ DoneShape' /\ HandleShape' /\ PendingShape'
  BY <1>1, <1>2 DEF IInv, TypeOK, JoinShape, DoneShape, HandleShape, PendingShape,
                    InJoin, Epilogue, Forked
<1> QED
  BY <1>3, <1>5, <1>6, <1>7, <1>8 DEF IInv

LEMMA ForkInlineInv ==
  ASSUME IInv, NEW t \in Threads, ForkInline(t)
  PROVE  IInv'
<1>1. PICK u \in Tasks, c \in Forked :
        /\ CanFork(t, u, c) /\ Push(t, c)
        /\ at'     = [at EXCEPT ![c] = "run"]
        /\ inline' = inline \cup {c}
        /\ mem'    = [mem EXCEPT ![c] = "live"]
        /\ UNCHANGED <<up, ring, worker, wait, done>>
  BY DEF ForkInline, Children
<1>2. c \in Forked /\ c \in Tasks /\ Parent[c] = u /\ at[c] = "unborn" /\ at[u] = "run"
  BY <1>1 DEF Children, Forked, CanFork, Executes
<1>3. TypeOK'
  BY <1>1, <1>2 DEF IInv, TypeOK, Push, ring, OnStack
<1>4. TailShape' /\ QueueExact'
  BY <1>1, <1>2 DEF IInv, TypeOK, TailShape, QueueExact, Used, ring
<1>5. StackShape'
  <2>1. ~Active(c)
    BY <1>2 DEF Active, OnStack, InJoin, Epilogue
  <2>2. \A v \in Tasks : Active(v)' <=> Active(v) \/ v = c
    BY <1>1, <1>2 DEF IInv, TypeOK, Active, OnStack
  <2> QED
    BY <1>1, <1>2, <2>1, <2>2, PushShape DEF IInv
<1>6. JoinShape' /\ DoneShape' /\ HandleShape' /\ PendingShape'
  BY <1>1, <1>2 DEF IInv, TypeOK, JoinShape, DoneShape, HandleShape, PendingShape,
                    InJoin, Epilogue, Forked
<1> QED
  BY <1>3, <1>4, <1>5, <1>6 DEF IInv

-----------------------------------------------------------------------------
(* llm_join. *)

LEMMA JoinInv ==
  ASSUME IInv, NEW t \in Threads, Join(t)
  PROVE  IInv'
<1>1. PICK u \in Tasks, c \in Forked :
        /\ c \in Pending(u) /\ Executes(t, u, "run")
        /\ at'   = [at EXCEPT ![u] = "test"]
        /\ wait' = [wait EXCEPT ![u] = c]
        /\ UNCHANGED <<up, ring, stacks, worker, inline, done, mem>>
  BY DEF Join, Pending, Children
<1>2. c \in Forked /\ Parent[c] = u /\ mem[c] = "live" /\ at[u] = "run"
  BY <1>1 DEF Pending, Children, Executes
<1> USE <1>1, <1>2 DEF IInv, TypeOK, ring, stacks
<1>3. TypeOK'
  BY DEF OnStack, InJoin
<1>4. TailShape' /\ QueueExact'
  BY DEF TailShape, QueueExact, Used
<1>5. StackShape'
  BY DEF StackShape, Active, OnStack, InJoin
<1>6. JoinShape' /\ DoneShape' /\ HandleShape' /\ PendingShape'
  BY DEF JoinShape, DoneShape, HandleShape, PendingShape, InJoin, Epilogue, Forked
<1> QED
  BY <1>3, <1>4, <1>5, <1>6 DEF IInv

\* The handle that is freed is one its runner has abandoned, and no other join
\* waits for it.
LEMMA JoinReapInv ==
  ASSUME IInv, NEW t \in Threads, JoinReap(t)
  PROVE  IInv'
<1>1. PICK u \in Tasks :
        /\ Executes(t, u, "reap")
        /\ mem'  = [mem EXCEPT ![wait[u]] = "freed"]
        /\ at'   = [at EXCEPT ![u] = "run"]
        /\ wait' = [wait EXCEPT ![u] = NoTask]
        /\ UNCHANGED <<up, ring, stacks, worker, inline, done>>
  BY DEF JoinReap
<1>2. at[u] = "reap" /\ wait[u] \in Forked /\ Parent[wait[u]] = u /\ at[wait[u]] = "ended"
  BY <1>1 DEF Executes, IInv, JoinShape, InJoin
<1> USE <1>1, <1>2 DEF IInv, TypeOK, ring, stacks
<1>3. TypeOK'
  BY DEF OnStack
<1>4. TailShape' /\ QueueExact'
  BY DEF TailShape, QueueExact, Used
<1>5. StackShape'
  BY DEF StackShape, Active, OnStack, InJoin
<1>6. JoinShape'
  BY DEF JoinShape, InJoin
<1>7. DoneShape' /\ HandleShape' /\ PendingShape'
  BY DEF DoneShape, HandleShape, PendingShape, InJoin, Epilogue, Forked
<1> QED
  BY <1>3, <1>4, <1>5, <1>6, <1>7 DEF IInv

-----------------------------------------------------------------------------
(* llm_do_work takes the item at the head of the ring. *)

\* Shared by the worker and the joiner: some places change from one place of the
\* join loop to "retest", and the item starts to run on top of t.
LEMMA TakeInv ==
  ASSUME IInv, NEW t \in Threads, count > 0, Dequeue, Push(t, queue[head]),
         NEW places \in [Tasks -> {"unborn", "queued", "ended"} \cup OnStack],
         \A u \in Tasks : places[u] = at[u] \/ (at[u] = "help" /\ places[u] = "retest"),
         at' = [places EXCEPT ![queue[head]] = "run"],
         worker' \in [Workers -> {"off", "loop", "asleep", "take", "busy"}],
         UNCHANGED <<up, inline, wait, done, mem>>
  PROVE  IInv'
<1> DEFINE c == queue[head]
<1>1. head \in Slots /\ Used(head)
  BY HeadUsed DEF IInv
<1>2. /\ head' \in Slots /\ count' \in 0 .. QueueSize /\ tail' = tail /\ queue' = queue
      /\ TailShape'
      /\ \A i \in Slots : Used(i)' <=> Used(i) /\ i # head
  BY DequeueSlots DEF IInv
<1>3. c \in Tasks /\ at[c] = "queued" /\ places[c] = "queued"
  BY <1>1 DEF IInv, QueueExact
<1>4. c \in Forked
  BY <1>3 DEF IInv, DoneShape, Forked
<1>5. TypeOK'
  BY <1>2, <1>3, QueueAssumption DEF IInv, TypeOK, Push, OnStack, Slots
<1>6. QueueExact'
  BY <1>1, <1>2, <1>3 DEF IInv, QueueExact
<1>7. StackShape'
  <2>1. ~Active(c)
    BY <1>3 DEF Active, OnStack, InJoin, Epilogue
  <2>2. \A v \in Tasks : Active(v)' <=> Active(v) \/ v = c
    BY <1>3 DEF Active, OnStack, InJoin
  <2> QED
    BY <1>3, <2>1, <2>2, PushShape DEF IInv
<1>8. /\ at'[c] = "run" /\ at[c] = "queued"
      /\ \A v \in Tasks : v # c => \/ at'[v] = at[v]
                                   \/ at[v] = "help" /\ at'[v] = "retest"
  BY <1>3
<1>9. JoinShape'
  <2> SUFFICES ASSUME NEW v \in Tasks, at'[v] \in InJoin
               PROVE  /\ wait[v] \in Forked /\ Parent[wait[v]] = v
                      /\ mem[wait[v]] = "live"
                      /\ at'[v] = "reap" => at'[wait[v]] = "ended"
    BY DEF JoinShape
  <2>1. v # c /\ at[v] \in InJoin
    BY <1>8 DEF InJoin
  <2>2. /\ wait[v] \in Forked /\ Parent[wait[v]] = v /\ mem[wait[v]] = "live"
        /\ at[v] = "reap" => at[wait[v]] = "ended"
    BY <2>1 DEF IInv, JoinShape
  <2>3. at'[v] = "reap" => at[v] = "reap"
    BY <1>8, <2>1
  <2>4. at[wait[v]] = "ended" => at'[wait[v]] = "ended"
    BY <1>8, <2>2 DEF Forked
  <2> QED
    BY <2>2, <2>3, <2>4
<1>10. DoneShape'
  BY <1>8, TasksAssumption DEF IInv, TypeOK, DoneShape, Epilogue, Forked
<1>11. HandleShape'
  BY <1>8, <1>4 DEF IInv, HandleShape, Forked
<1>12. PendingShape'
  BY <1>8, TasksAssumption DEF IInv, PendingShape, InJoin, Forked
<1> QED
  BY <1>2, <1>5, <1>6, <1>7, <1>9, <1>10, <1>11, <1>12 DEF IInv

LEMMA JoinHelpInv ==
  ASSUME IInv, NEW t \in Threads, JoinHelp(t)
  PROVE  IInv'
<1>1. PICK u \in Tasks :
        /\ at[u] = "help" /\ count > 0 /\ Dequeue /\ Push(t, queue[head])
        /\ at' = [at EXCEPT ![u] = "retest", ![queue[head]] = "run"]
        /\ UNCHANGED <<up, worker, inline, wait, done, mem>>
  BY DEF JoinHelp, Executes
<1> DEFINE places == [at EXCEPT ![u] = "retest"]
<1>2. /\ places \in [Tasks -> {"unborn", "queued", "ended"} \cup OnStack]
      /\ \A v \in Tasks : places[v] = at[v] \/ (at[v] = "help" /\ places[v] = "retest")
      /\ at' = [places EXCEPT ![queue[head]] = "run"]
  BY <1>1 DEF IInv, TypeOK, OnStack, InJoin
<1> HIDE DEF places
<1>3. worker' \in [Workers -> {"off", "loop", "asleep", "take", "busy"}]
  BY <1>1 DEF IInv, TypeOK
<1> QED
  BY <1>1, <1>2, <1>3, TakeInv

LEMMA WorkerTakeInv ==
  ASSUME IInv, NEW w \in Workers, WorkerTake(w)
  PROVE  IInv'
<1>1. worker' \in [Workers -> {"off", "loop", "asleep", "take", "busy"}]
  BY DEF IInv, TypeOK, WorkerTake
<1>2. w \in Threads /\ at \in [Tasks -> {"unborn", "queued", "ended"} \cup OnStack]
  BY DEF Threads, IInv, TypeOK
<1>3. /\ count > 0 /\ Dequeue /\ Push(w, queue[head])
      /\ at' = [at EXCEPT ![queue[head]] = "run"]
      /\ UNCHANGED <<up, inline, wait, done, mem>>
  BY DEF WorkerTake
<1> QED
  BY <1>1, <1>2, <1>3, TakeInv

-----------------------------------------------------------------------------
(* The end of a task. *)

LEMMA ReturnInv ==
  ASSUME IInv, NEW t \in Threads, Return(t)
  PROVE  IInv'
<1>1. PICK u \in Tasks :
        /\ Executes(t, u, "run") /\ Pending(u) = {}
        /\ at' = [at EXCEPT ![u] = IF u = Root THEN "ended"
                                   ELSE IF u \in inline THEN "store" ELSE "publish"]
        /\ IF u = Root THEN Pop(t) ELSE UNCHANGED <<stacks, worker>>
        /\ UNCHANGED <<up, ring, inline, wait, done, mem>>
  BY DEF Return
<1>2. top[t] = u /\ at[u] = "run" /\ \A c \in Forked : Parent[c] = u => mem[c] # "live"
  BY <1>1 DEF Executes, Pending, Children
<1> USE <1>1, <1>2 DEF IInv, TypeOK
<1>3. worker' \in [Workers -> {"off", "loop", "asleep", "take", "busy"}]
  BY DEF Pop
<1>4. top' \in [Threads -> Tasks \cup {NoTask}] /\ below' = below
  BY DEF Pop, stacks
<1>5. TypeOK'
  BY <1>3, <1>4 DEF OnStack, Epilogue, ring
<1>6. TailShape' /\ QueueExact'
  BY DEF TailShape, QueueExact, Used, ring
<1>7. StackShape'
  <2>1. CASE u = Root
    <3>1. \A v \in Tasks : Active(v)' <=> Active(v) /\ v # top[t]
      BY <2>1 DEF Active, OnStack, InJoin, Epilogue
    <3> QED
      BY <2>1, <3>1, PopShape
  <2>2. CASE u # Root
    BY <2>2 DEF StackShape, Active, OnStack, Epilogue, stacks
  <2> QED
    BY <2>1, <2>2
<1>8. JoinShape' /\ DoneShape' /\ HandleShape' /\ PendingShape'
  BY DEF JoinShape, DoneShape, HandleShape, PendingShape, InJoin, Epilogue, Forked
<1> QED
  BY <1>5, <1>6, <1>7, <1>8 DEF IInv

\* The epilogue of a task takes it off the stack of t: from "store", where it
\* also sets done, or from "unlock", where done is set already.
LEMMA EndInv ==
  ASSUME IInv, NEW t \in Threads, NEW u \in Tasks, top[t] = u, at[u] \in Epilogue,
         at' = [at EXCEPT ![u] = "ended"], Pop(t),
         done' \in {done, done \cup {u}},
         UNCHANGED <<up, ring, inline, wait, mem>>
  PROVE  IInv'
<1> USE DEF IInv, TypeOK, ring
<1>1. u \in Forked
  BY DEF DoneShape, Forked
<1>2. TypeOK'
  BY <1>1 DEF Pop
<1>3. TailShape' /\ QueueExact'
  BY DEF TailShape, QueueExact, Used, Epilogue
<1>4. StackShape'
  <2>1. \A v \in Tasks : Active(v)' <=> Active(v) /\ v # top[t]
    BY DEF Active, OnStack, InJoin, Epilogue
  <2> QED
    BY <2>1, PopShape
<1>5. JoinShape' /\ DoneShape'
  BY <1>1 DEF JoinShape, DoneShape, InJoin, Epilogue, Forked
<1>6. HandleShape' /\ PendingShape'
  BY DEF HandleShape, PendingShape, InJoin, Epilogue, Forked
<1> QED
  BY <1>2, <1>3, <1>4, <1>5, <1>6 DEF IInv

LEMMA StoreInlineInv ==
  ASSUME IInv, NEW t \in Threads, StoreInline(t)
  PROVE  IInv'
BY EndInv DEF StoreInline, Executes, Epilogue

LEMMA UnlockInv ==
  ASSUME IInv, NEW t \in Threads, Unlock(t)
  PROVE  IInv'
BY EndInv DEF Unlock, Executes, Epilogue

LEMMA PublishInv ==
  ASSUME IInv, NEW t \in Threads, Publish(t)
  PROVE  IInv'
<1>1. PICK u \in Tasks :
        /\ Executes(t, u, "publish")
        /\ done' = done \cup {u}
        /\ at'   = [v \in Tasks |-> IF v = u THEN "unlock"
                                    ELSE IF at[v] = "sleep" /\ wait[v] = u
                                         THEN AfterWait ELSE at[v]]
        /\ UNCHANGED <<up, ring, stacks, worker, inline, wait, mem>>
  BY DEF Publish
<1>2. u \in Forked /\ at[u] = "publish"
  BY <1>1 DEF Executes, IInv, DoneShape, Epilogue, Forked
<1> USE <1>1, <1>2 DEF IInv, TypeOK, ring, stacks, AfterWait
<1>3. TypeOK'
  BY DEF OnStack, InJoin, Epilogue
<1>4. TailShape' /\ QueueExact'
  BY DEF TailShape, QueueExact, Used
<1>5. StackShape'
  BY DEF StackShape, Active, OnStack, InJoin, Epilogue
<1>6. JoinShape'
  BY DEF JoinShape, InJoin, Forked
<1>7. DoneShape' /\ HandleShape' /\ PendingShape'
  BY TasksAssumption DEF DoneShape, HandleShape, PendingShape, InJoin, Epilogue, Forked
<1> QED
  BY <1>3, <1>4, <1>5, <1>6, <1>7 DEF IInv

-----------------------------------------------------------------------------
(* Theorems. *)

LEMMA InitIInv == Init => IInv
<1> SUFFICES ASSUME Init PROVE IInv
  OBVIOUS
<1> USE TasksAssumption, ThreadsAssumption, QueueAssumption DEF Init
<1>1. TypeOK
  <2>1. queue \in [Slots -> Tasks \cup {NoTask}] /\ up \in BOOLEAN
    OBVIOUS
  <2>2. /\ head \in Nat /\ tail \in Nat /\ count \in 0 .. QueueSize
        /\ QueueSize > 0 => head \in Slots /\ tail \in Slots
    BY DEF Slots
  <2>3. /\ top \in [Threads -> Tasks \cup {NoTask}]
        /\ at \in [Tasks -> {"unborn", "queued", "ended"} \cup OnStack]
    BY DEF OnStack
  <2> QED
    BY <2>1, <2>2, <2>3 DEF TypeOK
<1>2. TailShape /\ QueueExact
  BY DEF TailShape, QueueExact, Used, Slots
<1>3. StackShape
  BY DEF StackShape, Active, OnStack, Threads, InJoin, Epilogue
<1>4. JoinShape /\ DoneShape /\ HandleShape /\ PendingShape
  BY DEF JoinShape, DoneShape, HandleShape, PendingShape, InJoin, Epilogue, Forked
<1> QED
  BY <1>1, <1>2, <1>3, <1>4 DEF IInv

LEMMA NextIInv == IInv /\ [Next]_vars => IInv'
<1> SUFFICES ASSUME IInv, [Next]_vars PROVE IInv'
  OBVIOUS
<1>1. ASSUME NEW t \in Threads, ThreadStep(t) PROVE IInv'
  <2>1. CASE InitPool(t)
    BY <2>1, WorkerMoves DEF InitPool
  <2>2. CASE ForkQueued(t) \/ ForkInline(t) \/ StoreInline(t)
    BY <2>2, ForkQueuedInv, ForkInlineInv, StoreInlineInv
  <2>3. CASE Join(t) \/ JoinTest(t) \/ JoinReap(t) \/ JoinHelp(t)
    BY <2>3, JoinInv, JoinTestInv, JoinReapInv, JoinHelpInv
  <2>4. CASE JoinNoHelp(t) \/ JoinRetest(t) \/ JoinTimeout(t)
    BY <2>4, JoinIdleInv
  <2>5. CASE Return(t) \/ Publish(t) \/ Unlock(t)
    BY <2>5, ReturnInv, PublishInv, UnlockInv
  <2> QED
    BY <1>1, <2>1, <2>2, <2>3, <2>4, <2>5 DEF ThreadStep
<1>2. ASSUME NEW w \in Workers, WorkerStep(w) \/ SpuriousWake(w) PROVE IInv'
  <2>1. CASE WorkerTake(w)
    BY <2>1, WorkerTakeInv
  <2>2. CASE WorkerPoll(w) \/ WorkerMiss(w) \/ SpuriousWake(w)
    <3>1. /\ worker' \in [Workers -> {"off", "loop", "asleep", "take", "busy"}]
          /\ up' \in BOOLEAN
          /\ UNCHANGED <<ring, stacks, at, inline, wait, done, mem>>
      BY <2>2 DEF WorkerPoll, WorkerMiss, SpuriousWake, IInv, TypeOK
    <3> QED
      BY <3>1, WorkerMoves
  <2> QED
    BY <1>2, <2>1, <2>2 DEF WorkerStep
<1>3. ASSUME UNCHANGED vars PROVE IInv'
  BY <1>3 DEF vars, IInv, TypeOK, TailShape, QueueExact, StackShape, JoinShape,
              DoneShape, HandleShape, PendingShape, Used, Active
<1> QED
  BY <1>1, <1>2, <1>3 DEF Next, Exited

\* The inductive invariant of the pool.
THEOREM Inductive == Spec => []IInv
BY InitIInv, NextIInv, PTL DEF Spec

\* Every variable keeps its type; in particular head and tail stay on the ring
\* of llm_queue_size slots (threads.c: llm_fork, llm_do_work).
THEOREM TypeCorrect == Spec => []TypeOK
<1>1. IInv => TypeOK
  BY DEF IInv
<1> QED
  BY <1>1, Inductive, PTL

\* The ring holds each task that waits to be run exactly once and nothing else,
\* for any number of threads that fork, help and work.
THEOREM QueueIsExact == Spec => []QueueExact
<1>1. IInv => QueueExact
  BY DEF IInv
<1> QED
  BY <1>1, Inductive, PTL

\* llm_join never frees a handle that a runner will still lock, write or unlock.
THEOREM HandleStaysLive == Spec => []HandleLive
<1>1. IInv => HandleLive
  BY DEF IInv, TypeOK, HandleLive, HandleShape, Active, OnStack, InJoin, Epilogue, Forked
<1> QED
  BY <1>1, Inductive, PTL

\* A task that may still read its environment has its parent on a stack.
THEOREM EnvironmentStaysLive == Spec => []EnvironmentLive
<1>1. IInv => EnvironmentLive
  BY TasksAssumption
     DEF IInv, TypeOK, EnvironmentLive, HandleShape, PendingShape, Active, OnStack,
         InJoin, Epilogue, Forked
<1> QED
  BY <1>1, Inductive, PTL

-----------------------------------------------------------------------------
(***************************************************************************)
(* The pool implements structured fork/join, for any tree of tasks, any    *)
(* finite set of workers and any ring size; it loses no signal; and its    *)
(* joiners never all wait for one another.                                 *)
(*                                                                         *)
(* Every step of ThreadPool changes the status of at most one task, as     *)
(* ForkJoin allows, or of none.  The status of a task follows from its     *)
(* place and its handle; beyond IInv this needs that a task that has ended *)
(* is done.                                                                *)
(***************************************************************************)

EndShape == \A c \in Forked : at[c] \in {"unlock", "ended"} => c \in done

RInv == IInv /\ EndShape

LEMMA EndKeeps == RInv /\ [Next]_vars => EndShape'
<1> SUFFICES ASSUME RInv, [Next]_vars, NEW c \in Forked, at'[c] \in {"unlock", "ended"}
             PROVE  c \in done'
  BY DEF EndShape
<1> USE DEF RInv, EndShape
<1>1. at[c] \in {"unlock", "ended"} /\ done \subseteq done' => c \in done'
  OBVIOUS
<1>2. c \in Tasks /\ c # Root /\ at \in [Tasks -> {"unborn", "queued", "ended"} \cup OnStack]
  BY DEF Forked, IInv, TypeOK
<1>3. CASE UNCHANGED <<at, done>>
  BY <1>1, <1>3
<1>4. ASSUME NEW t \in Threads, ThreadStep(t) PROVE c \in done'
  <2>1. CASE InitPool(t)
    BY <2>1, <1>3 DEF InitPool
  <2>2. CASE ForkQueued(t) \/ ForkInline(t)
    BY <2>2, <1>1, <1>2 DEF ForkQueued, ForkInline
  <2>3. CASE StoreInline(t) \/ Publish(t)
    BY <2>3, <1>1, <1>2 DEF StoreInline, Publish, AfterWait
  <2>4. CASE Join(t) \/ JoinTest(t) \/ JoinReap(t)
    BY <2>4, <1>1, <1>2 DEF Join, JoinTest, JoinReap, NotDone
  <2>5. CASE JoinHelp(t)
    BY <2>5, <1>1, <1>2 DEF JoinHelp
  <2>6. CASE JoinNoHelp(t) \/ JoinRetest(t) \/ JoinTimeout(t)
    BY <2>6, <1>1, <1>2 DEF JoinNoHelp, JoinRetest, JoinTimeout, AfterWait
  <2>7. CASE Return(t)
    BY <2>7, <1>1, <1>2 DEF Return
  <2>8. CASE Unlock(t)
    BY <2>8, <1>1, <1>2 DEF Unlock, Executes
  <2> QED
    BY <1>4, <2>1, <2>2, <2>3, <2>4, <2>5, <2>6, <2>7, <2>8 DEF ThreadStep
<1>5. ASSUME NEW w \in Workers, WorkerStep(w) \/ SpuriousWake(w) PROVE c \in done'
  BY <1>5, <1>1, <1>2, <1>3 DEF WorkerStep, SpuriousWake, WorkerPoll, WorkerTake, WorkerMiss
<1> QED
  BY <1>3, <1>4, <1>5 DEF Next, Exited, vars

LEMMA RInvHolds == Spec => []RInv
<1>1. Init => EndShape
  BY DEF Init, EndShape, Forked
<1>2. RInv /\ [Next]_vars => RInv'
  BY NextIInv, EndKeeps DEF RInv
<1> QED
  BY InitIInv, <1>1, <1>2, PTL DEF Spec, RInv

-----------------------------------------------------------------------------
(* What the status of a task depends on.                                   *)

LEMMA StatusFixed ==
  ASSUME \A u \in Tasks : status'[u] = status[u]
  PROVE  status' = status
<1>1. status = [u \in Tasks |-> status[u]]
  BY DEF status
<1>2. status' = [u \in Tasks |-> status'[u]]
  BY DEF status
<1> QED
  BY <1>1, <1>2

LEMMA StatusMoves ==
  ASSUME NEW c \in Tasks, \A u \in Tasks \ {c} : status'[u] = status[u]
  PROVE  status' = [status EXCEPT ![c] = status'[c]]
<1>1. status = [u \in Tasks |-> status[u]]
  BY DEF status
<1>2. status' = [u \in Tasks |-> status'[u]]
  BY DEF status
<1> QED
  BY <1>1, <1>2

LEMMA StatusSame ==
  ASSUME NEW u \in Tasks, mem'[u] = mem[u], u \in done' <=> u \in done,
         Active(u)' <=> Active(u),
         at'[u] = "ended" <=> at[u] = "ended", at'[u] = "queued" <=> at[u] = "queued"
  PROVE  status'[u] = status[u]
  BY DEF status

\* Before its epilogue is over, an active task is running.
Runs(u) == at[u] \in {"run", "store", "publish"} \cup InJoin

LEMMA RunsIsRunning ==
  ASSUME RInv, NEW u \in Tasks, Runs(u)
  PROVE  status[u] = "running"
<1>1. Active(u) /\ at[u] # "ended" /\ at[u] # "unlock"
  BY DEF Runs, Active, OnStack, InJoin, Epilogue
<1>2. u \notin done
  BY <1>1 DEF RInv, IInv, DoneShape
<1>3. u # Root => mem[u] # "freed"
  BY <1>1 DEF RInv, IInv, HandleShape, Forked
<1> QED
  BY <1>1, <1>2, <1>3 DEF status

LEMMA ParentRuns ==
  ASSUME RInv, NEW c \in Forked, Runs(Parent[c])
  PROVE  Promise!ParentRuns(c)
<1>1. c # Root /\ Parent[c] \in Tasks
  BY TasksAssumption DEF Forked
<1> QED
  BY <1>1, RunsIsRunning DEF Promise!ParentRuns

\* Steps within llm_join change the status of no task.
LEMMA Stutter ==
  ASSUME UNCHANGED <<mem, done>>,
         \A u \in Tasks : at'[u] = at[u] \/ (Runs(u) /\ Runs(u)')
  PROVE  UNCHANGED status
<1> SUFFICES ASSUME NEW u \in Tasks PROVE status'[u] = status[u]
  BY StatusFixed
<1>1. CASE at'[u] = at[u]
  BY <1>1, StatusSame DEF Active
<1>2. CASE Runs(u) /\ Runs(u)'
  <2>1. /\ Active(u) /\ at[u] # "ended" /\ at[u] # "queued"
        /\ Active(u)' /\ at'[u] # "ended" /\ at'[u] # "queued"
    BY <1>2 DEF Runs, Active, OnStack, InJoin, Epilogue
  <2> QED
    BY <2>1, StatusSame
<1> QED
  BY <1>1, <1>2

-----------------------------------------------------------------------------
(* Every action, as ForkJoin sees it.                                      *)

LEMMA ForkSeen ==
  ASSUME RInv, NEW t \in Threads, ForkQueued(t) \/ ForkInline(t)
  PROVE  Promise!Next
<1>1. PICK u \in Tasks, c \in Forked, place \in {"queued", "run"} :
        /\ Parent[c] = u /\ at[u] = "run" /\ at[c] = "unborn"
        /\ at' = [at EXCEPT ![c] = place]
        /\ mem' = [mem EXCEPT ![c] = "live"]
        /\ done' = done
  BY DEF ForkQueued, ForkInline, CanFork, Executes, Children
<1>2. c \in Forked /\ c \in Tasks /\ c # Root /\ Parent[c] = u
  BY <1>1 DEF Forked
<1>3. at'[c] = place /\ mem'[c] = "live" /\ \A v \in Tasks \ {c} : at'[v] = at[v] /\ mem'[v] = mem[v]
  BY <1>1, <1>2 DEF RInv, IInv, TypeOK
<1>4. c \notin done /\ mem[c] = "none" /\ ~Active(c)
  BY <1>1, <1>2 DEF RInv, IInv, DoneShape, HandleShape, Active, OnStack, InJoin, Epilogue
<1>5. status[c] = "unborn"
  BY <1>1, <1>2, <1>4 DEF status
<1>6. status'[c] = IF place = "run" THEN "running" ELSE "forked"
  <2>1. Active(c)' <=> place = "run"
    BY <1>3 DEF Active, OnStack, InJoin, Epilogue
  <2> QED
    BY <1>1, <1>2, <1>3, <1>4, <2>1 DEF status
<1>7. \A v \in Tasks \ {c} : status'[v] = status[v]
  BY <1>1, <1>3, StatusSame DEF Active
<1>8. status' = [status EXCEPT ![c] = status'[c]]
  BY <1>2, <1>7, StatusMoves
<1>9. Promise!ParentRuns(c)
  BY <1>1, <1>2, ParentRuns DEF Runs
<1> QED
  BY <1>2, <1>5, <1>6, <1>8, <1>9 DEF Promise!Next, Promise!Fork, Promise!Move

LEMMA TakeSeen ==
  ASSUME RInv, NEW c, c = queue[head], count > 0, UNCHANGED <<mem, done>>,
         \A u \in Tasks \ {c} : at'[u] = at[u] \/ (Runs(u) /\ Runs(u)'),
         at'[c] = "run"
  PROVE  Promise!Next
<1>1. c \in Tasks /\ at[c] = "queued"
  BY HeadUsed DEF RInv, IInv, QueueExact
<1>2. c \in Forked /\ c # Root
  BY <1>1 DEF RInv, IInv, DoneShape, Forked
<1>3. c \notin done /\ mem[c] = "live" /\ ~Active(c)
  BY <1>1, <1>2 DEF RInv, IInv, TypeOK, DoneShape, HandleShape, Active, OnStack, InJoin, Epilogue
<1>4. status[c] = "forked"
  BY <1>1, <1>2, <1>3 DEF status
<1>5. status'[c] = "running"
  <2>1. Active(c)'
    BY DEF Active, OnStack
  <2> QED
    BY <1>1, <1>2, <1>3, <2>1 DEF status
<1>6. ASSUME NEW v \in Tasks \ {c} PROVE status'[v] = status[v]
  <2>1. CASE at'[v] = at[v]
    BY <2>1, StatusSame DEF Active
  <2>2. CASE Runs(v) /\ Runs(v)'
    <3>1. /\ Active(v) /\ at[v] # "ended" /\ at[v] # "queued"
          /\ Active(v)' /\ at'[v] # "ended" /\ at'[v] # "queued"
      BY <2>2 DEF Runs, Active, OnStack, InJoin, Epilogue
    <3> QED
      BY <3>1, StatusSame
  <2> QED
    BY <2>1, <2>2
<1>7. status' = [status EXCEPT ![c] = status'[c]]
  BY <1>1, <1>6, StatusMoves
<1>8. Runs(Parent[c])
  BY <1>2, <1>3 DEF RInv, IInv, PendingShape, Runs
<1>9. Promise!ParentRuns(c)
  BY <1>2, <1>8, ParentRuns
<1> QED
  BY <1>1, <1>4, <1>5, <1>7, <1>9 DEF Promise!Next, Promise!Start, Promise!Move

LEMMA WorkSeen ==
  ASSUME RInv, (\E t \in Threads : JoinHelp(t)) \/ (\E w \in Workers : WorkerTake(w))
  PROVE  Promise!Next
<1> PICK c : c = queue[head]
  OBVIOUS
<1>1. ASSUME count > 0 PROVE c \in Tasks /\ at[c] = "queued"
  BY <1>1, HeadUsed DEF RInv, IInv, QueueExact
<1>2. CASE \E t \in Threads : JoinHelp(t)
  <2>1. PICK u \in Tasks :
          /\ at[u] = "help" /\ count > 0
          /\ at' = [at EXCEPT ![u] = "retest", ![c] = "run"]
          /\ UNCHANGED <<mem, done>>
    BY <1>2 DEF JoinHelp, Executes
  <2>2. /\ at'[c] = "run"
        /\ \A v \in Tasks \ {c} : at'[v] = IF v = u THEN "retest" ELSE at[v]
    BY <1>1, <2>1 DEF RInv, IInv, TypeOK
  <2>3. \A v \in Tasks \ {c} : at'[v] = at[v] \/ (Runs(v) /\ Runs(v)')
    BY <2>1, <2>2 DEF Runs, InJoin
  <2> QED
    BY <2>1, <2>2, <2>3, TakeSeen
<1>3. CASE \E w \in Workers : WorkerTake(w)
  <2>1. count > 0 /\ at' = [at EXCEPT ![c] = "run"] /\ UNCHANGED <<mem, done>>
    BY <1>3 DEF WorkerTake
  <2>2. at'[c] = "run" /\ \A v \in Tasks \ {c} : at'[v] = at[v]
    BY <1>1, <2>1 DEF RInv, IInv, TypeOK
  <2> QED
    BY <2>1, <2>2, TakeSeen
<1> QED
  BY <1>2, <1>3

LEMMA ReapSeen ==
  ASSUME RInv, NEW t \in Threads, JoinReap(t)
  PROVE  Promise!Next
<1>1. PICK u \in Tasks :
        /\ at[u] = "reap" /\ at' = [at EXCEPT ![u] = "run"]
        /\ mem' = [mem EXCEPT ![wait[u]] = "freed"] /\ done' = done
  BY DEF JoinReap, Executes
<1> DEFINE c == wait[u]
<1>2. c \in Forked /\ Parent[c] = u /\ mem[c] = "live" /\ at[c] = "ended"
  BY <1>1 DEF RInv, IInv, JoinShape, InJoin
<1>3. c \in Tasks /\ c # Root /\ c # u /\ c \in done
  BY <1>1, <1>2 DEF Forked, RInv, EndShape
<1>4. /\ mem'[c] = "freed" /\ at'[c] = "ended" /\ at'[u] = "run"
      /\ \A v \in Tasks \ {c} : mem'[v] = mem[v]
      /\ \A v \in Tasks \ {u} : at'[v] = at[v]
  BY <1>1, <1>2, <1>3 DEF RInv, IInv, TypeOK
<1>5. status[c] = "finished" /\ status'[c] = "joined"
  BY <1>1, <1>2, <1>3, <1>4 DEF status
<1>6. ASSUME NEW v \in Tasks \ {c} PROVE status'[v] = status[v]
  <2>1. CASE v = u
    <3>1. Active(v) /\ Active(v)'
      BY <1>1, <1>4, <2>1 DEF Active, OnStack, InJoin
    <3> QED
      BY <1>1, <1>4, <2>1, <3>1, StatusSame
  <2>2. CASE v # u
    BY <1>1, <1>4, <2>2, StatusSame DEF Active
  <2> QED
    BY <2>1, <2>2
<1>7. status' = [status EXCEPT ![c] = status'[c]]
  BY <1>3, <1>6, StatusMoves
<1>8. Promise!ParentRuns(c)
  BY <1>1, <1>2, ParentRuns DEF Runs, InJoin
<1> HIDE DEF c
<1> QED
  BY <1>3, <1>5, <1>7, <1>8 DEF Promise!Next, Promise!Join, Promise!Move

\* A task whose children are all unborn or joined finishes.
LEMMA FinishSeen ==
  ASSUME RInv, NEW u \in Tasks, Runs(u), status'[u] = "finished",
         \A c \in Children(u) : mem[c] # "live",
         \A v \in Tasks \ {u} : status'[v] = status[v]
  PROVE  Promise!Next
<1>1. status[u] = "running" /\ status' = [status EXCEPT ![u] = status'[u]]
  BY RunsIsRunning, StatusMoves
<1>2. ASSUME NEW d \in Tasks \ {Root}, Parent[d] = u PROVE status[d] \in {"unborn", "joined"}
  <2>1. d \in Forked /\ mem[d] \in {"none", "freed"}
    BY <1>2 DEF Children, Forked, RInv, IInv, TypeOK
  <2>2. CASE mem[d] = "freed"
    BY <2>2 DEF status
  <2>3. CASE mem[d] = "none"
    <3>1. at[d] = "unborn"
      BY <2>1, <2>3 DEF RInv, IInv, HandleShape
    <3>2. d \notin done /\ ~Active(d)
      BY <3>1 DEF RInv, IInv, DoneShape, Active, OnStack, InJoin, Epilogue
    <3> QED
      BY <2>3, <3>1, <3>2 DEF status
  <2> QED
    BY <2>1, <2>2, <2>3
<1> QED
  BY <1>1, <1>2 DEF Promise!Next, Promise!Finish, Promise!Move

LEMMA ReturnSeen ==
  ASSUME RInv, NEW t \in Threads, Return(t)
  PROVE  Promise!Next \/ UNCHANGED status
<1>1. PICK u \in Tasks :
        /\ at[u] = "run" /\ Pending(u) = {}
        /\ at' = [at EXCEPT ![u] = IF u = Root THEN "ended"
                                   ELSE IF u \in inline THEN "store" ELSE "publish"]
        /\ UNCHANGED <<mem, done>>
  BY DEF Return, Executes
<1>2. \A v \in Tasks \ {u} : at'[v] = at[v]
  BY <1>1 DEF RInv, IInv, TypeOK
<1>3. CASE u = Root
  <2>1. at'[u] = "ended"
    BY <1>1, <1>3 DEF RInv, IInv, TypeOK
  <2>2. status'[u] = "finished"
    BY <1>3, <2>1 DEF status
  <2>3. \A v \in Tasks \ {u} : status'[v] = status[v]
    BY <1>1, <1>2, StatusSame DEF Active
  <2>4. \A c \in Children(u) : mem[c] # "live"
    BY <1>1 DEF Pending
  <2>5. Runs(u)
    BY <1>1 DEF Runs
  <2> QED
    BY <2>2, <2>3, <2>4, <2>5, FinishSeen
<1>4. CASE u # Root
  <2>1. at'[u] \in {"store", "publish"}
    BY <1>1, <1>4 DEF RInv, IInv, TypeOK
  <2>2. Runs(u) /\ Runs(u)'
    BY <1>1, <2>1 DEF Runs
  <2> QED
    BY <1>1, <1>2, <2>2, Stutter
<1> QED
  BY <1>3, <1>4

LEMMA DoneSeen ==
  ASSUME RInv, NEW t \in Threads, StoreInline(t) \/ Publish(t)
  PROVE  Promise!Next
<1>1. PICK u \in Tasks :
        /\ at[u] \in {"store", "publish"} /\ done' = done \cup {u} /\ mem' = mem
        /\ at'[u] \in {"ended", "unlock"}
        /\ \A v \in Tasks \ {u} : at'[v] = at[v] \/ (at[v] = "sleep" /\ at'[v] = "test")
  <2>1. at \in [Tasks -> {"unborn", "queued", "ended"} \cup OnStack]
    BY DEF RInv, IInv, TypeOK
  <2>2. CASE StoreInline(t)
    BY <2>1, <2>2 DEF StoreInline, Executes
  <2>3. CASE Publish(t)
    BY <2>1, <2>3 DEF Publish, Executes, AfterWait
  <2> QED
    BY <2>2, <2>3
<1>2. u \in Forked /\ u # Root
  BY <1>1 DEF RInv, IInv, DoneShape, Epilogue, Forked
<1>3. mem[u] # "freed"
  BY <1>1, <1>2 DEF RInv, IInv, HandleShape
<1>4. status'[u] = "finished"
  BY <1>1, <1>2, <1>3 DEF status
<1>5. ASSUME NEW v \in Tasks \ {u} PROVE status'[v] = status[v]
  <2>1. /\ Active(v)' <=> Active(v)
        /\ at'[v] = "ended" <=> at[v] = "ended"
        /\ at'[v] = "queued" <=> at[v] = "queued"
    BY <1>1 DEF Active, OnStack, InJoin
  <2> QED
    BY <1>1, <2>1, StatusSame
<1>6. \A c \in Children(u) : mem[c] # "live"
  BY <1>1 DEF RInv, IInv, PendingShape, Children, InJoin
<1>7. Runs(u)
  BY <1>1 DEF Runs
<1> QED
  BY <1>4, <1>5, <1>6, <1>7, FinishSeen

LEMMA UnlockSeen ==
  ASSUME RInv, NEW t \in Threads, Unlock(t)
  PROVE  UNCHANGED status
<1>1. PICK u \in Tasks : /\ at[u] = "unlock" /\ at' = [at EXCEPT ![u] = "ended"]
                         /\ UNCHANGED <<mem, done>>
  BY DEF Unlock, Executes
<1>2. u \in Forked /\ u # Root /\ u \in done
  BY <1>1 DEF RInv, IInv, DoneShape, EndShape, Epilogue, Forked
<1>3. status'[u] = status[u]
  BY <1>1, <1>2 DEF status
<1>4. \A v \in Tasks \ {u} : status'[v] = status[v]
  BY <1>1, StatusSame DEF Active, RInv, IInv, TypeOK
<1> QED
  BY <1>3, <1>4, StatusFixed

LEMMA JoinSeen ==
  ASSUME RInv, NEW t \in Threads,
         Join(t) \/ JoinTest(t) \/ JoinNoHelp(t) \/ JoinRetest(t) \/ JoinTimeout(t)
  PROVE  UNCHANGED status
<1>1. PICK u \in Tasks, place \in InJoin :
        /\ at[u] \in {"run"} \cup InJoin /\ at' = [at EXCEPT ![u] = place]
        /\ UNCHANGED <<mem, done>>
  <2>1. CASE Join(t) \/ JoinTest(t)
    BY <2>1 DEF Join, JoinTest, Executes, InJoin, NotDone
  <2>2. CASE JoinNoHelp(t) \/ JoinRetest(t) \/ JoinTimeout(t)
    BY <2>2 DEF JoinNoHelp, JoinRetest, JoinTimeout, Executes, InJoin, AfterWait
  <2> QED
    BY <2>1, <2>2
<1>2. at'[u] = place /\ \A v \in Tasks \ {u} : at'[v] = at[v]
  BY <1>1 DEF RInv, IInv, TypeOK
<1>3. Runs(u) /\ Runs(u)'
  BY <1>1, <1>2 DEF Runs
<1> QED
  BY <1>1, <1>2, <1>3, Stutter

LEMMA StepSeen == RInv /\ [Next]_vars => [Promise!Next]_status
<1> SUFFICES ASSUME RInv, [Next]_vars PROVE Promise!Next \/ UNCHANGED status
  OBVIOUS
<1>1. ASSUME UNCHANGED <<at, mem, done>> PROVE UNCHANGED status
  BY <1>1, Stutter
<1>2. ASSUME NEW t \in Threads, ThreadStep(t) PROVE Promise!Next \/ UNCHANGED status
  <2>1. CASE InitPool(t)
    BY <2>1, <1>1 DEF InitPool
  <2>2. CASE ForkQueued(t) \/ ForkInline(t)
    BY <2>2, ForkSeen
  <2>3. CASE StoreInline(t) \/ Publish(t)
    BY <2>3, DoneSeen
  <2>4. CASE Join(t) \/ JoinTest(t) \/ JoinNoHelp(t) \/ JoinRetest(t) \/ JoinTimeout(t)
    BY <2>4, JoinSeen
  <2>5. CASE JoinReap(t)
    BY <2>5, ReapSeen
  <2>6. CASE JoinHelp(t)
    BY <2>6, WorkSeen
  <2>7. CASE Return(t)
    BY <2>7, ReturnSeen
  <2>8. CASE Unlock(t)
    BY <2>8, UnlockSeen
  <2> QED
    BY <1>2, <2>1, <2>2, <2>3, <2>4, <2>5, <2>6, <2>7, <2>8 DEF ThreadStep
<1>3. ASSUME NEW w \in Workers, WorkerStep(w) \/ SpuriousWake(w)
      PROVE  Promise!Next \/ UNCHANGED status
  <2>1. CASE WorkerTake(w)
    BY <2>1, WorkSeen
  <2>2. CASE WorkerPoll(w) \/ WorkerMiss(w) \/ SpuriousWake(w)
    BY <2>2, <1>1 DEF WorkerPoll, WorkerMiss, SpuriousWake
  <2> QED
    BY <1>3, <2>1, <2>2 DEF WorkerStep
<1>4. CASE UNCHANGED vars
  BY <1>4, <1>1 DEF vars
<1> QED
  BY <1>2, <1>3, <1>4 DEF Next, Exited

LEMMA InitSeen == Init => Promise!Init
<1> SUFFICES ASSUME Init, NEW u \in Tasks
             PROVE  status[u] = IF u = Root THEN "running" ELSE "unborn"
  BY DEF Promise!Init, status
<1> QED
  BY DEF Init, status, Active, OnStack, InJoin, Epilogue

(* threads.c keeps the promise of structured fork/join: a task runs once,  *)
(* after llm_fork and while its parent runs, and llm_join returns after    *)
(* the task has finished.                                                  *)
THEOREM PoolImplementsForkJoin == Spec => ImplementsForkJoin
<1>1. Init => Promise!Init
  BY InitSeen
<1>2. RInv /\ [Next]_vars => [Promise!Next]_status
  BY StepSeen
<1> QED
  BY <1>1, <1>2, RInvHolds, PTL DEF Spec, ImplementsForkJoin, Promise!Spec

-----------------------------------------------------------------------------
(* Signals.  That a worker sleeps while there is work it could do needs no *)
(* more than the types.                                                    *)

\* The number of workers that are awake follows the worker that moves.
LEMMA AwakeFinite ==
  ASSUME worker \in [Workers -> {"off", "loop", "asleep", "take", "busy"}]
  PROVE  IsFiniteSet(Awake) /\ Cardinality(Awake) \in Nat
  BY ThreadsAssumption, FS_Subset, FS_CardinalityType DEF Awake

LEMMA AwakeMoves ==
  ASSUME TypeOK, NEW w \in Workers, NEW place \in {"off", "loop", "asleep", "take", "busy"},
         worker' = [worker EXCEPT ![w] = place]
  PROVE  /\ Awake' = IF place \in {"loop", "take"} THEN Awake \cup {w} ELSE Awake \ {w}
         /\ Asleep' = IF place = "asleep" THEN Asleep \cup {w} ELSE Asleep \ {w}
  BY DEF TypeOK, Awake, Asleep

\* A worker that wakes up or stays awake keeps the balance.
LEMMA WakeKeeps ==
  ASSUME TypeOK, NoLostWakeup, NEW w \in Workers, NEW place \in {"loop", "take"},
         worker' = [worker EXCEPT ![w] = place], count' <= count, count' \in Nat
  PROVE  NoLostWakeup'
<1>1. Awake' = Awake \cup {w} /\ Asleep' = Asleep \ {w}
  BY AwakeMoves
<1>2. IsFiniteSet(Awake) /\ Cardinality(Awake) \in Nat
  BY AwakeFinite DEF TypeOK
<1>3. Cardinality(Awake') >= Cardinality(Awake) /\ Cardinality(Awake') \in Nat
  <2>1. CASE w \in Awake
    <3>1. Awake' = Awake
      BY <1>1, <2>1
    <3> QED
      BY <1>2, <3>1
  <2>2. CASE w \notin Awake
    <3>1. Cardinality(Awake') = Cardinality(Awake) + 1
      BY <1>1, <1>2, <2>2, FS_AddElement
    <3> QED
      BY <1>2, <3>1
  <2> QED
    BY <2>1, <2>2
<1>4. count \in Nat
  BY QueueAssumption DEF TypeOK
<1> QED
  BY <1>1, <1>2, <1>3, <1>4 DEF NoLostWakeup

LEMMA SameWorkers ==
  ASSUME TypeOK, NoLostWakeup, worker' = worker, count' <= count, count' \in Nat
  PROVE  NoLostWakeup'
<1>1. Awake' = Awake /\ Asleep' = Asleep
  BY DEF Awake, Asleep
<1>2. Cardinality(Awake) \in Nat /\ count \in Nat
  BY AwakeFinite, QueueAssumption DEF TypeOK
<1> QED
  BY <1>1, <1>2 DEF NoLostWakeup

LEMMA PopWakes ==
  ASSUME TypeOK, NoLostWakeup, NEW t \in Threads, Pop(t), count' = count
  PROVE  NoLostWakeup'
<1>1. count \in Nat /\ count <= count
  BY QueueAssumption DEF TypeOK
<1>2. worker' = worker \/ (t \in Workers /\ worker' = [worker EXCEPT ![t] = "loop"])
  BY DEF Pop
<1> QED
  BY <1>1, <1>2, SameWorkers, WakeKeeps

LEMMA SignalKeeps ==
  ASSUME TypeOK, NoLostWakeup, Signal, count' = count + 1
  PROVE  NoLostWakeup'
<1>1. CASE Asleep = {}
  BY <1>1 DEF Signal, NoLostWakeup, Asleep
<1>2. CASE Asleep # {}
  <2>1. PICK w \in Asleep : worker' = [worker EXCEPT ![w] = "loop"]
    BY <1>2 DEF Signal
  <2>2. w \in Workers /\ w \notin Awake
    BY DEF Asleep, Awake
  <2>3. Awake' = Awake \cup {w}
    BY <2>1, <2>2, AwakeMoves
  <2>4. IsFiniteSet(Awake) /\ Cardinality(Awake) \in Nat
    BY AwakeFinite DEF TypeOK
  <2>5. Cardinality(Awake') = Cardinality(Awake) + 1
    BY <2>2, <2>3, <2>4, FS_AddElement
  <2>6. count \in Nat
    BY QueueAssumption DEF TypeOK
  <2> QED
    BY <1>2, <2>4, <2>5, <2>6 DEF NoLostWakeup
<1> QED
  BY <1>1, <1>2

LEMMA WakeupKept == TypeOK /\ NoLostWakeup /\ [Next]_vars => NoLostWakeup'
<1> SUFFICES ASSUME TypeOK, NoLostWakeup, [Next]_vars PROVE NoLostWakeup'
  OBVIOUS
<1>1. count \in Nat /\ count <= count
  BY QueueAssumption DEF TypeOK
<1>2. ASSUME UNCHANGED <<worker, count>> PROVE NoLostWakeup'
  BY <1>1, <1>2, SameWorkers
<1>3. ASSUME count > 0, count' = count - 1 PROVE count' <= count /\ count' \in Nat
  BY <1>1, <1>3
<1>4. ASSUME NEW t \in Threads, ThreadStep(t) PROVE NoLostWakeup'
  <2>1. CASE InitPool(t)
    BY <2>1 DEF InitPool, NoLostWakeup, Asleep
  <2>2. CASE ForkQueued(t)
    BY <2>2, SignalKeeps DEF ForkQueued, Enqueue
  <2>3. CASE StoreInline(t) \/ Unlock(t)
    BY <2>3, PopWakes DEF StoreInline, Unlock, ring
  <2>4. CASE Return(t)
    <3>1. Pop(t) \/ worker' = worker
      BY <2>4 DEF Return
    <3>2. count' = count
      BY <2>4 DEF Return, ring
    <3> QED
      BY <1>2, <3>1, <3>2, PopWakes
  <2>5. CASE JoinHelp(t)
    BY <2>5, <1>3, SameWorkers DEF JoinHelp, Dequeue
  <2>6. CASE ForkInline(t) \/ Publish(t) \/ Join(t) \/ JoinTest(t) \/ JoinReap(t)
    BY <2>6, <1>2 DEF ForkInline, Publish, Join, JoinTest, JoinReap, ring
  <2>7. CASE JoinNoHelp(t) \/ JoinRetest(t) \/ JoinTimeout(t)
    BY <2>7, <1>2 DEF JoinNoHelp, JoinRetest, JoinTimeout, ring
  <2> QED
    BY <1>4, <2>1, <2>2, <2>3, <2>4, <2>5, <2>6, <2>7 DEF ThreadStep
<1>5. ASSUME NEW w \in Workers, WorkerStep(w) \/ SpuriousWake(w) PROVE NoLostWakeup'
  <2>1. CASE WorkerPoll(w)
    <3>1. CASE count = 0
      <4>1. worker' = [worker EXCEPT ![w] = "asleep"] /\ count' = 0
        BY <2>1, <3>1 DEF WorkerPoll, ring
      <4>2. worker' \in [Workers -> {"off", "loop", "asleep", "take", "busy"}]
        BY <4>1 DEF TypeOK
      <4>3. Cardinality(Awake') \in Nat
        BY <4>2, ThreadsAssumption, FS_Subset, FS_CardinalityType DEF Awake
      <4> QED
        BY <4>1, <4>3 DEF NoLostWakeup
    <3>2. CASE count # 0
      BY <1>1, <2>1, <3>2, WakeKeeps DEF WorkerPoll, ring
    <3> QED
      BY <3>1, <3>2
  <2>2. CASE WorkerTake(w)
    <3>1. /\ worker[w] = "take" /\ worker' = [worker EXCEPT ![w] = "busy"]
          /\ count > 0 /\ count' = count - 1
      BY <2>2 DEF WorkerTake, Dequeue
    <3>2. w \in Awake /\ Awake' = Awake \ {w} /\ Asleep' = Asleep \ {w}
      BY <3>1, AwakeMoves DEF Awake
    <3>3. IsFiniteSet(Awake) /\ Cardinality(Awake) \in Nat
      BY AwakeFinite DEF TypeOK
    <3>4. Cardinality(Awake') = Cardinality(Awake) - 1
      BY <3>2, <3>3, FS_RemoveElement
    <3> QED
      BY <1>1, <3>1, <3>2, <3>3, <3>4 DEF NoLostWakeup
  <2>3. CASE WorkerMiss(w) \/ SpuriousWake(w)
    BY <1>1, <2>3, WakeKeeps DEF WorkerMiss, SpuriousWake, ring
  <2> QED
    BY <1>5, <2>1, <2>2, <2>3 DEF WorkerStep
<1>6. CASE UNCHANGED vars
  BY <1>6, <1>2 DEF vars
<1> QED
  BY <1>4, <1>5, <1>6 DEF Next, Exited

(* llm_fork's signal is never lost: while a worker sleeps on pool->cond,   *)
(* every item on the ring has a worker that is awake and will look.        *)
THEOREM NoSignalIsLost == Spec => []NoLostWakeup
<1>1. Init => NoLostWakeup
  BY DEF Init, NoLostWakeup, Asleep
<1> QED
  BY TypeCorrect, WakeupKept, <1>1, PTL DEF Spec

-----------------------------------------------------------------------------
(* A task that is on a stack waits for a child it joins or for the task    *)
(* above it.  Both started later than it did.  The model keeps no time,    *)
(* but what follows from it is inductive: among any tasks on the stacks    *)
(* there is one that has none of its children and nothing above it among   *)
(* them.                                                                   *)

Actives == {u \in Tasks : Active(u)}

\* v is on a stack because of u: u forked it, or u's thread runs it on top of u.
After(u, v) == (v \in Forked /\ Parent[v] = u) \/ below[v] = u

\* Every task on a stack is on top or has a task above it.
Covered == \A u \in Actives : (\E t \in Threads : top[t] = u) \/ (\E v \in Actives : below[v] = u)

\* The tasks on the stacks started one after the other.
Youngest == \A S \in SUBSET Actives : S # {} => \E u \in S : \A v \in S : ~After(u, v)

OrderInv == RInv /\ Covered /\ Youngest

-----------------------------------------------------------------------------
(* A step leaves the stacks alone, or one task comes or goes.              *)

LEMMA SameKeeps ==
  ASSUME OrderInv, UNCHANGED <<top, below>>, \A u \in Tasks : Active(u)' <=> Active(u)
  PROVE  Covered' /\ Youngest'
<1>1. Actives' = Actives
  BY DEF Actives
<1> QED
  BY <1>1 DEF OrderInv, Covered, Youngest, After

LEMMA PushKeepsOrder ==
  ASSUME OrderInv, NEW t \in Threads, NEW c \in Forked, Push(t, c), ~Active(c),
         at[c] \in {"unborn", "queued"}, Parent[c] # c,
         Active(c)', \A u \in Tasks : u # c => (Active(u)' <=> Active(u))
  PROVE  Covered' /\ Youngest'
<1> USE DEF OrderInv, RInv, IInv
<1>1. /\ c \in Tasks /\ c # NoTask /\ Actives' = Actives \cup {c} /\ c \notin Actives
      /\ top' = [top EXCEPT ![t] = c] /\ below' = [below EXCEPT ![c] = top[t]]
      /\ top[t] # c /\ Actives \subseteq Tasks
  BY TasksAssumption DEF Push, Actives, Forked, StackShape
<1>2. /\ top'[t] = c /\ \A s \in Threads : s # t => top'[s] = top[s]
      /\ below'[c] = top[t] /\ \A u \in Tasks : u # c => below'[u] = below[u]
  BY <1>1 DEF TypeOK
<1>3. \A v \in Actives : ~After(c, v)
  <2>1. \A v \in Actives : below[v] # c
    BY <1>1 DEF StackShape, Actives
  <2>2. ASSUME NEW v \in Forked, Parent[v] = c PROVE v \notin Actives
    <3>1. mem[v] # "live"
      BY <2>2 DEF PendingShape, InJoin
    <3>2. at[v] \in {"unborn", "ended"}
      BY <2>2, <3>1 DEF HandleShape, TypeOK, Forked
    <3> QED
      BY <3>2 DEF Actives, Active, OnStack, InJoin, Epilogue
  <2> QED
    BY <2>1, <2>2 DEF After
<1>4. Covered'
  <2>1. ASSUME NEW u \in Actives PROVE (\E s \in Threads : top'[s] = u) \/ (\E v \in Actives' : below'[v] = u)
    <3>1. CASE \E s \in Threads : top[s] = u
      BY <1>1, <1>2, <3>1
    <3>2. CASE \E v \in Actives : below[v] = u
      BY <1>1, <1>2, <3>2
    <3> QED
      BY <3>1, <3>2 DEF Covered
  <2> QED
    BY <1>1, <1>2, <2>1 DEF Covered
<1>5. Youngest'
  <2> SUFFICES ASSUME NEW S \in SUBSET Actives', S # {}
               PROVE  \E u \in S : \A v \in S : ~After(u, v)'
    BY DEF Youngest
  <2>1. CASE c \in S
    <3>1. \A v \in S : ~After(c, v)'
      BY <1>1, <1>2, <1>3, TasksAssumption DEF After
    <3> QED
      BY <2>1, <3>1
  <2>2. CASE c \notin S
    <3>1. S \in SUBSET Actives
      BY <1>1, <2>2
    <3>2. PICK u \in S : \A v \in S : ~After(u, v)
      BY <3>1 DEF Youngest
    <3> QED
      BY <1>1, <1>2, <2>2, <3>1, <3>2 DEF After
  <2> QED
    BY <2>1, <2>2
<1> QED
  BY <1>4, <1>5

LEMMA PopKeepsOrder ==
  ASSUME OrderInv, NEW t \in Threads, NEW c \in Tasks, top[t] = c, Active(c), Pop(t),
         ~Active(c)', \A u \in Tasks : u # c => (Active(u)' <=> Active(u))
  PROVE  Covered' /\ Youngest'
<1> USE DEF OrderInv, RInv, IInv
<1>1. /\ c # NoTask /\ Actives' = Actives \ {c} /\ below' = below /\ top' = [top EXCEPT ![t] = below[c]]
  BY TasksAssumption DEF Pop, Actives
<1>2. top'[t] = below[c] /\ \A s \in Threads : s # t => top'[s] = top[s]
  BY <1>1 DEF TypeOK
<1>3. Covered'
  <2>1. ASSUME NEW u \in Actives, u # c
        PROVE (\E s \in Threads : top'[s] = u) \/ (\E v \in Actives' : below'[v] = u)
    <3>1. CASE \E s \in Threads : top[s] = u
      BY <1>2, <2>1, <3>1
    <3>2. CASE \E v \in Actives : below[v] = u
      BY <1>1, <1>2, <3>2
    <3> QED
      BY <3>1, <3>2 DEF Covered
  <2> QED
    BY <1>1, <2>1 DEF Covered
<1>4. Youngest'
  BY <1>1 DEF Youngest, After
<1> QED
  BY <1>3, <1>4

-----------------------------------------------------------------------------
(* The steps of the pool.                                                  *)

LEMMA InitOrder == Init => Covered /\ Youngest
<1> SUFFICES ASSUME Init PROVE Covered /\ Youngest
  OBVIOUS
<1>1. Actives = {Root} /\ top[Main] = Root /\ below[Root] = NoTask /\ Main \in Threads
  BY TasksAssumption DEF Init, Actives, Active, OnStack, InJoin, Epilogue, Threads
<1>2. Covered
  BY <1>1 DEF Covered
<1>3. ~After(Root, Root)
  BY <1>1, TasksAssumption DEF After, Forked
<1>4. Youngest
  BY <1>1, <1>3 DEF Youngest
<1> QED
  BY <1>2, <1>4

\* An item that is taken off the ring is a task whose parent is on a stack.
LEMMA TakeKeepsOrder ==
  ASSUME OrderInv, NEW t \in Threads, count > 0, Push(t, queue[head]),
         at'[queue[head]] = "run",
         \A u \in Tasks \ {queue[head]} :
            at'[u] = at[u] \/ (at[u] = "help" /\ at'[u] = "retest")
  PROVE  Covered' /\ Youngest'
<1> PICK c : c = queue[head]
  OBVIOUS
<1>1. c \in Tasks /\ at[c] = "queued"
  BY HeadUsed DEF OrderInv, RInv, IInv, QueueExact
<1>2. c \in Forked /\ mem[c] = "live"
  BY <1>1 DEF OrderInv, RInv, IInv, TypeOK, DoneShape, HandleShape, Forked
<1>3. Parent[c] # c
  BY <1>1, <1>2 DEF OrderInv, RInv, IInv, PendingShape, InJoin
<1>4. ~Active(c) /\ Active(c)'
  BY <1>1 DEF Active, OnStack, InJoin, Epilogue
<1>5. \A u \in Tasks : u # c => (Active(u)' <=> Active(u))
  BY DEF Active, OnStack, InJoin
<1> QED
  BY <1>1, <1>2, <1>3, <1>4, <1>5, PushKeepsOrder

LEMMA ThreadKeepsOrder ==
  ASSUME OrderInv, NEW t \in Threads, ThreadStep(t)
  PROVE  Covered' /\ Youngest'
<1>0. at \in [Tasks -> {"unborn", "queued", "ended"} \cup OnStack]
  BY DEF OrderInv, RInv, IInv, TypeOK
<1>1. CASE InitPool(t)
  BY <1>1, SameKeeps DEF InitPool, stacks, Active
<1>2. CASE ForkQueued(t)
  <2>1. PICK c \in Forked : at[c] = "unborn" /\ at' = [at EXCEPT ![c] = "queued"]
    BY <1>2 DEF ForkQueued, CanFork, Children
  <2>2. \A v \in Tasks : Active(v)' <=> Active(v)
    BY <1>0, <2>1 DEF Active, OnStack, InJoin, Epilogue, Forked
  <2> QED
    BY <1>2, <2>2, SameKeeps DEF ForkQueued, stacks
<1>3. CASE ForkInline(t)
  <2>1. PICK u \in Tasks, c \in Forked :
          /\ Parent[c] = u /\ at[u] = "run" /\ at[c] = "unborn" /\ Push(t, c)
          /\ at' = [at EXCEPT ![c] = "run"]
    BY <1>3 DEF ForkInline, CanFork, Executes, Children
  <2>2. ~Active(c) /\ Active(c)' /\ \A v \in Tasks : v # c => (Active(v)' <=> Active(v))
    BY <1>0, <2>1 DEF Active, OnStack, InJoin, Epilogue, Forked
  <2> QED
    BY <2>1, <2>2, PushKeepsOrder
<1>4. CASE StoreInline(t) \/ Unlock(t)
  <2>1. PICK u \in Tasks : /\ top[t] = u /\ at[u] \in Epilogue /\ Pop(t)
                           /\ at' = [at EXCEPT ![u] = "ended"]
    BY <1>4 DEF StoreInline, Unlock, Executes, Epilogue
  <2>2. Active(u) /\ ~Active(u)' /\ \A v \in Tasks : v # u => (Active(v)' <=> Active(v))
    BY <1>0, <2>1 DEF Active, OnStack, InJoin, Epilogue
  <2> QED
    BY <2>1, <2>2, PopKeepsOrder
<1>5. CASE Join(t) \/ JoinTest(t) \/ JoinReap(t) \/ JoinNoHelp(t) \/ JoinRetest(t) \/ JoinTimeout(t)
  <2>1. PICK u \in Tasks, place \in {"run"} \cup InJoin :
          at[u] \in {"run"} \cup InJoin /\ at' = [at EXCEPT ![u] = place]
    <3>1. CASE Join(t) \/ JoinTest(t) \/ JoinReap(t)
      BY <3>1 DEF Join, JoinTest, JoinReap, Executes, InJoin, NotDone
    <3>2. CASE JoinNoHelp(t) \/ JoinRetest(t) \/ JoinTimeout(t)
      BY <3>2 DEF JoinNoHelp, JoinRetest, JoinTimeout, Executes, InJoin, AfterWait
    <3> QED
      BY <1>5, <3>1, <3>2
  <2>2. \A v \in Tasks : Active(v)' <=> Active(v)
    BY <1>0, <2>1 DEF Active, OnStack
  <2>3. UNCHANGED <<top, below>>
    BY <1>5 DEF Join, JoinTest, JoinReap, JoinNoHelp, JoinRetest, JoinTimeout, stacks
  <2> QED
    BY <2>2, <2>3, SameKeeps
<1>6. CASE JoinHelp(t)
  <2>1. PICK u \in Tasks : /\ at[u] = "help" /\ count > 0 /\ Push(t, queue[head])
                           /\ at' = [at EXCEPT ![u] = "retest", ![queue[head]] = "run"]
    BY <1>6 DEF JoinHelp, Executes
  <2>2. queue[head] \in Tasks
    BY <2>1, HeadUsed DEF OrderInv, RInv, IInv, QueueExact
  <2>3. /\ at'[queue[head]] = "run"
        /\ \A v \in Tasks \ {queue[head]} :
             at'[v] = at[v] \/ (at[v] = "help" /\ at'[v] = "retest")
    BY <1>0, <2>1, <2>2
  <2> QED
    BY <2>1, <2>3, TakeKeepsOrder
<1>7. CASE Return(t)
  <2>1. PICK u \in Tasks :
          /\ top[t] = u /\ at[u] = "run"
          /\ at' = [at EXCEPT ![u] = IF u = Root THEN "ended"
                                     ELSE IF u \in inline THEN "store" ELSE "publish"]
          /\ IF u = Root THEN Pop(t) ELSE UNCHANGED <<stacks, worker>>
    BY <1>7 DEF Return, Executes
  <2>2. Active(u) /\ \A v \in Tasks : v # u => (Active(v)' <=> Active(v))
    BY <1>0, <2>1 DEF Active, OnStack
  <2>3. CASE u = Root
    <3>1. ~Active(u)' /\ Pop(t)
      BY <1>0, <2>1, <2>3 DEF Active, OnStack, InJoin, Epilogue
    <3> QED
      BY <2>1, <2>2, <3>1, PopKeepsOrder
  <2>4. CASE u # Root
    <3>1. Active(u)' /\ UNCHANGED <<top, below>>
      BY <1>0, <2>1, <2>4 DEF Active, OnStack, Epilogue, stacks
    <3> QED
      BY <2>2, <3>1, SameKeeps
  <2> QED
    BY <2>3, <2>4
<1>8. CASE Publish(t)
  <2>1. PICK u \in Tasks :
          /\ at[u] = "publish"
          /\ at' = [v \in Tasks |-> IF v = u THEN "unlock"
                                    ELSE IF at[v] = "sleep" /\ wait[v] = u
                                         THEN AfterWait ELSE at[v]]
          /\ UNCHANGED stacks
    BY <1>8 DEF Publish, Executes
  <2>2. \A v \in Tasks : Active(v)' <=> Active(v)
    BY <2>1 DEF Active, OnStack, InJoin, Epilogue, AfterWait
  <2> QED
    BY <2>1, <2>2, SameKeeps DEF stacks
<1> QED
  BY <1>1, <1>2, <1>3, <1>4, <1>5, <1>6, <1>7, <1>8 DEF ThreadStep

LEMMA WorkerKeepsOrder ==
  ASSUME OrderInv, NEW w \in Workers, WorkerStep(w) \/ SpuriousWake(w)
  PROVE  Covered' /\ Youngest'
<1>1. CASE WorkerPoll(w) \/ WorkerMiss(w) \/ SpuriousWake(w)
  BY <1>1, SameKeeps DEF WorkerPoll, WorkerMiss, SpuriousWake, stacks, Active
<1>2. CASE WorkerTake(w)
  <2>1. /\ w \in Threads /\ count > 0 /\ Push(w, queue[head])
        /\ at' = [at EXCEPT ![queue[head]] = "run"]
    BY <1>2 DEF WorkerTake, Threads
  <2>2. queue[head] \in Tasks
    BY <2>1, HeadUsed DEF OrderInv, RInv, IInv, QueueExact
  <2>3. at'[queue[head]] = "run" /\ \A v \in Tasks \ {queue[head]} : at'[v] = at[v]
    BY <2>1, <2>2 DEF OrderInv, RInv, IInv, TypeOK
  <2> QED
    BY <2>1, <2>3, TakeKeepsOrder
<1> QED
  BY <1>1, <1>2 DEF WorkerStep

LEMMA OrderHolds == Spec => []OrderInv
<1>1. OrderInv /\ [Next]_vars => Covered' /\ Youngest'
  <2>1. OrderInv /\ UNCHANGED vars => Covered' /\ Youngest'
    BY SameKeeps DEF vars, Active
  <2> QED
    BY <2>1, ThreadKeepsOrder, WorkerKeepsOrder DEF Next, Exited
<1>2. RInv /\ Covered /\ Youngest <=> OrderInv
  BY DEF OrderInv
<1> QED
  BY InitOrder, RInvHolds, <1>1, <1>2, PTL DEF Spec

\* Helping the pool rules out the deadlock of the joiners (threads.c: llm_join,
\* llm_do_work), whatever tree of tasks the program forks and however many
\* workers and slots there are: with an empty ring, the youngest of the tasks on
\* the stacks is on top of a thread, and what it joins, if anything, is done.
THEOREM JoinersProgress == Spec => []NoCircularWait
<1>1. OrderInv => NoCircularWait
  <2> SUFFICES ASSUME OrderInv, count = 0, NEW s \in Threads, top[s] # NoTask,
                      \A t \in Threads :
                        top[t] # NoTask => at[top[t]] \in InJoin /\ wait[top[t]] \notin done
               PROVE  FALSE
    BY DEF NoCircularWait
  <2> USE DEF OrderInv, RInv, IInv
  <2>1. Actives # {} /\ Actives \subseteq Tasks
    BY DEF StackShape, TypeOK, Actives
  <2>2. PICK u \in Actives : \A v \in Actives : ~After(u, v)
    BY <2>1 DEF Youngest
  <2>3. PICK t \in Threads : top[t] = u
    BY <2>2 DEF Covered, After
  <2>4. u \in Tasks /\ u # NoTask
    BY <2>1, TasksAssumption
  <2> DEFINE c == wait[u]
  <2>5. c \in Forked /\ Parent[c] = u /\ mem[c] = "live" /\ c \notin done
    BY <2>3, <2>4 DEF JoinShape
  <2>6. c \in Tasks /\ at[c] \notin {"unborn", "ended"}
    BY <2>5 DEF HandleShape, EndShape, Forked
  <2>7. at[c] # "queued"
    <3>1. \A i \in Slots : ~Used(i)
      BY QueueAssumption DEF TypeOK, Slots, Used
    <3> QED
      BY <2>6, <3>1 DEF QueueExact
  <2>8. Active(c)
    BY <2>6, <2>7 DEF TypeOK, Active
  <2> QED
    BY <2>2, <2>5, <2>6, <2>8 DEF Actives, After
<1> QED
  BY <1>1, OrderHolds, PTL
=============================================================================
