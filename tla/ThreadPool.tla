----------------------------- MODULE ThreadPool -----------------------------
(***************************************************************************)
(* The fork/join pool of the runtime, src/src/runtime/threads.c.           *)
(*                                                                         *)
(* llm_fork puts a task on a ring of QueueSize slots, or runs it on the    *)
(* spot when the ring is full.  llm_join helps the pool while the task it  *)
(* waits for is not done, so a thread carries a stack of tasks, each one   *)
(* started while the one under it was inside llm_fork or llm_join.  The    *)
(* stack of a thread is a list: `top' is the task it is executing and      *)
(* `below' the task that one will return to.                               *)
(*                                                                         *)
(* A task is what gen_parallel_expr outlines: it may fork each of its      *)
(* children, joins every child it forked and then returns.  Which children *)
(* it forks, and in which order it joins them, is left open.               *)
(*                                                                         *)
(* The critical sections on pool->mutex, and those of the joiner on        *)
(* handle->mutex, neither block nor are left half way, so each is a step.  *)
(* The section in which llm_do_work publishes a result is two steps, since *)
(* the joiner that frees the handle must not come in between.              *)
(***************************************************************************)
EXTENDS Integers, FiniteSets

CONSTANTS
  Tasks,      \* the tasks of one execution of the program
  Root,       \* the body of main
  Parent,     \* Parent[c] is the task whose code forks c
  Main,       \* the thread that executes Root
  Workers,    \* the threads llm_init_pool creates: llm_max_threads of them
  QueueSize,  \* llm_queue_size
  NoTask      \* a null pointer to a task

ASSUME TasksAssumption ==
  /\ Root \in Tasks
  /\ NoTask \notin Tasks
  /\ Parent \in [Tasks \ {Root} -> Tasks]

ASSUME ThreadsAssumption == Main \notin Workers /\ IsFiniteSet(Workers)

ASSUME QueueAssumption == QueueSize \in Nat

Threads == {Main} \cup Workers
Forked  == Tasks \ {Root}
Slots   == 0 .. QueueSize - 1

VARIABLES
  up,      \* pool # NULL
  queue,   \* pool->queue: the task in each slot, also in the stale ones
  head, tail, count,
  worker,  \* where each worker is in the loop of llm_worker
  top,     \* the task on top of each thread's stack
  below,   \* the task under a task on its thread's stack
  at,      \* where each task is, from its fork to the end of its epilogue
  inline,  \* the tasks llm_fork ran itself
  wait,    \* the task whose handle a task is joining
  done,    \* the tasks whose handle->done is set
  mem      \* the handle of each task: not allocated yet, allocated, freed

ring   == <<queue, head, tail, count>>
stacks == <<top, below>>
vars   == <<up, queue, head, tail, count, worker, top, below, at, inline, wait,
            done, mem>>

InJoin   == {"test", "reap", "help", "retest", "sleep"}
Epilogue == {"store", "publish", "unlock"}
OnStack  == {"run"} \cup InJoin \cup Epilogue

\* u has a frame on the stack of some thread.
Active(u) == at[u] \in OnStack

\* The tasks that are forked and not joined: their environment is an alloca in
\* the frame of the parent.
Children(u) == {c \in Forked : Parent[c] = u}
Pending(u)  == {c \in Children(u) : mem[c] = "live"}

Asleep == {w \in Workers : worker[w] = "asleep"}
Awake  == {w \in Workers : worker[w] \in {"loop", "take"}}

Init ==
  /\ up     = FALSE
  /\ queue  = [i \in Slots |-> NoTask]
  /\ head   = 0 /\ tail = 0 /\ count = 0
  /\ worker = [w \in Workers |-> "off"]
  /\ top    = [t \in Threads |-> IF t = Main THEN Root ELSE NoTask]
  /\ below  = [u \in Tasks |-> NoTask]
  /\ at     = [u \in Tasks |-> IF u = Root THEN "run" ELSE "unborn"]
  /\ inline = {}
  /\ wait   = [u \in Tasks |-> NoTask]
  /\ done   = {}
  /\ mem    = [u \in Tasks |-> "none"]

-----------------------------------------------------------------------------
(* The ring and the condition variable of the pool. *)

\* Mutants of the definitions that follow them: an index that does not wrap, a
\* ring that admits one task too many, a signal sent only for the first item.
NextSlotNoWrap(i) == i + 1
HasRoomOffByOne   == count <= QueueSize
SignalFirstOnly   ==
  IF Asleep = {} \/ count > 0
  THEN UNCHANGED worker
  ELSE \E w \in Asleep : worker' = [worker EXCEPT ![w] = "loop"]

\* (i + 1) % llm_queue_size
NextSlot(i) == IF i + 1 = QueueSize THEN 0 ELSE i + 1

\* pool->count < llm_queue_size
HasRoom == count < QueueSize

\* pthread_cond_signal(&pool->cond) wakes one of the workers that wait, if any.
Signal ==
  IF Asleep = {}
  THEN UNCHANGED worker
  ELSE \E w \in Asleep : worker' = [worker EXCEPT ![w] = "loop"]

Enqueue(c) ==
  /\ queue' = [queue EXCEPT ![tail] = c]
  /\ tail'  = NextSlot(tail)
  /\ count' = count + 1
  /\ UNCHANGED head

\* A mutant of Dequeue that leaves the item it returns on the ring.
DequeueKeepsHead == /\ count' = count - 1
                    /\ UNCHANGED <<queue, head, tail>>

\* The item is copied out of its slot, which keeps the stale value.
Dequeue == /\ head'  = NextSlot(head)
           /\ count' = count - 1
           /\ UNCHANGED <<queue, tail>>

Push(t, c) ==
  /\ top'   = [top EXCEPT ![t] = c]
  /\ below' = [below EXCEPT ![c] = top[t]]

\* The task on top of t returns.  A worker whose stack is empty is back in the
\* loop of llm_worker.
Pop(t) ==
  /\ top' = [top EXCEPT ![t] = below[top[t]]]
  /\ worker' = IF t \in Workers /\ below[top[t]] = NoTask
               THEN [worker EXCEPT ![t] = "loop"] ELSE worker
  /\ UNCHANGED below

-----------------------------------------------------------------------------
(* llm_fork, called by the code of the task on top of t. *)

\* The task that t executes is at `place'.
Executes(t, u, place) == top[t] = u /\ u # NoTask /\ at[u] = place

CanFork(t, u, c) ==
  Executes(t, u, "run") /\ c \in Children(u) /\ at[c] = "unborn"

\* The first fork of the program finds no pool: llm_init_pool.
InitPool(t) ==
  /\ ~up
  /\ \E u \in Tasks : \E c \in Children(u) : CanFork(t, u, c)
  /\ up'     = TRUE
  /\ worker' = [w \in Workers |-> "loop"]
  /\ UNCHANGED <<ring, stacks, at, inline, wait, done, mem>>

\* There is room: the task is queued and one sleeping worker is woken.
ForkQueued(t) ==
  \E u \in Tasks : \E c \in Children(u) :
    /\ up /\ CanFork(t, u, c) /\ HasRoom
    /\ Enqueue(c) /\ Signal
    /\ at'  = [at EXCEPT ![c] = "queued"]
    /\ mem' = [mem EXCEPT ![c] = "live"]
    /\ UNCHANGED <<up, stacks, inline, wait, done>>

\* The ring is full: the caller runs the task before llm_fork returns.
ForkInline(t) ==
  \E u \in Tasks : \E c \in Children(u) :
    /\ up /\ CanFork(t, u, c) /\ ~HasRoom
    /\ Push(t, c)
    /\ at'     = [at EXCEPT ![c] = "run"]
    /\ inline' = inline \cup {c}
    /\ mem'    = [mem EXCEPT ![c] = "live"]
    /\ UNCHANGED <<up, ring, worker, wait, done>>

\* The inline task has returned: llm_fork stores its result and sets done.  No
\* other thread has seen the handle, so it takes no mutex.
StoreInline(t) ==
  \E u \in Tasks :
    /\ Executes(t, u, "store")
    /\ done' = done \cup {u}
    /\ at'   = [at EXCEPT ![u] = "ended"]
    /\ Pop(t)
    /\ UNCHANGED <<up, ring, inline, wait, mem>>

-----------------------------------------------------------------------------
(* llm_join, called by the code of the task on top of t. *)

\* A mutant: the joiner looks at handle->done without taking handle->mutex.
HandleUnlockedSkipped(c) == TRUE

\* handle->mutex is free.  Only the runner of c holds it across two steps.
HandleUnlocked(c) == at[c] # "unlock"

\* Mutants: a join that trusts the wait that has just ended, a join that waits
\* without helping.
AfterWaitTrusting == "reap"
NotDoneIdle       == "retest"

\* Where the loop of llm_join goes after a wait, and when the task is not done.
AfterWait == "test"
NotDone   == "help"

Join(t) ==
  \E u \in Tasks : \E c \in Pending(u) :
    /\ Executes(t, u, "run")
    /\ at'   = [at EXCEPT ![u] = "test"]
    /\ wait' = [wait EXCEPT ![u] = c]
    /\ UNCHANGED <<up, ring, stacks, worker, inline, done, mem>>

\* The test of handle->done under handle->mutex at the head of the loop.
JoinTest(t) ==
  \E u \in Tasks :
    /\ Executes(t, u, "test") /\ HandleUnlocked(wait[u])
    /\ at' = [at EXCEPT ![u] = IF wait[u] \in done THEN "reap" ELSE NotDone]
    /\ UNCHANGED <<up, ring, stacks, worker, inline, wait, done, mem>>

\* The mutex is released, destroyed with the condition variable, and the handle
\* is freed; llm_join returns.
JoinReap(t) ==
  \E u \in Tasks :
    /\ Executes(t, u, "reap")
    /\ mem'  = [mem EXCEPT ![wait[u]] = "freed"]
    /\ at'   = [at EXCEPT ![u] = "run"]
    /\ wait' = [wait EXCEPT ![u] = NoTask]
    /\ UNCHANGED <<up, ring, stacks, worker, inline, done>>

\* llm_do_work called by a joiner that finds an item: the item runs on top.
JoinHelp(t) ==
  \E u \in Tasks :
    /\ Executes(t, u, "help") /\ count > 0
    /\ Dequeue /\ Push(t, queue[head])
    /\ at' = [at EXCEPT ![u] = "retest", ![queue[head]] = "run"]
    /\ UNCHANGED <<up, worker, inline, wait, done, mem>>

\* llm_do_work called by a joiner that finds the ring empty.
JoinNoHelp(t) ==
  \E u \in Tasks :
    /\ Executes(t, u, "help") /\ count = 0
    /\ at' = [at EXCEPT ![u] = "retest"]
    /\ UNCHANGED <<up, ring, stacks, worker, inline, wait, done, mem>>

\* The second test of handle->done: wait on handle->cond for 1 ms if not set.
JoinRetest(t) ==
  \E u \in Tasks :
    /\ Executes(t, u, "retest") /\ HandleUnlocked(wait[u])
    /\ at' = [at EXCEPT ![u] = IF wait[u] \in done THEN "test" ELSE "sleep"]
    /\ UNCHANGED <<up, ring, stacks, worker, inline, wait, done, mem>>

\* pthread_cond_timedwait returns: the millisecond is over.
JoinTimeout(t) ==
  \E u \in Tasks :
    /\ Executes(t, u, "sleep") /\ HandleUnlocked(wait[u])
    /\ at' = [at EXCEPT ![u] = AfterWait]
    /\ UNCHANGED <<up, ring, stacks, worker, inline, wait, done, mem>>

-----------------------------------------------------------------------------
(* The end of a task, and the second half of llm_do_work. *)

\* The code of a task returns only after it has joined what it forked.  The
\* caller is main, llm_fork, or llm_do_work, which takes task_mutex next.
Return(t) ==
  \E u \in Tasks :
    /\ Executes(t, u, "run") /\ Pending(u) = {}
    /\ at' = [at EXCEPT ![u] = IF u = Root THEN "ended"
                               ELSE IF u \in inline THEN "store" ELSE "publish"]
    /\ IF u = Root THEN Pop(t) ELSE UNCHANGED <<stacks, worker>>
    /\ UNCHANGED <<up, ring, inline, wait, done, mem>>

\* With task_mutex held: *result_ptr and *done are written, and task_cond is
\* signalled, which ends the wait of the joiner if it is in it.
Publish(t) ==
  \E u \in Tasks :
    /\ Executes(t, u, "publish")
    /\ done' = done \cup {u}
    /\ at'   = [v \in Tasks |-> IF v = u THEN "unlock"
                                ELSE IF at[v] = "sleep" /\ wait[v] = u
                                     THEN AfterWait ELSE at[v]]
    /\ UNCHANGED <<up, ring, stacks, worker, inline, wait, mem>>

\* pthread_mutex_unlock(work.task_mutex): the last access to the handle.
Unlock(t) ==
  \E u \in Tasks :
    /\ Executes(t, u, "unlock")
    /\ at' = [at EXCEPT ![u] = "ended"]
    /\ Pop(t)
    /\ UNCHANGED <<up, ring, inline, wait, done, mem>>

-----------------------------------------------------------------------------
(* llm_worker. *)

\* The inner loop under pool->mutex: wait while the ring is empty.
WorkerPoll(w) ==
  /\ worker[w] = "loop"
  /\ worker' = [worker EXCEPT ![w] = IF count = 0 THEN "asleep" ELSE "take"]
  /\ UNCHANGED <<up, ring, stacks, at, inline, wait, done, mem>>

\* pthread_cond_wait may return without a signal.
SpuriousWake(w) ==
  /\ worker[w] = "asleep"
  /\ worker' = [worker EXCEPT ![w] = "loop"]
  /\ UNCHANGED <<up, ring, stacks, at, inline, wait, done, mem>>

\* llm_do_work locks pool->mutex again: another thread may have emptied the ring.
WorkerTake(w) ==
  /\ worker[w] = "take" /\ count > 0
  /\ worker' = [worker EXCEPT ![w] = "busy"]
  /\ Dequeue /\ Push(w, queue[head])
  /\ at' = [at EXCEPT ![queue[head]] = "run"]
  /\ UNCHANGED <<up, inline, wait, done, mem>>

WorkerMiss(w) ==
  /\ worker[w] = "take" /\ count = 0
  /\ worker' = [worker EXCEPT ![w] = "loop"]
  /\ UNCHANGED <<up, ring, stacks, at, inline, wait, done, mem>>

\* main has returned and the process exits: nothing happens any more.
Exited == at[Root] = "ended" /\ UNCHANGED vars

ThreadStep(t) ==
  \/ InitPool(t) \/ ForkQueued(t) \/ ForkInline(t) \/ StoreInline(t)
  \/ Join(t) \/ JoinTest(t) \/ JoinReap(t) \/ JoinHelp(t) \/ JoinNoHelp(t)
  \/ JoinRetest(t) \/ JoinTimeout(t)
  \/ Return(t) \/ Publish(t) \/ Unlock(t)

WorkerStep(w) == WorkerPoll(w) \/ WorkerTake(w) \/ WorkerMiss(w)

Next ==
  \/ \E t \in Threads : ThreadStep(t)
  \/ \E w \in Workers : WorkerStep(w) \/ SpuriousWake(w)
  \/ Exited

Spec == Init /\ [][Next]_vars

\* Every thread is scheduled, and a timed wait ends; no spurious wakeup is
\* promised.
Fairness ==
  /\ \A t \in Threads : WF_vars(ThreadStep(t))
  /\ \A w \in Workers : WF_vars(WorkerStep(w))

FairSpec == Spec /\ Fairness

-----------------------------------------------------------------------------
(* Properties. *)

\* Every variable keeps its type: the indices stay on the ring, the position of
\* a task and of a worker is one of those the code has.
TypeOK ==
  /\ up \in BOOLEAN
  /\ queue \in [Slots -> Tasks \cup {NoTask}]
  /\ head \in Nat /\ tail \in Nat /\ count \in 0 .. QueueSize
  /\ QueueSize > 0 => head \in Slots /\ tail \in Slots
  /\ worker \in [Workers -> {"off", "loop", "asleep", "take", "busy"}]
  /\ top \in [Threads -> Tasks \cup {NoTask}]
  /\ below \in [Tasks -> Tasks \cup {NoTask}]
  /\ at \in [Tasks -> {"unborn", "queued", "ended"} \cup OnStack]
  /\ inline \in SUBSET Forked
  /\ wait \in [Tasks -> Forked \cup {NoTask}]
  /\ done \in SUBSET Forked
  /\ mem \in [Tasks -> {"none", "live", "freed"}]

\* The slots that hold an item, from head on and around the end.
Used(i) == IF head + count <= QueueSize
           THEN head <= i /\ i < head + count
           ELSE head <= i \/ i < head + count - QueueSize

\* The items on the ring are exactly the tasks that wait to be run, each of
\* them once: llm_fork overwrites no item and llm_do_work loses none.
QueueExact ==
  /\ \A i \in Slots : Used(i) => queue[i] \in Tasks /\ at[queue[i]] = "queued"
  /\ \A i, j \in Slots : Used(i) /\ Used(j) /\ queue[i] = queue[j] => i = j
  /\ \A c \in Tasks : at[c] = "queued" => \E i \in Slots : Used(i) /\ queue[i] = c

\* From the fork of a task until the runner's last access to its handle the
\* handle is allocated, although the joiner frees it as soon as it sees done.
HandleLive ==
  \A c \in Forked : at[c] = "queued" \/ Active(c) => mem[c] = "live"

\* The parent of a task that is forked and not joined is still on a stack, so
\* the environment the task reads, an alloca of the parent's frame, exists.
EnvironmentLive ==
  \A c \in Forked : at[c] = "queued" \/ Active(c) => Active(Parent[c])

\* While a worker sleeps, every item on the ring has a worker that is awake and
\* about to look at the ring: no signal is lost.
NoLostWakeup == Asleep # {} => count <= Cardinality(Awake)

\* With an empty ring some thread with work is not inside llm_join for a task
\* that is not done: the joiners never all wait for one another, the deadlock
\* that helping the pool is there to avoid.
NoCircularWait ==
  count = 0 /\ (\E t \in Threads : top[t] # NoTask) =>
    \E t \in Threads : /\ top[t] # NoTask
                       /\ at[top[t]] \in InJoin => wait[top[t]] \in done

\* Every task that is forked is run, and its parent's llm_join returns.
ForkLeadsToJoin == \A c \in Forked : mem[c] = "live" ~> mem[c] = "freed"

\* What a program that uses the pool sees of it.
status == [u \in Tasks |->
  IF u # Root /\ mem[u] = "freed" THEN "joined"
  ELSE IF u = Root /\ at[u] = "ended" THEN "finished"
  ELSE IF u \in done THEN "finished"
  ELSE IF Active(u) THEN "running"
  ELSE IF at[u] = "queued" THEN "forked" ELSE "unborn"]

\* The pool implements structured fork/join: each task runs once, after its
\* fork and while its parent runs, and a join returns after the task finished.
Promise == INSTANCE ForkJoin
ImplementsForkJoin == Promise!Spec
=============================================================================
