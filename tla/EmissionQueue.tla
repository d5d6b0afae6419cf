---------------------------- MODULE EmissionQueue ----------------------------
(***************************************************************************)
(* The emission queue of the runtime, src/src/runtime/http_server.c: many  *)
(* producers link blocks into a list under emission_mutex, one flusher     *)
(* thread unlinks them and does the I/O, and llm_emit_wait_all, called at  *)
(* the end of main, has the flusher drain the list and stop.               *)
(*                                                                         *)
(* Everything emission_mutex protects is touched only with it held, and no *)
(* holder blocks except in pthread_cond_wait: each critical section is one *)
(* step.  The list is the code's, head, tail and next; `order' is a ghost, *)
(* the blocks in the order in which they were linked.                      *)
(*                                                                         *)
(* An emission is identified by its producer and its number.  How its      *)
(* argument is owned depends on who emits it: "span" is                    *)
(* llm_otel_emit_span, which makes a string and gives it away; "literal"   *)
(* is an oe operator, or an http call whose result is discarded, with a    *)
(* string constant; "value" is one of the two with a string it owns, which *)
(* the generated code drops after the call (maybe_drop_val).               *)
(*                                                                         *)
(* Not modelled: malloc or pthread_create failing (neither is checked),    *)
(* and a program whose main calls main, which would wait twice.            *)
(***************************************************************************)
EXTENDS Naturals, Sequences

CONSTANTS
  Producers,  \* the threads that emit
  Main,       \* the one that runs main
  Abandoned,  \* producers that a trap in main no longer waits for
  Blocks,     \* the memory blocks of EmissionTasks, reused once freed
  Null,       \* a null pointer
  Sources,    \* the ways of emitting the program uses
  MaxEmits    \* bound: emissions of one producer

ASSUME ProducersAssumption == Main \in Producers /\ Abandoned \subseteq Producers \ {Main}

ASSUME BlocksAssumption == Null \notin Blocks

ASSUME SourcesAssumption == Sources \subseteq {"span", "literal", "value"}

ASSUME MaxEmitsAssumption == MaxEmits \in Nat \ {0}

Emissions == Producers \X (1 .. MaxEmits)

VARIABLES
  head, tail,  \* emission_queue_head, emission_queue_tail
  next,        \* task->next of each block
  item,        \* the emission in each block
  heap,        \* the blocks that are allocated
  started,     \* emission_thread_started
  shutdown,    \* emission_shutdown
  flusher,     \* where the flusher thread is
  cur,         \* the block it unlinked
  pc,          \* where a producer is
  mine,        \* the block a producer is about to link
  sent,        \* how many emissions a producer has begun
  source,      \* how each emission was made
  arg,         \* the argument of an emission: none yet, live, freed
  written,     \* the emissions performed, in order
  order,       \* ghost: the blocks on the list
  due,         \* ghost: what was accepted when main asked to finish
  proc         \* the process: up, exited or panicked

list == <<head, tail, next, item, heap, order>>
prod == <<pc, mine, sent, source>>
vars == <<head, tail, next, item, heap, order, started, shutdown, flusher, cur,
          pc, mine, sent, source, arg, written, due, proc>>

Init ==
  /\ head = Null /\ tail = Null
  /\ next  = [b \in Blocks |-> Null]
  /\ item  = [b \in Blocks |-> <<Main, 1>>]
  /\ heap  = {} /\ order = <<>>
  /\ started = FALSE /\ shutdown = FALSE
  /\ flusher = "none" /\ cur = Null
  /\ pc     = [p \in Producers |-> "code"]
  /\ mine   = [p \in Producers |-> Null]
  /\ sent   = [p \in Producers |-> 0]
  /\ source = [e \in Emissions |-> "span"]
  /\ arg    = [e \in Emissions |-> "none"]
  /\ written = <<>> /\ due = 0
  /\ proc = "up"

Up == proc = "up"

\* What has been handed over: performed, in the flusher's hands, on the list.
InHand   == IF flusher = "write" THEN <<item[cur]>> ELSE <<>>
OnList   == [i \in 1 .. Len(order) |-> item[order[i]]]
Accepted == written \o InHand \o OnList

-----------------------------------------------------------------------------
(* llm_emit_async and its callers. *)

\* Mutants of what follows: a signal that wakes nobody, a block that keeps the
\* link of its last use, an append that forgets the tail, a span that frees the
\* string it has given away.
WokenNot           == flusher
LinkStale(b)       == next[b]
TailAfterPushOld(b) == IF tail = Null THEN b ELSE tail
KeepsSpan(s)       == s \in {"span", "value"}

\* pthread_cond_signal(&emission_cond): the flusher leaves pthread_cond_wait.
Woken == IF flusher = "asleep" THEN "run" ELSE flusher

\* The link of a new block, and the tail of the list once b is on it.
Link(b)          == Null
TailAfterPush(b) == b

\* The caller still owns the argument when llm_emit_async returns, and drops it.
Keeps(s) == s = "value"

\* The argument is ready and the block is allocated and filled in.
Prepare(p, b, s) ==
  LET e == <<p, sent[p] + 1>> IN
  /\ Up /\ pc[p] = "code" /\ sent[p] < MaxEmits /\ b \notin heap
  /\ heap'   = heap \cup {b}
  /\ item'   = [item EXCEPT ![b] = e]
  /\ next'   = [next EXCEPT ![b] = Link(b)]
  /\ sent'   = [sent EXCEPT ![p] = @ + 1]
  /\ source' = [source EXCEPT ![e] = s]
  /\ arg'    = [arg EXCEPT ![e] = "live"]
  /\ mine'   = [mine EXCEPT ![p] = b]
  /\ pc'     = [pc EXCEPT ![p] = "push"]
  /\ UNCHANGED <<head, tail, order, started, shutdown, flusher, cur, written, due, proc>>

\* The critical section of llm_emit_async; the first one starts the flusher.
Push(p) ==
  LET b == mine[p] IN
  /\ Up /\ pc[p] = "push"
  /\ started' = TRUE
  /\ flusher' = IF started THEN Woken ELSE "run"
  /\ head'    = IF tail = Null THEN b ELSE head
  /\ next'    = IF tail = Null THEN next ELSE [next EXCEPT ![tail] = b]
  /\ tail'    = TailAfterPush(b)
  /\ order'   = Append(order, b)
  /\ mine'    = [mine EXCEPT ![p] = Null]
  /\ pc'      = [pc EXCEPT ![p] = "after"]
  /\ UNCHANGED <<item, heap, shutdown, cur, sent, source, arg, written, due, proc>>

\* llm_emit_async has returned to its caller.
AfterEmit(p) ==
  LET e == <<p, sent[p]>> IN
  /\ Up /\ pc[p] = "after"
  /\ arg' = IF Keeps(source[e]) THEN [arg EXCEPT ![e] = "freed"] ELSE arg
  /\ pc'  = [pc EXCEPT ![p] = "code"]
  /\ UNCHANGED <<list, started, shutdown, flusher, cur, mine, sent, source, written, due, proc>>

\* The task a producer runs has returned.
Finish(p) ==
  /\ Up /\ p # Main /\ pc[p] = "code"
  /\ pc' = [pc EXCEPT ![p] = "done"]
  /\ UNCHANGED <<list, started, shutdown, flusher, cur, mine, sent, source, arg, written, due, proc>>

\* llm_panic without a trap: exit(1).
Panic(p) ==
  /\ Up /\ pc[p] = "code"
  /\ proc' = "panicked"
  /\ UNCHANGED <<list, started, shutdown, flusher, cur, prod, arg, written, due>>

-----------------------------------------------------------------------------
(* llm_emit_wait_all, which main calls once it has joined its tasks. *)

MainReturns ==
  /\ Up /\ pc[Main] = "code"
  /\ \A p \in Producers \ ({Main} \cup Abandoned) : pc[p] = "done"

\* Nothing was ever emitted: main returns.
NothingToWaitFor ==
  /\ MainReturns /\ ~started
  /\ proc' = "exited"
  /\ UNCHANGED <<list, started, shutdown, flusher, cur, prod, arg, written, due>>

WaitAll ==
  /\ MainReturns /\ started
  /\ shutdown' = TRUE
  /\ due'      = Len(Accepted)
  /\ flusher'  = Woken
  /\ pc'       = [pc EXCEPT ![Main] = "join"]
  /\ UNCHANGED <<list, started, cur, mine, sent, source, arg, written, proc>>

\* pthread_join(emission_thread_id) returns, main returns, the process exits.
JoinFlusher ==
  /\ Up /\ pc[Main] = "join" /\ flusher = "exited"
  /\ proc' = "exited"
  /\ UNCHANGED <<list, started, shutdown, flusher, cur, prod, arg, written, due>>

-----------------------------------------------------------------------------
(* emission_flusher_thread. *)

\* Mutants: a tail that still points to the block just unlinked, a flusher that
\* leaves when it is told to with blocks on the list.
TailAfterTakeOld == tail
DrainedAlways    == TRUE

\* if (!emission_queue_head) emission_queue_tail = NULL
TailAfterTake == IF next[head] = Null THEN Null ELSE tail

\* The list has been emptied, the condition to leave on shutdown.
Drained == head = Null

FlusherTake ==
  /\ Up /\ flusher = "run" /\ head # Null
  /\ cur'     = head
  /\ head'    = next[head]
  /\ tail'    = TailAfterTake
  /\ order'   = Tail(order)
  /\ flusher' = "write"
  /\ UNCHANGED <<next, item, heap, started, shutdown, prod, arg, written, due, proc>>

FlusherSleep ==
  /\ Up /\ flusher = "run" /\ head = Null /\ ~shutdown
  /\ flusher' = "asleep"
  /\ UNCHANGED <<list, started, shutdown, cur, prod, arg, written, due, proc>>

FlusherExit ==
  /\ Up /\ flusher = "run" /\ Drained /\ shutdown
  /\ flusher' = "exited"
  /\ UNCHANGED <<list, started, shutdown, cur, prod, arg, written, due, proc>>

\* pthread_cond_wait returns without a signal.
SpuriousWake ==
  /\ Up /\ flusher = "asleep"
  /\ flusher' = "run"
  /\ UNCHANGED <<list, started, shutdown, cur, prod, arg, written, due, proc>>

\* The request is made or the line is written.
FlusherWrite ==
  /\ Up /\ flusher = "write"
  /\ written' = Append(written, item[cur])
  /\ flusher' = "drop"
  /\ UNCHANGED <<list, started, shutdown, cur, prod, arg, due, proc>>

\* The argument is dropped, which leaves a constant alone, and the block freed.
FlusherDrop ==
  /\ Up /\ flusher = "drop"
  /\ arg'     = IF source[item[cur]] = "literal" THEN arg
                ELSE [arg EXCEPT ![item[cur]] = "freed"]
  /\ heap'    = heap \ {cur}
  /\ cur'     = Null
  /\ flusher' = "run"
  /\ UNCHANGED <<head, tail, next, item, order, started, shutdown, prod, written, due, proc>>

Ended == ~Up /\ UNCHANGED vars

Flusher == FlusherTake \/ FlusherSleep \/ FlusherExit \/ FlusherWrite \/ FlusherDrop

Emit(p) ==
  \/ \E b \in Blocks, s \in Sources : Prepare(p, b, s)
  \/ Push(p) \/ AfterEmit(p)

Next ==
  \/ \E p \in Producers : Emit(p) \/ Finish(p) \/ Panic(p)
  \/ NothingToWaitFor \/ WaitAll \/ JoinFlusher
  \/ Flusher \/ SpuriousWake
  \/ Ended

Spec == Init /\ [][Next]_vars

\* The threads are scheduled.  That a producer ends, and that main gets to its
\* end, is the program's matter.
Fairness ==
  /\ WF_vars(Flusher)
  /\ WF_vars(JoinFlusher)

FairSpec == Spec /\ Fairness

-----------------------------------------------------------------------------
(* Properties. *)

\* Every variable keeps its type, and a pointer that is not null points to an
\* allocated block.
TypeOK ==
  /\ head \in heap \cup {Null} /\ tail \in heap \cup {Null}
  /\ cur \in heap \cup {Null}
  /\ mine \in [Producers -> heap \cup {Null}]
  /\ next \in [Blocks -> Blocks \cup {Null}]
  /\ item \in [Blocks -> Emissions]
  /\ heap \in SUBSET Blocks
  /\ order \in Seq(Blocks)
  /\ started \in BOOLEAN /\ shutdown \in BOOLEAN
  /\ flusher \in {"none", "run", "asleep", "write", "drop", "exited"}
  /\ pc \in [Producers -> {"code", "push", "after", "join", "done"}]
  /\ sent \in [Producers -> 0 .. MaxEmits]
  /\ source \in [Emissions -> {"span"} \cup Sources]
  /\ arg \in [Emissions -> {"none", "live", "freed"}]
  /\ written \in Seq(Emissions)
  /\ due \in Nat
  /\ proc \in {"up", "exited", "panicked"}

\* The linked list holds the blocks that were pushed and not taken, in order:
\* no append or removal loses, repeats or misplaces a block, and the list is
\* never left without its tail.
ListExact ==
  LET n == Len(order) IN
  /\ head = IF n = 0 THEN Null ELSE order[1]
  /\ tail = IF n = 0 THEN Null ELSE order[n]
  /\ \A i \in 1 .. n : next[order[i]] = IF i = n THEN Null ELSE order[i + 1]

\* What the flusher is about to write out and drop, and what a producer is about
\* to drop, has not been freed by the other.
ArgumentLive ==
  /\ flusher \in {"write", "drop"} => arg[item[cur]] = "live"
  /\ \A p \in Producers : LET e == <<p, sent[p]>> IN
       pc[p] = "after" /\ Keeps(source[e]) => arg[e] = "live"

\* The flusher sleeps only while there is nothing to do: neither an append nor
\* the request to shut down is missed.
NoMissedSignal == flusher = "asleep" => head = Null /\ ~shutdown

\* The queue is one log that is flushed before main returns.
Log == INSTANCE Outbox WITH
  accepted  <- Accepted,
  performed <- Len(written),
  asked     <- shutdown,
  ended     <- CASE proc = "up" -> "no" [] proc = "exited" -> "exit" [] OTHER -> "panic"
ImplementsOutbox == Log!Spec

\* What has been handed over is performed, unless the process ends first.
EmittedIsWritten ==
  \A e \in Emissions :
    (\E i \in 1 .. Len(Accepted) : Accepted[i] = e)
      ~> (proc # "up" \/ \E i \in 1 .. Len(written) : written[i] = e)

\* llm_emit_wait_all returns.
WaitAllReturns == shutdown ~> proc # "up"
=============================================================================
