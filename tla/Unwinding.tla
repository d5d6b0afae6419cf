------------------------------ MODULE Unwinding -----------------------------
(***************************************************************************)
(* What the threads of a running program keep to themselves: the trap      *)
(* stack of runtime/io.c, the span context of runtime/http_server.c and    *)
(* the JSON roots of runtime/json.c.  Forked tasks run on any thread, on   *)
(* top of whatever a joining thread was doing, and a panic unwinds the     *)
(* thread it happens on.  The pool is that of ForkJoin: a queue, workers   *)
(* and joiners that help.  The program is arbitrary, within its budget.    *)
(***************************************************************************)
EXTENDS Naturals, FiniteSets, SequencesExt

CONSTANTS Threads, Main,   \* the threads of the pool, and the main thread
          Addresses,       \* where a JSON cell may be allocated
          MaxSpans,        \* the depth of the context stack, 256
          MaxRoots,        \* MAX_ACTIVE_ROOTS, 256
          Budgets          \* how often the program does what, at most

Operations == {"fork", "try", "span", "parse", "panic"}

ASSUME UnwindingAssumption ==
  /\ Main \in Threads /\ 0 \notin Addresses
  /\ MaxSpans \in Nat /\ MaxRoots \in Nat
  /\ Budgets \subseteq [Operations -> Nat]

VARIABLES stack,      \* thread -> the frames on its call stack, outermost first
          traps,      \* thread -> llm_trap_stack, as positions of frames
          saved,      \* thread -> context_stack, up to its depth
          current,    \* thread -> current_trace_id and current_span_id
          roots,      \* thread -> active_json_roots
          queue,      \* the tasks that wait in the pool
          result,     \* task done -> the JSON value it returned, or 0
          live,       \* the addresses of JSON cells that are not freed
          halted,     \* the process has ended
          left,       \* what is left of the budget; spans are numbered by it
          born,       \* history: the tasks forked
          cut,        \* history: tasks whose frame a panic discarded
          orphaned,   \* history: tasks whose forker a panic discarded
          tainted,    \* history: threads whose span exits were not as their entries
          maker,      \* history: address -> the thread that parsed the cell
          unlisted,   \* history: cells that were not registered, for want of room
          stray       \* history: <<thread, cell>> freed by another thread

taskVars    == <<queue, result, born, orphaned, cut>>
spanVars    == <<saved, current, tainted>>
jsonVars    == <<roots, live, maker, unlisted, stray>>
historyVars == <<born, cut, orphaned, tainted, maker, unlisted, stray>>
vars == <<stack, traps, saved, current, roots, queue, result, live, halted, left, historyVars>>

(* kind   : "task", "try", "fallback", "span" or "json", the last a scope  *)
(*          that holds a JSON value                                        *)
(* id     : the task, the span or the cell                                 *)
(* forked : the tasks it forked and did not join; joining: the one it is   *)
(*          waiting for, or 0                                              *)
Frame(kind, id) == [kind |-> kind, id |-> id, forked |-> {}, joining |-> 0]

Top(t)     == Last(stack[t])
Busy(t)    == ~halted /\ stack[t] # <<>>
Active(t)  == Busy(t) /\ Top(t).joining = 0
Joining(t) == Busy(t) /\ Top(t).joining # 0
May(op)    == left[op] > 0
Spend(op)  == left' = [left EXCEPT ![op] = @ - 1]
Push(t, f) == stack' = [stack EXCEPT ![t] = Append(@, f)]
Pop(t)     == stack' = [stack EXCEPT ![t] = Front(@)]

\* A frame is left when every task it forked is joined; not so in the mutant.
LeavingEarly(t, kind) == Active(t) /\ Top(t).kind = kind
Leaving(t, kind) == Active(t) /\ Top(t).kind = kind /\ Top(t).forked = {}

NoSpan == [trace |-> 0, span |-> 0]

Init ==
  /\ stack = [t \in Threads |-> IF t = Main THEN <<Frame("task", 0)>> ELSE <<>>]
  /\ traps = [t \in Threads |-> <<>>]
  /\ saved = [t \in Threads |-> <<>>] /\ current = [t \in Threads |-> NoSpan]
  /\ roots = [t \in Threads |-> <<>>] /\ live = {}
  /\ queue = <<>> /\ result = <<>>
  /\ halted = FALSE /\ left \in Budgets
  /\ born = {} /\ cut = {} /\ orphaned = {} /\ tainted = {}
  /\ maker = <<>> /\ unlisted = {} /\ stray = {}

-----------------------------------------------------------------------------
(* Tasks.                                                                  *)
Fork(t) ==
  /\ Active(t) /\ May("fork")
  /\ LET k == Cardinality(born) + 1
     IN  /\ born' = born \cup {k}
         /\ queue' = Append(queue, k)
         /\ stack' = [stack EXCEPT ![t][Len(stack[t])].forked = @ \cup {k}]
  /\ Spend("fork")
  /\ UNCHANGED <<traps, spanVars, jsonVars, result, halted, cut, orphaned>>

StartJoin(t) ==
  /\ Active(t)
  /\ \E k \in Top(t).forked : stack' = [stack EXCEPT ![t][Len(stack[t])].joining = k]
  /\ UNCHANGED <<traps, spanVars, jsonVars, taskVars, halted, left>>

\* llm_do_work: a worker, or a joiner on top of what it is doing.
RunTask(t) ==
  /\ queue # <<>>
  /\ Push(t, Frame("task", Head(queue)))
  /\ queue' = Tail(queue)
  /\ UNCHANGED <<traps, spanVars, jsonVars, result, halted, left, born, cut, orphaned>>

Work(t) == ~halted /\ t # Main /\ stack[t] = <<>> /\ RunTask(t)

(* A joiner helps after it has found its task undone, which may no longer  *)
(* be so.  A mutant does not help.                                         *)
HelpNot(t) == FALSE

Help(t) == Joining(t) /\ RunTask(t)

EndJoin(t) ==
  /\ Joining(t)
  /\ LET k == Top(t).joining
         joined == [stack[t] EXCEPT ![Len(stack[t])].forked = @ \ {k},
                                    ![Len(stack[t])].joining = 0]
     IN  /\ k \in DOMAIN result
         /\ stack' = [stack EXCEPT ![t] =
              IF result[k] = 0 THEN joined ELSE Append(joined, Frame("json", result[k]))]
  /\ UNCHANGED <<traps, spanVars, jsonVars, taskVars, halted, left>>

\* Task k is done, with the JSON value v or none.
Done(k, v) == result' = [j \in DOMAIN result \cup {k} |-> IF j = k THEN v ELSE result[j]]

\* The process ends when main returns.
FinishTask(t) ==
  /\ Leaving(t, "task")
  /\ Pop(t)
  /\ Done(Top(t).id, 0)
  /\ halted' = (Top(t).id = 0)
  /\ UNCHANGED <<traps, spanVars, jsonVars, queue, left, born, cut, orphaned>>

\* A task returns the JSON value that it made or was given.
ReturnJson(t) ==
  /\ Leaving(t, "json")
  /\ LET n == Len(stack[t])
         task == stack[t][n - 1]
     IN  /\ task.kind = "task" /\ task.id # 0 /\ task.forked = {}
         /\ stack' = [stack EXCEPT ![t] = SubSeq(@, 1, n - 2)]
         /\ Done(task.id, Top(t).id)
  /\ UNCHANGED <<traps, spanVars, jsonVars, queue, halted, left, born, cut, orphaned>>

-----------------------------------------------------------------------------
(* Traps: llm_try pushes its frame and pops it on either way out.          *)
OpenTry(t) ==
  /\ Active(t) /\ May("try")
  /\ Push(t, Frame("try", 0))
  /\ traps' = [traps EXCEPT ![t] = Append(@, Len(stack[t]) + 1)]
  /\ Spend("try")
  /\ UNCHANGED <<spanVars, jsonVars, taskVars, halted>>

\* A mutant leaves the frame on the trap stack.
CloseTryKeeping(t) ==
  /\ Leaving(t, "try")
  /\ Pop(t)
  /\ UNCHANGED <<traps, spanVars, jsonVars, taskVars, halted, left>>

CloseTry(t) ==
  /\ Leaving(t, "try")
  /\ Pop(t)
  /\ traps' = [traps EXCEPT ![t] = Front(@)]
  /\ UNCHANGED <<spanVars, jsonVars, taskVars, halted, left>>

EndFallback(t) ==
  /\ Leaving(t, "fallback")
  /\ Pop(t)
  /\ UNCHANGED <<traps, spanVars, jsonVars, taskVars, halted, left>>

\* What a panic discards: the frames above d, and the body under the trap.
Discarded(t, d) == {i \in DOMAIN stack[t] : i > d}
Tasks(t, d)     == {stack[t][i].id : i \in {j \in Discarded(t, d) : stack[t][j].kind = "task"}}
Forks(t, d)     == UNION {stack[t][i].forked : i \in Discarded(t, d) \cup {d}}

(* longjmp to the innermost trap of the thread, whichever task set it; the *)
(* process exits if there is none.                                         *)
Panic(t) ==
  /\ Active(t) /\ May("panic")
  /\ Spend("panic")
  /\ IF traps[t] = <<>>
     THEN halted' = TRUE /\ UNCHANGED <<stack, traps, cut, orphaned, tainted>>
     ELSE LET d == Last(traps[t])
          IN  /\ stack' = [stack EXCEPT ![t] = Append(SubSeq(@, 1, d - 1), Frame("fallback", 0))]
              /\ traps' = [traps EXCEPT ![t] = Front(@)]
              /\ cut' = cut \cup Tasks(t, d)
              /\ orphaned' = orphaned \cup Forks(t, d)
              /\ tainted' = IF \E i \in Discarded(t, d) : stack[t][i].kind = "span"
                            THEN tainted \cup {t} ELSE tainted
              /\ UNCHANGED halted
  /\ UNCHANGED <<saved, current, jsonVars, queue, result, born>>

-----------------------------------------------------------------------------
(* Spans: llm_otel_enter_span and llm_otel_exit_span.                      *)
EnterSpan(t) ==
  /\ Active(t) /\ May("span")
  /\ Push(t, Frame("span", left.span))
  /\ IF Len(saved[t]) < MaxSpans
     THEN saved' = [saved EXCEPT ![t] = Append(@, current[t])] /\ UNCHANGED tainted
     ELSE tainted' = tainted \cup {t} /\ UNCHANGED saved
  /\ current' = [current EXCEPT ![t] =
       [trace |-> IF @.trace = 0 THEN left.span ELSE @.trace, span |-> left.span]]
  /\ Spend("span")
  /\ UNCHANGED <<traps, jsonVars, taskVars, halted>>

\* A mutant restores the span and not the trace.
ExitSpanInTrace(t) ==
  /\ Leaving(t, "span")
  /\ Pop(t)
  /\ IF saved[t] # <<>>
     THEN /\ saved' = [saved EXCEPT ![t] = Front(@)]
          /\ current' = [current EXCEPT ![t].span = Last(saved[t]).span]
     ELSE current' = [current EXCEPT ![t] = NoSpan] /\ UNCHANGED saved
  /\ UNCHANGED <<traps, tainted, jsonVars, taskVars, halted, left>>

ExitSpan(t) ==
  /\ Leaving(t, "span")
  /\ Pop(t)
  /\ IF saved[t] # <<>>
     THEN /\ saved' = [saved EXCEPT ![t] = Front(@)]
          /\ current' = [current EXCEPT ![t] = Last(saved[t])]
     ELSE current' = [current EXCEPT ![t] = NoSpan] /\ UNCHANGED saved
  /\ UNCHANGED <<traps, tainted, jsonVars, taskVars, halted, left>>

-----------------------------------------------------------------------------
(* JSON values: json_parse registers the cell with the thread, the drop of *)
(* the last reference removes it from the registry of the thread that runs *)
(* it, the last entry taking its place.                                    *)
ParseJson(t, a) ==
  /\ Active(t) /\ May("parse") /\ a \notin live
  /\ Push(t, Frame("json", a))
  /\ live' = live \cup {a}
  /\ maker' = [x \in DOMAIN maker \cup {a} |-> IF x = a THEN t ELSE maker[x]]
  /\ IF Len(roots[t]) < MaxRoots
     THEN roots' = [roots EXCEPT ![t] = Append(@, a)] /\ unlisted' = unlisted \ {a}
     ELSE unlisted' = unlisted \cup {a} /\ UNCHANGED roots
  /\ Spend("parse")
  /\ UNCHANGED <<traps, spanVars, taskVars, halted, stray>>

\* A mutant takes the last entry off, whichever it is.
UnregisteredLast(list, a) == IF list = <<>> THEN list ELSE Front(list)

Unregistered(list, a) ==
  LET i == SelectInSeq(list, LAMBDA x : x = a)
  IN  IF i = 0 THEN list ELSE Front([list EXCEPT ![i] = Last(list)])

DropJson(t) ==
  /\ Leaving(t, "json")
  /\ LET a == Top(t).id
     IN  /\ roots' = [roots EXCEPT ![t] = Unregistered(@, a)]
         /\ live' = live \ {a}
         /\ stray' = IF maker[a] # t /\ a \notin unlisted THEN stray \cup {<<maker[a], a>>} ELSE stray
  /\ Pop(t)
  /\ UNCHANGED <<traps, spanVars, taskVars, halted, left, maker, unlisted>>

-----------------------------------------------------------------------------
Step(t) ==
  \/ Fork(t) \/ StartJoin(t) \/ Work(t) \/ Help(t) \/ EndJoin(t) \/ FinishTask(t) \/ ReturnJson(t)
  \/ OpenTry(t) \/ CloseTry(t) \/ EndFallback(t) \/ Panic(t)
  \/ EnterSpan(t) \/ ExitSpan(t)
  \/ (\E a \in Addresses : ParseJson(t, a)) \/ DropJson(t)

Next == \E t \in Threads : Step(t)

\* The operating system runs every thread that can run.
Spec == Init /\ [][Next]_vars /\ \A t \in Threads : WF_vars(Step(t))

-----------------------------------------------------------------------------
Frames     == UNION {{<<t, i>> : i \in DOMAIN stack[t]} : t \in Threads}
At(f)      == stack[f[1]][f[2]]
Running(k) == {f \in Frames : At(f).kind = "task" /\ At(f).id = k}
TaskIds    == UNION {1 .. b.fork : b \in Budgets}

(* The trap stack of a thread lists exactly the trap frames on its call    *)
(* stack, in order: a panic never resumes in a frame that has returned or  *)
(* was discarded, whatever task it happens in.                             *)
TrapsAreFrames ==
  \A t \in Threads :
    /\ \A i, j \in 1 .. Len(traps[t]) : i < j => traps[t][i] < traps[t][j]
    /\ {traps[t][i] : i \in 1 .. Len(traps[t])}
         = {i \in 1 .. Len(stack[t]) : stack[t][i].kind = "try"}

(* Every task forked waits in the queue, runs on one stack or is done, and *)
(* is lost only if a panic discarded its frame; the frame with its         *)
(* environment is there until it is done, unless a panic discarded it.     *)
StructuredUnlessCut ==
  \A k \in born :
    /\ Cardinality(Running(k)) + Cardinality({i \in DOMAIN queue : queue[i] = k})
         = IF k \in DOMAIN result \cup cut THEN 0 ELSE 1
    /\ k \notin DOMAIN result \cup orphaned => \E f \in Frames : k \in At(f).forked

(* A task that is forked is done in the end, unless the process ends or a  *)
(* panic discards a task that a joining thread was running.                *)
TaskEnds == \A k \in TaskIds : k \in born ~> k \in DOMAIN result \/ halted \/ cut # {}

(* A thread is in the span of the innermost function on its stack, and in  *)
(* the trace of the outermost: only a panic through a span or a stack that *)
(* is full breaks that.                                                    *)
SpanFollowsCalls ==
  \A t \in Threads \ tainted :
    LET spans == {i \in DOMAIN stack[t] : stack[t][i].kind = "span"}
    IN  /\ Len(saved[t]) = Cardinality(spans)
        /\ current[t] = IF spans = {} THEN NoSpan
                        ELSE [trace |-> stack[t][Min(spans)].id, span |-> stack[t][Max(spans)].id]

(* A thread knows as JSON roots the cells that it parsed itself while      *)
(* there was room, and apart from them only some that another thread freed.*)
(* A value that a task returns is taken for a node by who joins the task.  *)
RootsAreOwn ==
  \A t \in Threads : \A a \in Addresses :
    LET own == a \in live /\ maker[a] = t
    IN  /\ own /\ a \notin unlisted => a \in ToSet(roots[t])
        /\ a \in ToSet(roots[t]) => own \/ <<t, a>> \in stray
=============================================================================
