------------------------------ MODULE ForkJoin ------------------------------
(***************************************************************************)
(* What llm_fork and llm_join promise to the code the compiler generates,  *)
(* without threads, ring or handles: structured fork/join.  A task is      *)
(* forked by its parent while the parent runs, runs exactly once, finishes *)
(* after everything it forked has been joined, and is joined by its parent *)
(* after it has finished.                                                  *)
(***************************************************************************)
CONSTANTS Tasks, Root, Parent

VARIABLE status

Init == status = [u \in Tasks |-> IF u = Root THEN "running" ELSE "unborn"]

ParentRuns(c) == c # Root /\ status[Parent[c]] = "running"

Move(c, from, to) ==
  status[c] = from /\ status' = [status EXCEPT ![c] = to]

\* llm_fork; the task may start before llm_fork returns.
Fork(c) == ParentRuns(c) /\ (Move(c, "unborn", "forked") \/ Move(c, "unborn", "running"))

Start(c) == ParentRuns(c) /\ Move(c, "forked", "running")

Finish(c) ==
  /\ \A d \in Tasks \ {Root} : Parent[d] = c => status[d] \in {"unborn", "joined"}
  /\ Move(c, "running", "finished")

\* llm_join returns.
Join(c) == ParentRuns(c) /\ Move(c, "finished", "joined")

Next == \E c \in Tasks : Fork(c) \/ Start(c) \/ Finish(c) \/ Join(c)

Spec == Init /\ [][Next]_status
=============================================================================
