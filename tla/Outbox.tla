------------------------------- MODULE Outbox -------------------------------
(***************************************************************************)
(* What the emission queue promises to a program: one log.  Emissions are  *)
(* accepted one at a time, and performed one at a time in that order.  The *)
(* program that returns from main normally has first seen every emission   *)
(* performed that was accepted before main asked to finish; a program that *)
(* panics promises nothing.                                                *)
(***************************************************************************)
EXTENDS Naturals, Sequences

CONSTANT Emissions

VARIABLES
  accepted,   \* every emission handed over so far, in order
  performed,  \* how many of them have been performed
  due,        \* how many of them main waits for: those accepted before it asked
  asked,      \* main has asked to finish
  ended       \* the process runs, or how it ended

vars == <<accepted, performed, due, asked, ended>>

Init == /\ accepted = <<>> /\ performed = 0 /\ due = 0
        /\ asked = FALSE /\ ended = "no"

Accept(e) ==
  /\ ended = "no" /\ \A i \in 1 .. Len(accepted) : accepted[i] # e
  /\ accepted' = Append(accepted, e)
  /\ UNCHANGED <<performed, due, asked, ended>>

Perform ==
  /\ ended = "no" /\ performed < Len(accepted)
  /\ performed' = performed + 1
  /\ UNCHANGED <<accepted, due, asked, ended>>

Ask ==
  /\ ended = "no" /\ ~asked
  /\ asked' = TRUE
  /\ due'   = Len(accepted)
  /\ UNCHANGED <<accepted, performed, ended>>

Exit ==
  /\ ended = "no" /\ performed >= due /\ (asked \/ accepted = <<>>)
  /\ ended' = "exit"
  /\ UNCHANGED <<accepted, performed, due, asked>>

Panic ==
  /\ ended = "no"
  /\ ended' = "panic"
  /\ UNCHANGED <<accepted, performed, due, asked>>

Next == (\E e \in Emissions : Accept(e)) \/ Perform \/ Ask \/ Exit \/ Panic

Spec == Init /\ [][Next]_vars
=============================================================================
