----------------------------- MODULE MCUnwinding ----------------------------
(* Constants for checking Unwinding.                                       *)
EXTENDS Unwinding

Budget(fork, try, span, parse, panic) ==
  [fork |-> fork, try |-> try, span |-> span, parse |-> parse, panic |-> panic]

MCBudgets == {Budget(3, 1, 0, 0, 1), Budget(2, 1, 1, 0, 1), Budget(1, 1, 3, 0, 1), Budget(2, 0, 0, 3, 0), Budget(1, 1, 0, 3, 1)}
=============================================================================
