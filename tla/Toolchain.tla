------------------------------ MODULE Toolchain -----------------------------
(***************************************************************************)
(* The workbench with the compiler's own lexer, parser, printer and        *)
(* verifier: what they are to the modules that only use them.              *)
(***************************************************************************)
EXTENDS Workbench, Names, Printing

(* What the printer writes of a module, one that was parsed or one with a  *)
(* patched body, means that module with its free names bound by what they  *)
(* are now printed under; all else is due to six texts the grammar reads   *)
(* differently.                                                            *)
PrintedMeansBound ==
  /\ stage = "prune" /\ phase = "roots" /\ scan = 1 => MeansBound(module)
  /\ \A r \in Requests : At(r, "truncate") => MeansBound(request[r].exprs)
=============================================================================
