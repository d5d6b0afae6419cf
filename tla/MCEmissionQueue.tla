--------------------------- MODULE MCEmissionQueue ---------------------------
(* Instances of EmissionQueue for TLC. *)
EXTENDS EmissionQueue, TLC

CONSTANTS main, a, z, b1, b2, b3

AnyBlock == Permutations({b1, b2, b3})
=============================================================================
