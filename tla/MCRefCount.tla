----------------------------- MODULE MCRefCount -----------------------------
(* Instance of RefCount for TLC: main and two tasks it forks. *)
EXTENDS RefCount, TLC

CONSTANTS main, a, b, o1, o2, s1, r1, r2, r3, r4

\* main forks a and b.
Fork2 == a :> main @@ b :> main

Sym == Permutations({o1, o2}) \cup Permutations({r1, r2, r3, r4})
         \cup Permutations({a, b})
=============================================================================
