---------------------------- MODULE MCThreadPool ----------------------------
(* Instances of ThreadPool for TLC: the shapes of two programs.               *)
EXTENDS ThreadPool, TLC

CONSTANTS r, a, b, c, d, main, w1, w2

\* main forks a, b and d, more than the ring holds; a forks c.
Tree == a :> r @@ b :> r @@ c :> a @@ d :> r

\* main forks a, a forks c, c forks d; main forks b.
Chain == a :> r @@ b :> r @@ c :> a @@ d :> c

TwoWorkers == Permutations({w1, w2})
=============================================================================
