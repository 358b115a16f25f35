----------------------------- MODULE MCThreads -----------------------------
(* Every forest of six records that appends can build, and every graph of  *)
(* five that a file can hold: circles, and replies to records elsewhere.   *)
EXTENDS Threads

Forests == {f \in [Ids -> 0..N] : \A i \in Ids : f[i] < i}

Damaged ==
  {[i \in Ids |-> IF i < N THEN g[i] ELSE 0] : g \in [1..(N - 1) -> 0..(N - 1) \cup {Elsewhere}]}

ForestsAndDamaged == Forests \cup Damaged
=============================================================================
