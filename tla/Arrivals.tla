------------------------------ MODULE Arrivals ------------------------------
(* Messages numbered in the order they reached the node.                   *)
EXTENDS Naturals, FiniteSets

\* The members of S that arrived before m.
Older(S, m) == {b \in S : b.seq < m.seq}

\* The k members of S that arrived first; all of S when it has no more than k.
Oldest(S, k) == {m \in S : Cardinality(Older(S, m)) < k}
=============================================================================
