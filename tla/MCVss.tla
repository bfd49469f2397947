-------------------------------- MODULE MCVss --------------------------------
(* Instances of Vss for TLC.                                               *)
EXTENDS Vss, MCCovers

\* The complaints that can come up: about faulty rows, from faulty columns, and
\* about every row from a column that cannot decode.
ComplaintGraphs ==
  SUBSET ((ByzRow \X Targets) \union (Targets \X ByzCol)) \union
  {{e \in Party \X Targets : e[1] \in a[e[2]]} :
     a \in [Targets -> SUBSET ByzRow \union {Party}]}

MinimumCover == [E \in ComplaintGraphs |-> SmallestCover(E)]

\* Nodes act in rank order, stage by stage: the order is immaterial once
\* everything a stage reads is fixed.
Rank == [p \in Stage |->
  CASE p = "com1" -> 1 [] p = "com2" -> 2 [] p = "scalars" -> 3 [] p = "public" -> 4
    [] p = "com3" -> 5 [] OTHER -> 6]
OneAfterAnother ==
  /\ \E m \in 0..n : slices = 1..m
  /\ slices # Party => lines = {}
  /\ \A k, l \in Party :
       k < l /\ pc[l] # "failed" => Rank[pc[k]] - Rank[pc[l]] \in {0, 1}
=============================================================================
