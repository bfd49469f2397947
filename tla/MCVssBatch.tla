----------------------------- MODULE MCVssBatch -----------------------------
(* Instances of VssBatch for TLC.                                          *)
EXTENDS VssBatch, MCCovers

\* About one secret: faulty rows, and every row from a column that cannot decode.
ComplaintGraphs ==
  {{e \in Party \X Targets : e[1] \in a[e[2]]} :
     a \in [Targets -> SUBSET ByzRow \union {Party}]}

MinimumCover == [E \in ComplaintGraphs |-> SmallestCover(E)]

\* A faulty row tells the truth about a secret, or lies to all targets.
AllOrNobody == {{}, Targets}
=============================================================================
