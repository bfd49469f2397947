---------------------------- MODULE LayerBarrier ----------------------------
(***************************************************************************)
(* What the layers of a circuit promise: a node finishes a layer only when *)
(* every node has finished the one before, so that no two nodes are ever   *)
(* more than one layer apart.                                              *)
(***************************************************************************)
EXTENDS Naturals

CONSTANTS Node, Layers

VARIABLE finished   \* finished[k]: layers node k has finished

BarrierInit == finished = [k \in Node |-> 0]

Finish(k) ==
  /\ finished[k] < Layers
  /\ \A j \in Node : finished[j] >= finished[k]
  /\ finished' = [finished EXCEPT ![k] = @ + 1]

BarrierSpec == BarrierInit /\ [][\E k \in Node : Finish(k)]_finished
=============================================================================
