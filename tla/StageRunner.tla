----------------------------- MODULE StageRunner -----------------------------
(***************************************************************************)
(* The layers of a rectangular circuit (benchmarks/run_mpc_stage_raw.py,   *)
(* _run_rank_async, randomness in batch_layer mode) at every node: the     *)
(* random sharings of the layer, one per dealer and all at once, the masks *)
(* of all gates, then the multiplications, at most Limit of them at a time *)
(* (async_util.py, bounded_gather); then the node drops what it no longer  *)
(* needs.  Nothing but the messages keeps the nodes together.              *)
(*                                                                         *)
(* Nodes follow the protocol.  What a stage sends is there for all nodes   *)
(* when the stage ends; a receive may be taken any time after.  The        *)
(* sharing of the inputs, before the first layer, is not modelled.         *)
(***************************************************************************)
EXTENDS Naturals, FiniteSets

CONSTANTS
  Node,
  Dealer,     \* bound: nodes whose random sharing is modelled (Node in the code)
  Layers,     \* d
  Gates,      \* w, the gates of a layer
  Inputs,     \* num_input_secrets
  Limit,      \* gate_parallel
  MayFail     \* bound: nodes whose run may end in an exception

ASSUME SizeAssumption ==
  /\ Layers \in Nat \ {0} /\ Gates \in Nat \ {0}
  /\ Inputs \in Nat \ {0} /\ Limit \in Nat \ {0}
  /\ IsFiniteSet(Node) /\ Dealer \subseteq Node /\ MayFail \subseteq Node

VARIABLES
  layer,    \* layer[k]: the layer node k is in, Layers when it has stopped
  sharing,  \* sharing[k][d]: the stage of d's sharing in that layer
  gate,     \* gate[k][g]: the stage of gate g in that layer
  prev,     \* prev[k]: operands of the layer in the state of node k
  gone,     \* gone[k]: messages for node k dropped before their receive
  failed    \* nodes whose run has ended in an exception

vars == <<layer, sharing, gate, prev, gone, failed>>

Gate == 0..(Gates - 1)
Operands(L, g) ==
  IF L = 0 THEN {g % Inputs, ((g + 1) % Gates) % Inputs} ELSE {g, (g + 1) % Gates}

\* The names of the stages, in order: the message a node waits for.
ShareStages == <<"slice", "line", "ij_set", "scalar", "done">>
GateStages == <<"masks", "queued", "mul_mask_eval", "mul_d", "rs_mu", "done">>
Position(s, seq) == CHOOSE i \in DOMAIN seq : seq[i] = s
AtLeast(s, x, seq) == Position(s, seq) >= Position(x, seq)
Following(s, seq) == seq[Position(s, seq) + 1]

-----------------------------------------------------------------------------
(* Messages.  Kind x of layer L is for layer L + Ahead(x) of the protocols.*)

SharingKind == {"slice", "line", "ij_set", "scalar"}
GateKind == {"mul_mask_eval", "mul_d", "rs_mu"}
Ahead(x) ==
  CASE x = "slice" -> 1
    [] x \in {"line", "ij_set"} -> 2
    [] x \in {"scalar", "mul_mask_eval", "mul_d"} -> 3
    [] x = "rs_mu" -> 4

Message ==
  [from : Dealer, layer : 0..(Layers - 1), kind : {"slice"}, of : Dealer]
    \union [from : Node, layer : 0..(Layers - 1),
            kind : SharingKind \ {"slice"}, of : Dealer]
    \union [from : Node, layer : 0..(Layers - 1), kind : GateKind, of : Gate]

\* Only its dealer deals; ij_set and scalar are sent one after the other.
SentInLayer(j, x, i) ==
  \/ x = "slice" /\ j = i
  \/ x \in {"line", "ij_set"} /\ AtLeast(sharing[j][i], x, ShareStages)
  \/ x = "scalar" /\ AtLeast(sharing[j][i], "ij_set", ShareStages)
  \/ x = "mul_mask_eval" /\ AtLeast(gate[j][i], "queued", GateStages)
  \/ x \in {"mul_d", "rs_mu"} /\ AtLeast(gate[j][i], x, GateStages)

Sent(m) ==
  \/ layer[m.from] > m.layer /\ (m.kind = "slice" => m.from = m.of)
  \/ layer[m.from] = m.layer /\ SentInLayer(m.from, m.kind, m.of)

\* mutant: a receive is content with all messages but one
Heard_oneShort(k, x, i) ==
  \E missing \in Node : \A j \in (IF x = "slice" THEN {i} ELSE Node) \ {missing} :
    LET m == [from |-> j, layer |-> layer[k], kind |-> x, of |-> i]
    IN  Sent(m) /\ m \notin gone[k]

\* The receive of kind x is over: the dealer's slice, or everybody's message.
Heard(k, x, i) ==
  \A j \in IF x = "slice" THEN {i} ELSE Node :
    LET m == [from |-> j, layer |-> layer[k], kind |-> x, of |-> i]
    IN  Sent(m) /\ m \notin gone[k]

ReceivedInLayer(k, x, i) ==
  IF x \in SharingKind
  THEN sharing[k][i] # x /\ AtLeast(sharing[k][i], x, ShareStages)
  ELSE gate[k][i] # x /\ AtLeast(gate[k][i], x, GateStages)

Received(k, m) ==
  \/ layer[k] > m.layer
  \/ layer[k] = m.layer /\ ReceivedInLayer(k, m.kind, m.of)

-----------------------------------------------------------------------------
Init ==
  /\ layer = [k \in Node |-> 0]
  /\ sharing = [k \in Node |-> [d \in Dealer |-> "slice"]]
  /\ gate = [k \in Node |-> [g \in Gate |-> "masks"]]
  /\ prev = [k \in Node |-> {g % Inputs : g \in Gate}]
  /\ gone = [k \in Node |-> {}]
  /\ failed = {}

Running(k) == k \notin failed /\ layer[k] < Layers

\* The sharing of dealer d goes one stage on, on its own.
ShareStep(k, d) ==
  /\ Running(k) /\ sharing[k][d] # "done"
  /\ Heard(k, sharing[k][d], d)
  /\ sharing' = [sharing EXCEPT ![k][d] = Following(@, ShareStages)]
  /\ UNCHANGED <<layer, gate, prev, gone, failed>>

\* What a clearing of node k may drop: what it has not received of the
\* messages in Matching; one that is still on its way is spared.
Lost(k, Matching) == {m \in Matching : Sent(m) /\ ~Received(k, m)}

\* The messages of the multiplication of gate g but the rows just heard.
GateScratch(k, g) ==
  [from : Node, layer : {layer[k]}, kind : GateKind \ {"rs_mu"}, of : {g}]

\* The messages of the layer's sharings.
SharingScratch(k) ==
  [from : Node, layer : {layer[k]}, kind : SharingKind, of : Dealer]

\* The layer's randomness is there: the messages of its sharings are cleared
\* and the masks of all gates are sent.
MaskPrep(k) ==
  /\ Running(k)
  /\ \A d \in Dealer : sharing[k][d] = "done"
  /\ \A g \in Gate : gate[k][g] = "masks"
  /\ gate' = [gate EXCEPT ![k] = [g \in Gate |-> "queued"]]
  /\ \E D \in SUBSET Lost(k, SharingScratch(k)) :
       gone' = [gone EXCEPT ![k] = @ \union D]
  /\ UNCHANGED <<layer, sharing, prev, failed>>

InProgress(k) == {g \in Gate : gate[k][g] \in GateKind}

\* mutant: the semaphore wakes any waiter
Admitted_anyOrder(k, g) == Cardinality(InProgress(k)) < Limit

\* The semaphore admits the waiting gates in the order of the gates.
Admitted(k, g) ==
  /\ Cardinality(InProgress(k)) < Limit
  /\ \A h \in Gate : h < g => gate[k][h] # "queued"

StartGate(k, g) ==
  /\ Running(k) /\ gate[k][g] = "queued" /\ Admitted(k, g)
  /\ gate' = [gate EXCEPT ![k][g] = "mul_mask_eval"]
  /\ UNCHANGED <<layer, sharing, prev, gone, failed>>

\* Masks heard and opening sent, openings heard and row sent.
GateStep(k, g) ==
  /\ Running(k) /\ gate[k][g] \in {"mul_mask_eval", "mul_d"}
  /\ Heard(k, gate[k][g], g)
  /\ gate' = [gate EXCEPT ![k][g] = Following(@, GateStages)]
  /\ UNCHANGED <<layer, sharing, prev, gone, failed>>

\* mutant: a gate that is done pops its operands
FinishGate_popsOperands(k, g) ==
  /\ Running(k) /\ gate[k][g] = "rs_mu"
  /\ Heard(k, "rs_mu", g)
  /\ gate' = [gate EXCEPT ![k][g] = "done"]
  /\ prev' = [prev EXCEPT ![k] = @ \ Operands(layer[k], g)]
  /\ UNCHANGED <<layer, sharing, gone, failed>>

\* The rows heard: the gate's messages and scratch values are cleared.
FinishGate(k, g) ==
  /\ Running(k) /\ gate[k][g] = "rs_mu"
  /\ Heard(k, "rs_mu", g)
  /\ gate' = [gate EXCEPT ![k][g] = "done"]
  /\ \E D \in SUBSET Lost(k, GateScratch(k, g)) :
       gone' = [gone EXCEPT ![k] = @ \union D]
  /\ UNCHANGED <<layer, sharing, prev, failed>>

\* mutant: clears what is before the layer of the outputs
ClearBefore_outputs(L) == L + 4

\* After layer L everything for an earlier protocol layer than this goes.
ClearBefore(L) == L

EarlierThan(b) == {m \in Message : m.layer + Ahead(m.kind) < b}

\* All gates are done: operands popped, old layers cleared, the next layer
\* begun, with the outputs as operands (they are values of layer L + 4).
FinishLayer(k) ==
  /\ Running(k)
  /\ \A g \in Gate : gate[k][g] = "done"
  /\ layer' = [layer EXCEPT ![k] = @ + 1]
  /\ sharing' = [sharing EXCEPT ![k] = [d \in Dealer |-> "slice"]]
  /\ gate' = [gate EXCEPT ![k] = [g \in Gate |-> "masks"]]
  /\ prev' = [prev EXCEPT ![k] = {g \in Gate : layer[k] + 4 >= ClearBefore(layer[k])}]
  /\ \E D \in SUBSET Lost(k, EarlierThan(ClearBefore(layer[k]))) :
       gone' = [gone EXCEPT ![k] = @ \union D]
  /\ UNCHANGED failed

\* An exception ends the run of node k; what it has sent is sent.
Fail(k) ==
  /\ k \in MayFail /\ Running(k)
  /\ failed' = failed \union {k}
  /\ UNCHANGED <<layer, sharing, gate, prev, gone>>

Advance(k) ==
  \/ \E d \in Dealer : ShareStep(k, d)
  \/ MaskPrep(k)
  \/ \E g \in Gate : StartGate(k, g) \/ GateStep(k, g) \/ FinishGate(k, g)
  \/ FinishLayer(k)

Next == \E k \in Node : Advance(k) \/ Fail(k)

Spec == Init /\ [][Next]_vars

\* As long as a node can take a step, one of those that can takes it.
FairSpec == Spec /\ WF_vars(\E k \in Node : Advance(k))
-----------------------------------------------------------------------------
TypeOK ==
  /\ layer \in [Node -> 0..Layers]
  /\ sharing \in [Node -> [Dealer -> {ShareStages[i] : i \in DOMAIN ShareStages}]]
  /\ gate \in [Node -> [Gate -> {GateStages[i] : i \in DOMAIN GateStages}]]
  /\ prev \in [Node -> SUBSET (0..(Gates + Inputs))]
  /\ gone \in [Node -> SUBSET Message]
  /\ failed \subseteq MayFail

\* No clearing (_clear_mul_scratch, clear_before_layer) drops a message the
\* node still has to receive, however far ahead its sender is
\* (run_mpc_stage_raw.py:214-216, 402-403).
NothingUnreceivedIsCleared == \A k \in Node : gone[k] = {}

\* A gate that has not read its operands finds them: they are popped only
\* when all gates are done, and the clearing of old layers spares the
\* outputs (run_mpc_stage_raw.py:396-404).
OperandsPresent ==
  \A k \in Node, g \in Gate :
    layer[k] < Layers /\ gate[k][g] \in {"masks", "queued"}
      => Operands(layer[k], g) \subseteq prev[k]

\* A node stops its server only when nobody has anything left to send it:
\* no send can fail because its receiver is done (run_mpc_stage_raw.py:409).
NobodySendsToStopped ==
  \A k \in Node : layer[k] = Layers =>
    \A m \in Message : (m.kind = "slice" => m.from = m.of) => Sent(m)

\* The messages of the protocols are the only thing that keeps the nodes in
\* step: they implement a barrier between the layers, even when nodes fail.
Barrier == INSTANCE LayerBarrier WITH finished <- layer
ImplementsBarrier == Barrier!BarrierSpec

\* When no node fails, every node finishes the circuit: the bounded number
\* of gates in progress never makes two nodes wait for each other's gates
\* (async_util.py:13-18).
Termination == <>(failed # {} \/ \A k \in Node : layer[k] = Layers)
=============================================================================
