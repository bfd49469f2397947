--------------------------- MODULE EvaluationProofs ---------------------------
(***************************************************************************)
(* The evaluation of circuits, for every number of nodes and every         *)
(* threshold, whatever the circuits.                                       *)
(*                                                                         *)
(* StageRunner: the layers of a rectangular circuit stay in step, whatever *)
(* nodes fail; and the clearings never drop a message that is still to be  *)
(* received.                                                               *)
(*                                                                         *)
(* CircuitRun: what is evaluated gate by gate is the circuit, no random    *)
(* sharing is used twice, and the cost is the one that is computed from    *)
(* the circuit alone.                                                      *)
(***************************************************************************)
EXTENDS StageRunner, CircuitRun, FiniteSetTheorems, WellFoundedInduction, TLAPS

-----------------------------------------------------------------------------
(* StageRunner.                                                            *)

ShareStage == {"slice", "line", "ij_set", "scalar", "done"}
GateStage == {"masks", "queued", "mul_mask_eval", "mul_d", "rs_mu", "done"}

\* The places of the stages of a gate.
LEMMA GatePlaces ==
  /\ Position("masks", GateStages) = 1
  /\ Position("queued", GateStages) = 2
  /\ Position("mul_mask_eval", GateStages) = 3
  /\ Position("mul_d", GateStages) = 4
  /\ Position("rs_mu", GateStages) = 5
  /\ Position("done", GateStages) = 6
<1>1. DOMAIN GateStages = 1..6
  BY DEF GateStages
<1>2. /\ GateStages[1] = "masks" /\ GateStages[2] = "queued"
      /\ GateStages[3] = "mul_mask_eval" /\ GateStages[4] = "mul_d"
      /\ GateStages[5] = "rs_mu" /\ GateStages[6] = "done"
  BY DEF GateStages
<1>3. \A i \in 1..6 : i = 1 \/ i = 2 \/ i = 3 \/ i = 4 \/ i = 5 \/ i = 6
  OBVIOUS
<1> HIDE DEF GateStages
<1>4. ASSUME NEW i \in 1..6, NEW s, GateStages[i] = s,
             \A j \in 1..6 : GateStages[j] = s => j = i
      PROVE  Position(s, GateStages) = i
  BY <1>1, <1>4 DEF Position
<1> QED
  BY <1>2, <1>3, <1>4

\* The places of the stages of a sharing.
LEMMA SharePlaces ==
  /\ Position("slice", ShareStages) = 1
  /\ Position("line", ShareStages) = 2
  /\ Position("ij_set", ShareStages) = 3
  /\ Position("scalar", ShareStages) = 4
  /\ Position("done", ShareStages) = 5
<1>1. DOMAIN ShareStages = 1..5
  BY DEF ShareStages
<1>2. /\ ShareStages[1] = "slice" /\ ShareStages[2] = "line"
      /\ ShareStages[3] = "ij_set" /\ ShareStages[4] = "scalar"
      /\ ShareStages[5] = "done"
  BY DEF ShareStages
<1>3. \A i \in 1..5 : i = 1 \/ i = 2 \/ i = 3 \/ i = 4 \/ i = 5
  OBVIOUS
<1> HIDE DEF ShareStages
<1>4. ASSUME NEW i \in 1..5, NEW s, ShareStages[i] = s,
             \A j \in 1..5 : ShareStages[j] = s => j = i
      PROVE  Position(s, ShareStages) = i
  BY <1>1, <1>4 DEF Position
<1> QED
  BY <1>2, <1>3, <1>4
-----------------------------------------------------------------------------
(* The inductive invariant.                                                *)

Complete(j, g) == gate[j][g] \in {"rs_mu", "done"}

\* A multiplication is over only when every node has sent its row.
RowsSent ==
  \A k, j \in Node, g \in Gate : gate[k][g] = "done" =>
    \/ layer[j] > layer[k]
    \/ layer[j] = layer[k] /\ Complete(j, g)

\* A node is ahead by at most a layer, and then only of nodes that have
\* nothing left to send in theirs.
OneAhead ==
  \A k, j \in Node : layer[k] > layer[j] =>
    layer[k] = layer[j] + 1 /\ \A g \in Gate : Complete(j, g)

\* The multiplications of a layer begin after its random sharings.
SharedFirst ==
  \A k \in Node, g \in Gate, d \in Dealer :
    gate[k][g] # "masks" => sharing[k][d] = "done"

\* The operands in the state are those of the layer.
RightOperands ==
  \A k \in Node :
    prev[k] = IF layer[k] = 0 THEN {g % Inputs : g \in Gate} ELSE Gate

Ordered == RowsSent /\ OneAhead /\ SharedFirst

LEMMA TypedStages ==
  /\ {ShareStages[i] : i \in DOMAIN ShareStages} = ShareStage
  /\ {GateStages[i] : i \in DOMAIN GateStages} = GateStage
<1>1. DOMAIN ShareStages = 1..5 /\ DOMAIN GateStages = 1..6
  BY DEF ShareStages, GateStages
<1>2. {ShareStages[i] : i \in 1..5} = ShareStage
  BY DEF ShareStages, ShareStage
<1>3. {GateStages[i] : i \in 1..6} = GateStage
  BY DEF GateStages, GateStage
<1> QED
  BY <1>1, <1>2, <1>3

\* The stage that follows another.
LEMMA Successors ==
  /\ \A s \in ShareStage \ {"done"} : Following(s, ShareStages) \in ShareStage
  /\ Following("mul_mask_eval", GateStages) = "mul_d"
  /\ Following("mul_d", GateStages) = "rs_mu"
<1>1. \A s \in ShareStage \ {"done"} : Position(s, ShareStages) \in 1..4
  BY SharePlaces DEF ShareStage
<1>2. \A i \in 2..5 : ShareStages[i] \in ShareStage
  BY DEF ShareStages, ShareStage
<1>3. GateStages[4] = "mul_d" /\ GateStages[5] = "rs_mu"
  BY DEF GateStages
<1>4. \A s \in ShareStage \ {"done"} : Position(s, ShareStages) + 1 \in 2..5
  BY <1>1
<1>5. \A s \in ShareStage \ {"done"} : Following(s, ShareStages) \in ShareStage
  BY <1>2, <1>4 DEF Following
<1>6. /\ Following("mul_mask_eval", GateStages) = "mul_d"
      /\ Following("mul_d", GateStages) = "rs_mu"
  BY <1>3, GatePlaces DEF Following
<1> QED
  BY <1>5, <1>6

\* A row that is heard is a row everybody has sent.
LEMMA HeardRows ==
  ASSUME TypeOK, NEW k \in Node, NEW g \in Gate, Heard(k, "rs_mu", g), NEW j \in Node
  PROVE  \/ layer[j] > layer[k]
         \/ layer[j] = layer[k] /\ Complete(j, g)
<1> DEFINE m == [from |-> j, layer |-> layer[k], kind |-> "rs_mu", of |-> g]
<1>1. Sent(m)
  BY DEF Heard
<1>2. layer[j] > layer[k] \/ (layer[j] = layer[k] /\ SentInLayer(j, "rs_mu", g))
  BY <1>1 DEF Sent
<1>3. gate[j][g] \in GateStage
  BY TypedStages DEF TypeOK
<1>4. ASSUME SentInLayer(j, "rs_mu", g)
      PROVE  AtLeast(gate[j][g], "rs_mu", GateStages)
  BY <1>4 DEF SentInLayer
<1>5. ASSUME AtLeast(gate[j][g], "rs_mu", GateStages)
      PROVE  Complete(j, g)
  BY <1>3, <1>5, GatePlaces DEF AtLeast, Complete, GateStage
<1> QED
  BY <1>2, <1>4, <1>5

\* The messages of a clearing after layer L are of earlier layers.
LEMMA EarlierIsOlder ==
  ASSUME NEW L \in Nat, NEW m \in EarlierThan(ClearBefore(L))
  PROVE  m.layer < L
<1>1. m \in Message /\ m.layer + Ahead(m.kind) < L
  BY DEF EarlierThan, ClearBefore
<1>2. m.layer \in Nat /\ m.kind \in SharingKind \union GateKind
  BY <1>1 DEF Message, SharingKind, GateKind
<1>3. Ahead(m.kind) \in {1, 2, 3, 4}
  BY <1>2 DEF Ahead, SharingKind, GateKind
<1> QED
  BY <1>1, <1>2, <1>3

\* No clearing finds a message that is still to be received.
LEMMA NothingToLose ==
  ASSUME TypeOK, NEW k \in Node, layer[k] < Layers
  PROVE  /\ Lost(k, EarlierThan(ClearBefore(layer[k]))) = {}
         /\ \A g \in Gate : gate[k][g] = "rs_mu" => Lost(k, GateScratch(k, g)) = {}
         /\ (\A d \in Dealer : sharing[k][d] = "done") => Lost(k, SharingScratch(k)) = {}
<1>1. layer[k] \in Nat
  BY SizeAssumption DEF TypeOK
<1>2. ASSUME NEW m \in EarlierThan(ClearBefore(layer[k]))
      PROVE  Received(k, m)
  BY <1>1, <1>2, EarlierIsOlder DEF Received
<1>3. ASSUME NEW g \in Gate, gate[k][g] = "rs_mu", NEW m \in GateScratch(k, g)
      PROVE  Received(k, m)
  <2>1. m.layer = layer[k] /\ m.kind \in {"mul_mask_eval", "mul_d"} /\ m.of = g
    BY <1>3 DEF GateScratch, GateKind
  <2>2. ReceivedInLayer(k, m.kind, g)
    BY <1>3, <2>1, GatePlaces DEF ReceivedInLayer, SharingKind, AtLeast
  <2> QED
    BY <2>1, <2>2 DEF Received
<1>4. ASSUME \A d \in Dealer : sharing[k][d] = "done", NEW m \in SharingScratch(k)
      PROVE  Received(k, m)
  <2>1. m.layer = layer[k] /\ m.kind \in SharingKind /\ m.of \in Dealer
    BY <1>4 DEF SharingScratch
  <2>2. ReceivedInLayer(k, m.kind, m.of)
    BY <1>4, <2>1, SharePlaces DEF ReceivedInLayer, SharingKind, AtLeast
  <2> QED
    BY <2>1, <2>2 DEF Received
<1> QED
  BY <1>2, <1>3, <1>4 DEF Lost
-----------------------------------------------------------------------------
(* Types.                                                                  *)

LEMMA InitTyped == Init => TypeOK
<1> SUFFICES ASSUME Init PROVE TypeOK
  OBVIOUS
<1>1. \A g \in Gate : g % Inputs \in 0..(Gates + Inputs)
  BY SizeAssumption DEF Gate
<1>2. layer \in [Node -> 0..Layers]
  BY SizeAssumption DEF Init
<1>3. sharing \in [Node -> [Dealer -> ShareStage]] /\ gate \in [Node -> [Gate -> GateStage]]
  BY DEF Init, ShareStage, GateStage
<1>4. prev \in [Node -> SUBSET (0..(Gates + Inputs))]
  BY <1>1 DEF Init
<1>5. gone \in [Node -> SUBSET Message] /\ failed \subseteq MayFail
  BY DEF Init
<1> QED
  BY <1>2, <1>3, <1>4, <1>5, TypedStages DEF TypeOK

LEMMA StepTyped == TypeOK /\ [Next]_vars => TypeOK'
<1> SUFFICES ASSUME TypeOK, [Next]_vars PROVE TypeOK'
  OBVIOUS
<1> USE DEF TypeOK
<1>0. /\ sharing \in [Node -> [Dealer -> ShareStage]]
      /\ gate \in [Node -> [Gate -> GateStage]]
  BY TypedStages
<1> SUFFICES
      /\ layer' \in [Node -> 0..Layers]
      /\ sharing' \in [Node -> [Dealer -> ShareStage]]
      /\ gate' \in [Node -> [Gate -> GateStage]]
      /\ prev' \in [Node -> SUBSET (0..(Gates + Inputs))]
      /\ gone' \in [Node -> SUBSET Message]
      /\ failed' \subseteq MayFail
  BY TypedStages
<1>1. ASSUME NEW k \in Node, NEW d \in Dealer, ShareStep(k, d)
      PROVE  sharing' \in [Node -> [Dealer -> ShareStage]]
  <2>1. sharing[k][d] \in ShareStage \ {"done"}
    BY <1>0, <1>1 DEF ShareStep
  <2>2. Following(sharing[k][d], ShareStages) \in ShareStage
    BY <2>1, Successors
  <2> QED
    BY <1>0, <1>1, <2>2 DEF ShareStep
<1>2. ASSUME NEW k \in Node, MaskPrep(k)
      PROVE  gate' \in [Node -> [Gate -> GateStage]] /\ gone' = gone
  <2>1. Lost(k, SharingScratch(k)) = {}
    BY <1>2, NothingToLose DEF MaskPrep, Running
  <2>2. gone' = [gone EXCEPT ![k] = @ \union {}]
    BY <1>2, <2>1 DEF MaskPrep
  <2> QED
    BY <1>0, <1>2, <2>2 DEF MaskPrep, GateStage
<1>3. ASSUME NEW k \in Node, NEW g \in Gate, StartGate(k, g)
      PROVE  gate' \in [Node -> [Gate -> GateStage]]
  BY <1>0, <1>3 DEF StartGate, GateStage
<1>4. ASSUME NEW k \in Node, NEW g \in Gate, GateStep(k, g)
      PROVE  gate' \in [Node -> [Gate -> GateStage]]
  <2>1. Following(gate[k][g], GateStages) \in GateStage
    BY <1>4, Successors DEF GateStep, GateStage
  <2> QED
    BY <1>0, <1>4, <2>1 DEF GateStep
<1>5. ASSUME NEW k \in Node, NEW g \in Gate, FinishGate(k, g)
      PROVE  gate' \in [Node -> [Gate -> GateStage]] /\ gone' = gone
  <2>1. Lost(k, GateScratch(k, g)) = {}
    BY <1>5, NothingToLose DEF FinishGate, Running
  <2>2. gone' = [gone EXCEPT ![k] = @ \union {}]
    BY <1>5, <2>1 DEF FinishGate
  <2> QED
    BY <1>0, <1>5, <2>2 DEF FinishGate, GateStage
<1>6. ASSUME NEW k \in Node, FinishLayer(k)
      PROVE  /\ layer' \in [Node -> 0..Layers]
             /\ sharing' \in [Node -> [Dealer -> ShareStage]]
             /\ gate' \in [Node -> [Gate -> GateStage]]
             /\ prev' \in [Node -> SUBSET (0..(Gates + Inputs))]
             /\ gone' = gone
  <2>1. layer[k] + 1 \in 0..Layers
    BY <1>6, SizeAssumption DEF FinishLayer, Running
  <2>2. layer' \in [Node -> 0..Layers]
    BY <1>6, <2>1 DEF FinishLayer
  <2>3. /\ sharing' \in [Node -> [Dealer -> ShareStage]]
        /\ gate' \in [Node -> [Gate -> GateStage]]
    BY <1>0, <1>6 DEF FinishLayer, ShareStage, GateStage
  <2>4. \A P : {g \in Gate : P} \subseteq 0..(Gates + Inputs)
    BY SizeAssumption DEF Gate
  <2>5. prev' \in [Node -> SUBSET (0..(Gates + Inputs))]
    BY <1>6, <2>4 DEF FinishLayer
  <2>6. Lost(k, EarlierThan(ClearBefore(layer[k]))) = {}
    BY <1>6, NothingToLose DEF FinishLayer, Running
  <2>7. gone' = [gone EXCEPT ![k] = @ \union {}]
    BY <1>6, <2>6 DEF FinishLayer
  <2> QED
    BY <2>2, <2>3, <2>5, <2>7
<1>7. CASE UNCHANGED vars
  BY <1>0, <1>7 DEF vars
<1>8. ASSUME NEW k \in Node, Fail(k)
      PROVE  failed' \subseteq MayFail
  BY <1>8 DEF Fail
<1> QED
  BY <1>0, <1>1, <1>2, <1>3, <1>4, <1>5, <1>6, <1>7, <1>8
  DEF Next, Advance, ShareStep, MaskPrep, StartGate, GateStep, FinishGate, FinishLayer, Fail

\* In every state the variables have their types.
THEOREM TypeCorrect == Spec => []TypeOK
<1> QED
  BY InitTyped, StepTyped, PTL DEF Spec
-----------------------------------------------------------------------------
(* The order of the layers.                                                *)

\* Only FinishLayer changes a layer; a gate's step within a layer is forward.
LEMMA WithinLayer ==
  ASSUME TypeOK, Ordered, layer' = layer,
         NEW k \in Node, NEW h \in Gate,
         \A j \in Node, g \in Gate : (j # k \/ g # h) => gate'[j][g] = gate[j][g],
         gate'[k][h] = "done" => gate[k][h] = "done" \/ Heard(k, "rs_mu", h),
         Complete(k, h) => Complete(k, h)'
  PROVE  RowsSent' /\ OneAhead'
<1>1. \A j \in Node, g \in Gate : Complete(j, g) => Complete(j, g)'
  BY DEF Complete
<1>2. ASSUME NEW i \in Node, NEW j \in Node, NEW g \in Gate, gate'[i][g] = "done"
      PROVE  layer[j] > layer[i] \/ (layer[j] = layer[i] /\ Complete(j, g))
  <2>1. CASE gate[i][g] = "done"
    BY <2>1 DEF Ordered, RowsSent
  <2>2. CASE i = k /\ g = h /\ Heard(k, "rs_mu", h)
    BY <2>2, HeardRows
  <2> QED
    BY <1>2, <2>1, <2>2
<1>3. RowsSent'
  BY <1>1, <1>2 DEF RowsSent
<1>4. OneAhead'
  BY <1>1 DEF Ordered, OneAhead
<1> QED
  BY <1>3, <1>4

\* A node that finishes a layer leaves behind only nodes that have nothing
\* left to send in it.
LEMMA FinishKeepsOrder ==
  ASSUME TypeOK, Ordered, NEW k \in Node, FinishLayer(k)
  PROVE  /\ \A j \in Node : layer[j] >= layer[k]
         /\ Ordered'
<1>1. layer \in [Node -> Nat] /\ 0 \in Gate
  BY SizeAssumption DEF TypeOK, Gate
<1>2. ASSUME NEW j \in Node
      PROVE  /\ layer[j] >= layer[k]
             /\ layer[j] = layer[k] => \A g \in Gate : Complete(j, g)
  <2>1. \A g \in Gate :
          layer[j] > layer[k] \/ (layer[j] = layer[k] /\ Complete(j, g))
    BY DEF FinishLayer, Ordered, RowsSent
  <2> QED
    BY <1>1, <2>1
<1>3. /\ layer' = [layer EXCEPT ![k] = layer[k] + 1]
      /\ layer'[k] = layer[k] + 1 /\ \A j \in Node : j # k => layer'[j] = layer[j]
      /\ \A j \in Node, g \in Gate : j # k => gate'[j][g] = gate[j][g]
      /\ \A g \in Gate : gate'[k][g] = "masks"
      /\ \A j \in Node, d \in Dealer : j # k => sharing'[j][d] = sharing[j][d]
  BY DEF FinishLayer, TypeOK
<1>4. \A j \in Node, g \in Gate : j # k /\ Complete(j, g) => Complete(j, g)'
  BY <1>3 DEF Complete
<1>5. RowsSent'
  <2> SUFFICES ASSUME NEW i \in Node, NEW j \in Node, NEW g \in Gate, gate'[i][g] = "done"
               PROVE  layer'[j] > layer'[i] \/ (layer'[j] = layer'[i] /\ Complete(j, g)')
    BY DEF RowsSent
  <2>1. i # k /\ gate[i][g] = "done"
    BY <1>3
  <2>2. layer[j] > layer[i] \/ (layer[j] = layer[i] /\ Complete(j, g))
    BY <2>1 DEF Ordered, RowsSent
  <2>3. CASE j = k
    BY <1>1, <1>3, <2>1, <2>2, <2>3
  <2>4. CASE j # k
    BY <1>3, <1>4, <2>1, <2>2, <2>4
  <2> QED
    BY <2>3, <2>4
<1>6. OneAhead'
  <2> SUFFICES ASSUME NEW i \in Node, NEW j \in Node, layer'[i] > layer'[j]
               PROVE  layer'[i] = layer'[j] + 1 /\ \A g \in Gate : Complete(j, g)'
    BY DEF OneAhead
  <2>1. i # j
    BY <1>1, <1>3
  <2>2. CASE i = k
    <3>1. layer[j] = layer[k] /\ j # k
      BY <1>1, <1>2, <1>3, <2>1, <2>2
    <3> QED
      BY <1>1, <1>2, <1>3, <1>4, <2>2, <3>1
  <2>3. CASE j = k
    <3>1. layer[i] = layer[k] + 1
      BY <1>1, <1>3, <2>1, <2>3 DEF Ordered, OneAhead
    <3> QED
      BY <1>1, <1>3, <2>1, <2>3, <3>1
  <2>4. CASE i # k /\ j # k
    BY <1>3, <1>4, <2>4 DEF Ordered, OneAhead
  <2> QED
    BY <2>2, <2>3, <2>4
<1>7. SharedFirst'
  BY <1>3 DEF Ordered, SharedFirst
<1> QED
  BY <1>2, <1>5, <1>6, <1>7 DEF Ordered

LEMMA StepKeepsOrder == TypeOK /\ Ordered /\ [Next]_vars => Ordered'
<1> SUFFICES ASSUME TypeOK, Ordered, [Next]_vars PROVE Ordered'
  OBVIOUS
<1>0. gate \in [Node -> [Gate -> GateStage]]
  BY TypedStages DEF TypeOK
<1>1. ASSUME NEW k \in Node, NEW d \in Dealer, ShareStep(k, d)
      PROVE  Ordered'
  <2>1. RowsSent' /\ OneAhead'
    BY <1>1 DEF ShareStep, Ordered, RowsSent, OneAhead, Complete
  <2>2. \A j \in Node, c \in Dealer : sharing[j][c] = "done" => sharing'[j][c] = "done"
    BY <1>1 DEF ShareStep, TypeOK
  <2>3. SharedFirst'
    BY <1>1, <2>2 DEF ShareStep, Ordered, SharedFirst
  <2> QED
    BY <2>1, <2>3 DEF Ordered
<1>2. ASSUME NEW k \in Node, MaskPrep(k)
      PROVE  Ordered'
  <2>1. \A j \in Node, g \in Gate :
          gate'[j][g] = IF j = k THEN "queued" ELSE gate[j][g]
    BY <1>0, <1>2 DEF MaskPrep
  <2>2. \A j \in Node, g \in Gate : Complete(j, g) => Complete(j, g)'
    BY <1>2, <2>1 DEF Complete, MaskPrep
  <2>3. RowsSent' /\ OneAhead'
    BY <1>2, <2>1, <2>2 DEF MaskPrep, Ordered, RowsSent, OneAhead
  <2>4. SharedFirst'
    BY <1>2, <2>1 DEF MaskPrep, Ordered, SharedFirst
  <2> QED
    BY <2>3, <2>4 DEF Ordered
<1>3. ASSUME NEW k \in Node, NEW g \in Gate,
             StartGate(k, g) \/ GateStep(k, g) \/ FinishGate(k, g)
      PROVE  Ordered'
  <2>1. /\ layer' = layer /\ sharing' = sharing
        /\ \A j \in Node, h \in Gate : (j # k \/ h # g) => gate'[j][h] = gate[j][h]
        /\ gate[k][g] # "masks"
    BY <1>0, <1>3 DEF StartGate, GateStep, FinishGate
  <2>2. /\ gate'[k][g] = "done" => gate[k][g] = "done" \/ Heard(k, "rs_mu", g)
        /\ Complete(k, g) => Complete(k, g)'
    BY <1>0, <1>3, Successors DEF StartGate, GateStep, FinishGate, Complete
  <2>3. RowsSent' /\ OneAhead'
    BY <2>1, <2>2, WithinLayer
  <2>4. SharedFirst'
    BY <2>1 DEF Ordered, SharedFirst
  <2> QED
    BY <2>3, <2>4 DEF Ordered
<1>4. ASSUME NEW k \in Node, FinishLayer(k)
      PROVE  Ordered'
  BY <1>4, FinishKeepsOrder
<1>5. CASE UNCHANGED <<layer, sharing, gate>>
  BY <1>5 DEF Ordered, RowsSent, OneAhead, SharedFirst, Complete
<1> QED
  BY <1>1, <1>2, <1>3, <1>4, <1>5 DEF Next, Advance, Fail, vars

LEMMA InitOrdered == Init => Ordered
  BY DEF Init, Ordered, RowsSent, OneAhead, SharedFirst

LEMMA AlwaysOrdered == Spec => [](TypeOK /\ Ordered)
<1> QED
  BY InitTyped, InitOrdered, StepTyped, StepKeepsOrder, PTL DEF Spec

\* The layers of the circuit implement the barrier, for every number of nodes,
\* layers, gates and gates in progress, and whatever nodes fail.
THEOREM Implementation == Spec => ImplementsBarrier
<1>1. Init => Barrier!BarrierInit
  BY DEF Init, Barrier!BarrierInit
<1>2. TypeOK /\ Ordered /\ [Next]_vars => [\E k \in Node : Barrier!Finish(k)]_layer
  <2> SUFFICES ASSUME TypeOK, Ordered, [Next]_vars, layer' # layer
               PROVE  \E k \in Node : Barrier!Finish(k)
    OBVIOUS
  <2>1. PICK k \in Node : FinishLayer(k)
    BY DEF Next, Advance, Fail, ShareStep, MaskPrep, StartGate, GateStep, FinishGate, vars
  <2>2. \A j \in Node : layer[j] >= layer[k]
    BY <2>1, FinishKeepsOrder
  <2> QED
    BY <2>1, <2>2 DEF Barrier!Finish, FinishLayer, Running
<1> QED
  BY <1>1, <1>2, AlwaysOrdered, PTL DEF Spec, ImplementsBarrier, Barrier!BarrierSpec

-----------------------------------------------------------------------------
(* What is dropped, and what is found.                                     *)

\* No clearing drops a message the node still has to receive.
THEOREM ClearingIsSafe == Spec => []NothingUnreceivedIsCleared
<1>1. Init => NothingUnreceivedIsCleared
  BY DEF Init, NothingUnreceivedIsCleared
<1>2. TypeOK /\ NothingUnreceivedIsCleared /\ [Next]_vars => NothingUnreceivedIsCleared'
  <2> SUFFICES ASSUME TypeOK, NothingUnreceivedIsCleared, [Next]_vars
               PROVE  NothingUnreceivedIsCleared'
    OBVIOUS
  <2> USE DEF NothingUnreceivedIsCleared
  <2>1. ASSUME NEW k \in Node, NEW D, D = {}, gone' = [gone EXCEPT ![k] = @ \union D]
        PROVE  NothingUnreceivedIsCleared'
    BY <2>1 DEF TypeOK
  <2>2. ASSUME NEW k \in Node, NEW g \in Gate, FinishGate(k, g)
        PROVE  NothingUnreceivedIsCleared'
    <3>1. Lost(k, GateScratch(k, g)) = {}
      BY <2>2, NothingToLose DEF FinishGate, Running
    <3>2. PICK D \in SUBSET Lost(k, GateScratch(k, g)) : gone' = [gone EXCEPT ![k] = @ \union D]
      BY <2>2 DEF FinishGate
    <3> QED
      BY <2>1, <3>1, <3>2
  <2>3. ASSUME NEW k \in Node, FinishLayer(k)
        PROVE  NothingUnreceivedIsCleared'
    <3>1. Lost(k, EarlierThan(ClearBefore(layer[k]))) = {}
      BY <2>3, NothingToLose DEF FinishLayer, Running
    <3>2. PICK D \in SUBSET Lost(k, EarlierThan(ClearBefore(layer[k]))) :
            gone' = [gone EXCEPT ![k] = @ \union D]
      BY <2>3 DEF FinishLayer
    <3> QED
      BY <2>1, <3>1, <3>2
  <2>4. ASSUME NEW k \in Node, MaskPrep(k)
        PROVE  NothingUnreceivedIsCleared'
    <3>1. Lost(k, SharingScratch(k)) = {}
      BY <2>4, NothingToLose DEF MaskPrep, Running
    <3>2. PICK D \in SUBSET Lost(k, SharingScratch(k)) : gone' = [gone EXCEPT ![k] = @ \union D]
      BY <2>4 DEF MaskPrep
    <3> QED
      BY <2>1, <3>1, <3>2
  <2>5. CASE UNCHANGED gone
    BY <2>5
  <2> QED
    BY <2>2, <2>3, <2>4, <2>5
    DEF Next, Advance, Fail, ShareStep, StartGate, GateStep, vars
<1> QED
  BY <1>1, <1>2, TypeCorrect, PTL DEF Spec

\* A gate that has not read its operands finds them in the state.
THEOREM OperandsFound == Spec => []OperandsPresent
<1>1. Init => RightOperands
  BY DEF Init, RightOperands
<1>2. TypeOK /\ RightOperands /\ [Next]_vars => RightOperands'
  <2> SUFFICES ASSUME TypeOK, RightOperands, [Next]_vars PROVE RightOperands'
    OBVIOUS
  <2>1. ASSUME NEW k \in Node, FinishLayer(k)
        PROVE  RightOperands'
    <3>1. layer[k] \in Nat
      BY SizeAssumption DEF TypeOK
    <3>2. {g \in Gate : layer[k] + 4 >= ClearBefore(layer[k])} = Gate
      BY <3>1 DEF ClearBefore
    <3>3. prev'[k] = Gate /\ layer'[k] # 0
      BY <2>1, <3>1, <3>2 DEF FinishLayer, TypeOK
    <3>4. \A j \in Node : j # k => prev'[j] = prev[j] /\ layer'[j] = layer[j]
      BY <2>1 DEF FinishLayer, TypeOK
    <3> QED
      BY <3>3, <3>4 DEF RightOperands
  <2>2. CASE UNCHANGED <<layer, prev>>
    BY <2>2 DEF RightOperands
  <2> QED
    BY <2>1, <2>2
    DEF Next, Advance, Fail, ShareStep, MaskPrep, StartGate, GateStep, FinishGate, vars
<1>3. RightOperands => OperandsPresent
  <2>1. \A g \in Gate : (g + 1) % Gates \in Gate
    BY SizeAssumption DEF Gate
  <2> SUFFICES ASSUME RightOperands, NEW k \in Node, NEW g \in Gate
               PROVE  Operands(layer[k], g) \subseteq prev[k]
    BY DEF OperandsPresent
  <2>2. CASE layer[k] = 0
    <3>1. prev[k] = {h % Inputs : h \in Gate}
      BY <2>2 DEF RightOperands
    <3>2. Operands(layer[k], g) = {g % Inputs, ((g + 1) % Gates) % Inputs}
      BY <2>2 DEF Operands
    <3> HIDE DEF Gate
    <3> QED
      BY <2>1, <3>1, <3>2
  <2>3. CASE layer[k] # 0
    <3>1. prev[k] = Gate
      BY <2>3 DEF RightOperands
    <3>2. Operands(layer[k], g) = {g, (g + 1) % Gates}
      BY <2>3 DEF Operands
    <3> QED
      BY <2>1, <3>1, <3>2
  <2> QED
    BY <2>2, <2>3
<1> QED
  BY <1>1, <1>2, <1>3, TypeCorrect, PTL DEF Spec

\* A node that has stopped has been sent everything.
THEOREM StoppedLast == Spec => []NobodySendsToStopped
<1>1. TypeOK /\ Ordered => NobodySendsToStopped
  <2> SUFFICES ASSUME TypeOK, Ordered, NEW k \in Node, layer[k] = Layers,
                      NEW m \in Message, m.kind = "slice" => m.from = m.of
               PROVE  Sent(m)
    BY DEF NobodySendsToStopped
  <2> DEFINE j == m.from
  <2>1. /\ j \in Node /\ m.layer \in 0..(Layers - 1)
        /\ \/ m.kind \in SharingKind /\ m.of \in Dealer
           \/ m.kind \in GateKind /\ m.of \in Gate
    BY SizeAssumption DEF Message, SharingKind
  <2>2. layer[j] \in 0..Layers /\ 0 \in Gate /\ Layers \in Nat \ {0}
    BY <2>1, SizeAssumption DEF TypeOK, Gate
  <2>3. CASE layer[j] = Layers
    BY <2>1, <2>2, <2>3 DEF Sent
  <2>4. CASE layer[j] # Layers
    <3>1. layer[j] = Layers - 1 /\ \A g \in Gate : Complete(j, g)
      BY <2>1, <2>2, <2>4 DEF Ordered, OneAhead
    <3>2. \A d \in Dealer : sharing[j][d] = "done"
      BY <2>1, <2>2, <3>1 DEF Ordered, SharedFirst, Complete
    <3>3. SentInLayer(j, m.kind, m.of)
      <4>1. CASE m.kind = "slice"
        BY <4>1 DEF SentInLayer
      <4>2. CASE m.kind \in SharingKind \ {"slice"} /\ m.of \in Dealer
        <5>1. sharing[j][m.of] = "done"
          BY <3>2, <4>2
        <5>2. \A x \in SharingKind : AtLeast("done", x, ShareStages)
          BY SharePlaces DEF AtLeast, SharingKind
        <5> QED
          BY <4>2, <5>1, <5>2 DEF SentInLayer, SharingKind
      <4>3. CASE m.kind \in GateKind /\ m.of \in Gate
        <5>1. gate[j][m.of] \in {"rs_mu", "done"}
          BY <3>1, <4>3 DEF Complete
        <5>2. \A s \in {"rs_mu", "done"}, x \in GateKind \union {"queued"} :
                AtLeast(s, x, GateStages)
          BY GatePlaces DEF AtLeast, GateKind
        <5> QED
          BY <4>3, <5>1, <5>2 DEF SentInLayer, GateKind
      <4> QED
        BY <2>1, <4>1, <4>2, <4>3
    <3> QED
      BY <2>1, <2>2, <3>1, <3>3 DEF Sent
  <2> QED
    BY <2>3, <2>4
<1> QED
  BY <1>1, AlwaysOrdered, PTL

-----------------------------------------------------------------------------
(* CircuitRun.  What its definitions by recursion over the gates unfold to. *)

LessThan == {ss \in Nat \X Nat : ss[1] < ss[2]}

\* Every non-empty set of natural numbers has a least member.
LEMMA LeastNatural ==
  ASSUME NEW T \in SUBSET Nat, T # {}
  PROVE  \E x \in T : \A y \in T : x <= y
<1>1. IsWellFoundedOn(LessThan, Nat)
  BY NatLessThanWellFounded DEF OpToRel, LessThan
<1>2. PICK x \in T : \A y \in T : ~ (<<y, x>> \in LessThan)
  BY <1>1, WFMin, Zenon
<1>3. ASSUME NEW y \in T
      PROVE  x <= y
  <2>1. x \in Nat /\ y \in Nat /\ <<y, x>> \notin LessThan
    BY <1>2
  <2>c. ~ (y < x)
    BY <2>1 DEF LessThan
  <2> QED
    BY <2>1, <2>c
<1> QED
  BY <1>3

\* The plain evaluation, gate by gate.
LEMMA PlainUnfolds ==
  ASSUME NEW c, Len(c.gates) \in Nat
  PROVE  /\ Plain(c)[0] = [w \in InputsOf(c) |-> <<"input", w>>]
         /\ \A i \in 1..Len(c.gates) : Plain(c)[i] = PlainGate(c.gates[i], Plain(c)[i - 1])
<1> DEFINE First == [w \in InputsOf(c) |-> <<"input", w>>]
           Fits(f, k) == f = [i \in 0..k |-> IF i = 0 THEN First
                                             ELSE PlainGate(c.gates[i], f[i - 1])]
           Unfit == {k \in 0..Len(c.gates) : ~ \E f : Fits(f, k)}
<1>1. Unfit = {}
  <2> SUFFICES ASSUME Unfit # {}
               PROVE  FALSE
    OBVIOUS
  <2>1. Unfit \in SUBSET Nat
    OBVIOUS
  <2> HIDE DEF Unfit
  <2>2. PICK k \in Unfit : \A j \in Unfit : k <= j
    BY <2>1, LeastNatural
  <2> USE DEF Unfit
  <2> HIDE DEF First
  <2>3. CASE k = 0
    <3>1. Fits([i \in 0..0 |-> First], 0)
      OBVIOUS
    <3> QED
      BY <2>3, <3>1
  <2>4. CASE k # 0
    <3>1. k \in 1..Len(c.gates) /\ k - 1 \in 0..Len(c.gates) /\ k - 1 \notin Unfit
      BY <2>2, <2>4
    <3>2. PICK f : Fits(f, k - 1)
      BY <3>1
    <3> DEFINE g == [i \in 0..k |-> IF i = k THEN PlainGate(c.gates[k], f[k - 1]) ELSE f[i]]
    <3>3. \A i \in 0..(k - 1) : g[i] = f[i]
      BY <3>1
    <3>4. \A i \in 0..(k - 1) : f[i] = IF i = 0 THEN First ELSE PlainGate(c.gates[i], f[i - 1])
      BY <3>2
    <3>5. \A i \in 0..k : g[i] = IF i = 0 THEN First ELSE PlainGate(c.gates[i], g[i - 1])
      <4>1. TAKE i \in 0..k
      <4>2. CASE i = k
        <5>1. g[k] = PlainGate(c.gates[k], f[k - 1]) /\ g[k - 1] = f[k - 1]
          BY <3>1, <3>3
        <5> QED
          BY <4>2, <5>1, <3>1
      <4>3. CASE i # k
        <5>1. i \in 0..(k - 1)
          BY <3>1, <4>3
        <5>2. i # 0 => i - 1 \in 0..(k - 1)
          BY <3>1, <5>1
        <5> HIDE DEF g
        <5> QED
          BY <3>3, <3>4, <5>1, <5>2
      <4> QED
        BY <4>2, <4>3
    <3>6. g = [i \in 0..k |-> g[i]]
      OBVIOUS
    <3>7. Fits(g, k)
      <4> HIDE DEF g
      <4> QED
        BY <3>5, <3>6
    <3> QED
      BY <2>2, <3>7
  <2> QED
    BY <2>3, <2>4
<1>2. PICK f : Fits(f, Len(c.gates))
  BY <1>1
<1>3. Fits(Plain(c), Len(c.gates))
  BY <1>2 DEF Plain
<1> HIDE DEF First
<1>4. \A i \in 0..Len(c.gates) :
        Plain(c)[i] = IF i = 0 THEN First ELSE PlainGate(c.gates[i], Plain(c)[i - 1])
  BY <1>3
<1>5. Plain(c)[0] = First
  BY <1>4
<1>6. \A i \in 1..Len(c.gates) : Plain(c)[i] = PlainGate(c.gates[i], Plain(c)[i - 1])
  BY <1>4
<1> QED
  BY <1>5, <1>6 DEF First

\* The account, gate by gate.
LEMMA AccountUnfolds ==
  ASSUME NEW c, Len(c.gates) \in Nat
  PROVE  /\ Account(c)[0] = Opening(c)
         /\ \A i \in 1..Len(c.gates) : Account(c)[i] = AccountGate(c, c.gates[i], Account(c)[i - 1])
<1> DEFINE First == Opening(c)
           Fits(f, k) == f = [i \in 0..k |-> IF i = 0 THEN First
                                             ELSE AccountGate(c, c.gates[i], f[i - 1])]
           Unfit == {k \in 0..Len(c.gates) : ~ \E f : Fits(f, k)}
<1>1. Unfit = {}
  <2> SUFFICES ASSUME Unfit # {}
               PROVE  FALSE
    OBVIOUS
  <2>1. Unfit \in SUBSET Nat
    OBVIOUS
  <2> HIDE DEF Unfit
  <2>2. PICK k \in Unfit : \A j \in Unfit : k <= j
    BY <2>1, LeastNatural
  <2> USE DEF Unfit
  <2> HIDE DEF First
  <2>3. CASE k = 0
    <3>1. Fits([i \in 0..0 |-> First], 0)
      OBVIOUS
    <3> QED
      BY <2>3, <3>1
  <2>4. CASE k # 0
    <3>1. k \in 1..Len(c.gates) /\ k - 1 \in 0..Len(c.gates) /\ k - 1 \notin Unfit
      BY <2>2, <2>4
    <3>2. PICK f : Fits(f, k - 1)
      BY <3>1
    <3> DEFINE g == [i \in 0..k |-> IF i = k THEN AccountGate(c, c.gates[k], f[k - 1]) ELSE f[i]]
    <3>3. \A i \in 0..(k - 1) : g[i] = f[i]
      BY <3>1
    <3>4. \A i \in 0..(k - 1) : f[i] = IF i = 0 THEN First ELSE AccountGate(c, c.gates[i], f[i - 1])
      BY <3>2
    <3>5. \A i \in 0..k : g[i] = IF i = 0 THEN First ELSE AccountGate(c, c.gates[i], g[i - 1])
      <4>1. TAKE i \in 0..k
      <4>2. CASE i = k
        <5>1. g[k] = AccountGate(c, c.gates[k], f[k - 1]) /\ g[k - 1] = f[k - 1]
          BY <3>1, <3>3
        <5> QED
          BY <4>2, <5>1, <3>1
      <4>3. CASE i # k
        <5>1. i \in 0..(k - 1)
          BY <3>1, <4>3
        <5>2. i # 0 => i - 1 \in 0..(k - 1)
          BY <3>1, <5>1
        <5> HIDE DEF g
        <5> QED
          BY <3>3, <3>4, <5>1, <5>2
      <4> QED
        BY <4>2, <4>3
    <3>6. g = [i \in 0..k |-> g[i]]
      OBVIOUS
    <3>7. Fits(g, k)
      <4> HIDE DEF g
      <4> QED
        BY <3>5, <3>6
    <3> QED
      BY <2>2, <3>7
  <2> QED
    BY <2>3, <2>4
<1>2. PICK f : Fits(f, Len(c.gates))
  BY <1>1
<1>3. Fits(Account(c), Len(c.gates))
  BY <1>2 DEF Account
<1> HIDE DEF First
<1>4. \A i \in 0..Len(c.gates) :
        Account(c)[i] = IF i = 0 THEN First ELSE AccountGate(c, c.gates[i], Account(c)[i - 1])
  BY <1>3
<1>5. Account(c)[0] = First
  BY <1>4
<1>6. \A i \in 1..Len(c.gates) : Account(c)[i] = AccountGate(c, c.gates[i], Account(c)[i - 1])
  BY <1>4
<1> QED
  BY <1>5, <1>6 DEF First

-----------------------------------------------------------------------------
(* Where an evaluation is.                                                 *)

Evaluating == pc \in {"gates", "masked", "done"}
Bound == VssOutputLayer + pos - 1

\* What is in progress.
Underway ==
  /\ circuit \in Circuits
  /\ pc \in {"start", "rejected", "gates", "masked", "done"}
  /\ pos \in 1..(Len(circuit.gates) + 1)
  /\ pc \in {"start", "rejected"} => pos = 1 /\ drawn = {} /\ buffers = <<>>
  /\ Evaluating => Valid(circuit)
  /\ pc = "masked" => pos <= Len(circuit.gates) /\ current.op = "mul" /\ Low = {}
  /\ pc = "done" => pos = Len(circuit.gates) + 1

\* The layers of the wires.
Layered ==
  Evaluating =>
    /\ DOMAIN wires = InputsOf(circuit) \union Defined(circuit, pos)
    /\ \A w \in DOMAIN wires : wires[w] \in VssOutputLayer..Bound

\* The circuits have the types of the code.
LEMMA CircuitTypes ==
  ASSUME Underway
  PROVE  /\ Len(circuit.gates) \in Nat
         /\ DOMAIN circuit.gates = 1..Len(circuit.gates)
         /\ \A i \in 1..Len(circuit.gates) :
              circuit.gates[i] \in [gid : STRING, op : STRING, in1 : STRING, in2 : STRING]
         /\ circuit.mode \in {"rg", "local"}
         /\ pos \in Nat \ {0}
<1> DEFINE G == [gid : STRING, op : STRING, in1 : STRING, in2 : STRING]
<1>1. circuit.gates \in Seq(G) /\ circuit.mode \in {"rg", "local"}
  BY CircuitAssumption DEF Underway
<1> HIDE DEF G
<1>2. /\ Len(circuit.gates) \in Nat
      /\ DOMAIN circuit.gates = 1..Len(circuit.gates)
      /\ \A i \in 1..Len(circuit.gates) : circuit.gates[i] \in G
  BY <1>1
<1>3. pos \in Nat \ {0}
  BY <1>2 DEF Underway
<1> QED
  BY <1>1, <1>2, <1>3 DEF G

\* The threshold leaves a round of RG more sharings than one call draws.
LEMMA ThresholdFacts ==
  /\ n \in Nat /\ t \in Nat /\ q \in Nat \ {0}
  /\ t <= q /\ 3 * t + 1 <= q /\ 3 * t + 1 \in Nat
BY ThresholdAssumption DEF q

\* What validation says of the gate in progress.
LEMMA GateFacts ==
  ASSUME Underway, Layered, pc \in {"gates", "masked"}, pos <= Len(circuit.gates)
  PROVE  /\ pos \in 1..Len(circuit.gates)
         /\ Defined(circuit, pos + 1) = Defined(circuit, pos) \union {current.gid}
         /\ Defined(circuit, pos) \subseteq DOMAIN wires
         /\ current.gid \in STRING /\ current.gid \notin Defined(circuit, pos)
         /\ current.op \in {"input", "add", "mul", "cmul"}
         /\ current.op = "input" => current.gid \in InputsOf(circuit)
         /\ current.op \in {"add", "mul"} => current.in1 \in Defined(circuit, pos)
                                              /\ current.in2 \in Defined(circuit, pos)
         /\ current.op = "cmul" => current.in1 \in Defined(circuit, pos)
<1>1. pos \in 1..Len(circuit.gates) /\ pos \in DOMAIN circuit.gates
  BY CircuitTypes
<1>2. ValidGate(circuit, pos)
  BY <1>1 DEF Underway, Evaluating, Valid
<1>3. Defined(circuit, pos + 1) = Defined(circuit, pos) \union {current.gid}
  <2>1. PICK k : k = pos + 1
    OBVIOUS
  <2>2. \A j : j \in 1..(k - 1) <=> j \in 1..(pos - 1) \/ j = pos
    BY <1>1, <2>1
  <2>3. Defined(circuit, k) = {circuit.gates[j].gid : j \in 1..(k - 1)}
    BY Zenon DEF Defined
  <2>4. Defined(circuit, pos) = {circuit.gates[j].gid : j \in 1..(pos - 1)}
    BY Zenon DEF Defined
  <2>5. Defined(circuit, k) \subseteq Defined(circuit, pos) \union {current.gid}
    BY <2>2, <2>3, <2>4 DEF current
  <2>6. Defined(circuit, pos) \union {current.gid} \subseteq Defined(circuit, k)
    BY <2>2, <2>3, <2>4 DEF current
  <2> QED
    BY <2>1, <2>5, <2>6
<1>4. Defined(circuit, pos) \subseteq DOMAIN wires
  BY DEF Layered, Evaluating
<1>5. current.gid \in STRING
  BY <1>1, CircuitTypes DEF current
<1> QED
  BY <1>1, <1>2, <1>3, <1>4, <1>5 DEF ValidGate, current

\* What is known of the operands of a gate with two.
LEMMA TargetFacts ==
  ASSUME Underway, Layered, Binary
  PROVE  /\ current.in1 \in DOMAIN wires /\ current.in2 \in DOMAIN wires
         /\ Target \in VssOutputLayer..Bound
         /\ wires[current.in1] \in VssOutputLayer..Target
         /\ wires[current.in2] \in VssOutputLayer..Target
         /\ wires[current.in1] = Target \/ wires[current.in2] = Target
         /\ \A w \in Low : w \in {current.in1, current.in2} /\ wires[w] \in VssOutputLayer..(Target - 1)
         /\ Low = {} => wires[current.in1] = Target /\ wires[current.in2] = Target
<1>1. current.in1 \in DOMAIN wires /\ current.in2 \in DOMAIN wires
  BY GateFacts DEF Binary
<1>2. wires[current.in1] \in VssOutputLayer..Bound /\ wires[current.in2] \in VssOutputLayer..Bound
  BY <1>1 DEF Layered, Evaluating, Binary
<1>3. pos \in Nat /\ VssOutputLayer \in Nat /\ Bound \in Nat
  BY CircuitTypes DEF VssOutputLayer, Bound
<1>4. /\ Target \in VssOutputLayer..Bound
      /\ wires[current.in1] \in VssOutputLayer..Target
      /\ wires[current.in2] \in VssOutputLayer..Target
      /\ wires[current.in1] = Target \/ wires[current.in2] = Target
  BY <1>2, <1>3 DEF Target, Larger
<1>5. \A w \in Low : w \in {current.in1, current.in2} /\ wires[w] \in VssOutputLayer..(Target - 1)
  BY <1>2, <1>3, <1>4 DEF Low
<1>6. Low = {} => wires[current.in1] = Target /\ wires[current.in2] = Target
  BY <1>3, <1>4 DEF Low
<1> QED
  BY <1>1, <1>4, <1>5, <1>6

\* A step of an alignment moves one wire and leaves the target.
LEMMA AlignFacts ==
  ASSUME Underway, Layered, Binary, NEW w \in Low, Align(w)
  PROVE  /\ circuit' = circuit /\ pc' = pc /\ pos' = pos /\ current' = current
         /\ w \in DOMAIN wires
         /\ wires' = [wires EXCEPT ![w] = @ + 1]
         /\ Target' = Target
<1>1. circuit' = circuit /\ pc' = pc /\ pos' = pos /\ current' = current
  BY DEF Align, current
<1>2. w \in DOMAIN wires
  BY TargetFacts
<1>3. wires' = [wires EXCEPT ![w] = @ + 1]
  <2>1. DOMAIN wires \union {w} = DOMAIN wires
    BY <1>2
  <2>2. wires' = Put(wires, w, wires[w] + 1)
    BY DEF Align, Place
  <2> QED
    BY <2>1, <2>2 DEF Put
<1>4. Target' = Target
  <2>1. Target' = Larger(wires'[current.in1], wires'[current.in2])
    BY <1>1 DEF Target
  <2>2. Target \in Nat
    BY TargetFacts DEF VssOutputLayer
  <2>3. wires'[w] = wires[w] + 1 /\ wires[w] \in Nat /\ wires[w] < Target
    BY <1>2, <1>3, TargetFacts DEF VssOutputLayer
  <2>4. \A v \in DOMAIN wires : v # w => wires'[v] = wires[v]
    BY <1>3
  <2>5. CASE w = current.in1
    BY <2>1, <2>2, <2>3, <2>4, <2>5, TargetFacts DEF Larger
  <2>6. CASE w = current.in2
    BY <2>1, <2>2, <2>3, <2>4, <2>6, TargetFacts DEF Larger
  <2> QED
    BY <2>5, <2>6, TargetFacts
<1> QED
  BY <1>1, <1>2, <1>3, <1>4

-----------------------------------------------------------------------------
(* The steps of an evaluation.                                             *)

\* Sharings of layer L are needed for the gate in progress, so many of them.
Drawing(L) ==
  \/ \E w \in Low : L = wires[w]
  \/ Low = {} /\ current.op = "mul" /\ L = Target
Need == IF Low # {} \/ pc = "masked" THEN t ELSE 3 * t + 1

Aligning == Binary /\ \E w \in Low : Align(w)
Refilling == Binary /\ \E L \in Nat : Drawing(L) /\ Refill(L, Need)
Masking == Binary /\ Low = {} /\ current.op = "mul" /\ pc = "gates" /\ DrawMasks
Multiplying == Binary /\ Low = {} /\ current.op = "mul" /\ pc = "masked" /\ RunMul

\* The steps of an evaluation, one by one.
LEMMA StepCases ==
  ASSUME Underway, Layered, [CircuitNext]_circuitVars
  PROVE  \/ Reject \/ ShareInputs \/ InputGate \/ CmulGate \/ AddGate \/ Finish
         \/ Aligning \/ Refilling \/ Masking \/ Multiplying \/ UNCHANGED circuitVars
<1>1. CASE AlignGate
  <2>1. Binary
    BY <1>1 DEF AlignGate
  <2>2. PICK w \in Low : Align(w) \/ Refill(wires[w], t)
    BY <1>1 DEF AlignGate
  <2>3. wires[w] \in Nat /\ Drawing(wires[w]) /\ Need = t
    BY <2>1, TargetFacts DEF Drawing, Need, VssOutputLayer
  <2> QED
    BY <2>1, <2>2, <2>3 DEF Aligning, Refilling
<1>2. CASE MulGate
  <2>1. Binary /\ Low = {} /\ current.op = "mul"
    BY <1>2 DEF MulGate
  <2>2. CASE pc = "gates" /\ (DrawMasks \/ Refill(Target, 3 * t + 1))
    <3>1. Target \in Nat /\ Drawing(Target) /\ Need = 3 * t + 1
      BY <2>1, <2>2, TargetFacts DEF Drawing, Need, VssOutputLayer
    <3> QED
      BY <2>1, <2>2, <3>1 DEF Masking, Refilling
  <2>3. CASE pc = "masked" /\ (RunMul \/ Refill(Target, t))
    <3>1. Target \in Nat /\ Drawing(Target) /\ Need = t
      BY <2>1, <2>3, TargetFacts DEF Drawing, Need, VssOutputLayer
    <3> QED
      BY <2>1, <2>3, <3>1 DEF Multiplying, Refilling
  <2> QED
    BY <1>2, <2>2, <2>3 DEF MulGate
<1> QED
  BY <1>1, <1>2 DEF CircuitNext, Ended

-----------------------------------------------------------------------------
(* Gates are evaluated in order, on wires that are there.                  *)

\* A wire is written, at a layer that the next gate may find it at.
LEMMA Written ==
  ASSUME Underway, Layered, pc \in {"gates", "masked"}, pos <= Len(circuit.gates),
         circuit' = circuit, pos' = pos + 1, pc' = "gates",
         NEW L \in VssOutputLayer..(Bound + 1), NEW x, Place(current.gid, L, x)
  PROVE  Underway' /\ Layered'
<1>1. pos \in Nat \ {0} /\ Len(circuit.gates) \in Nat /\ VssOutputLayer \in Nat
  BY CircuitTypes DEF VssOutputLayer
<1>2. Underway'
  BY <1>1 DEF Underway, Evaluating
<1>3. DOMAIN wires' = InputsOf(circuit) \union Defined(circuit, pos + 1)
  <2>1. DOMAIN wires' = DOMAIN wires \union {current.gid}
    BY DEF Place, Put
  <2> QED
    BY <2>1, GateFacts DEF Layered, Evaluating
<1>4. \A w \in DOMAIN wires' : wires'[w] \in VssOutputLayer..(Bound + 1)
  <2>1. \A w \in DOMAIN wires : wires[w] \in VssOutputLayer..(Bound + 1)
    BY <1>1 DEF Layered, Evaluating, Bound
  <2> QED
    BY <2>1 DEF Place, Put
<1>5. Bound' = Bound + 1
  BY <1>1 DEF Bound
<1> QED
  BY <1>2, <1>3, <1>4, <1>5 DEF Layered

\* No step is made on a wire that is not there.
LEMMA ProgressNext ==
  ASSUME Underway, Layered, [CircuitNext]_circuitVars
  PROVE  Underway' /\ Layered'
<1>0. /\ pos \in Nat \ {0} /\ Len(circuit.gates) \in Nat /\ VssOutputLayer \in Nat
      /\ Bound \in Nat
  BY CircuitTypes DEF VssOutputLayer, Bound
<1>1. CASE Reject
  BY <1>1 DEF Reject, Underway, Layered, Evaluating
<1>2. CASE ShareInputs
  <2>1. pos = 1 /\ pos' = pos /\ circuit' = circuit /\ pc' = "gates"
    BY <1>2 DEF ShareInputs, Underway
  <2>2. Underway'
    BY <1>2, <2>1 DEF ShareInputs, Underway, Evaluating
  <2>3. Defined(circuit, pos) = {}
    BY <2>1 DEF Defined
  <2> QED
    BY <1>2, <2>1, <2>2, <2>3 DEF ShareInputs, Layered, Bound, VssOutputLayer
<1>3. CASE InputGate
  <2>1. pos <= Len(circuit.gates) /\ pos' = pos + 1 /\ circuit' = circuit /\ pc = "gates" /\ pc' = pc
        /\ wires' = wires
    BY <1>3 DEF InputGate
  <2>2. Underway'
    BY <1>0, <1>3, <2>1 DEF InputGate, Underway, Evaluating
  <2>3. DOMAIN wires = InputsOf(circuit) \union Defined(circuit, pos + 1)
    BY <1>3, <2>1, GateFacts DEF InputGate, Layered, Evaluating
  <2>4. Bound' = Bound + 1
    BY <1>0, <2>1 DEF Bound
  <2>5. \A w \in DOMAIN wires : wires[w] \in VssOutputLayer..(Bound + 1)
    BY <1>0, <2>1 DEF Layered, Evaluating
  <2> QED
    BY <2>1, <2>2, <2>3, <2>4, <2>5 DEF Layered
<1>4. CASE CmulGate
  <2>1. /\ pos <= Len(circuit.gates) /\ pos' = pos + 1 /\ circuit' = circuit /\ pc = "gates" /\ pc' = pc
        /\ \E x : Place(current.gid, wires[current.in1], x)
    BY <1>4 DEF CmulGate
  <2>2. current.in1 \in DOMAIN wires
    BY <1>4, <2>1, GateFacts DEF CmulGate
  <2>3. wires[current.in1] \in VssOutputLayer..(Bound + 1)
    BY <1>0, <2>1, <2>2 DEF Layered, Evaluating
  <2> QED
    BY <2>1, <2>3, Written
<1>5. CASE AddGate
  <2>1. /\ Binary /\ pos <= Len(circuit.gates) /\ pos' = pos + 1 /\ circuit' = circuit
        /\ pc = "gates" /\ pc' = pc
        /\ \E x : Place(current.gid, Target, x)
    BY <1>5 DEF AddGate, Binary, Underway
  <2>2. Target \in VssOutputLayer..(Bound + 1)
    BY <1>0, <2>1, TargetFacts
  <2> QED
    BY <2>1, <2>2, Written
<1>6. CASE Finish
  BY <1>0, <1>6 DEF Finish, Underway, Layered, Evaluating, Bound
<1>7. CASE Aligning
  <2>1. PICK w \in Low : Align(w)
    BY <1>7 DEF Aligning
  <2>2. Binary /\ Low # {}
    BY <1>7 DEF Aligning
  <2>3. pc = "gates"
    BY <2>2 DEF Binary, Underway
  <2>4. /\ circuit' = circuit /\ pc' = pc /\ pos' = pos
        /\ w \in DOMAIN wires /\ wires' = [wires EXCEPT ![w] = @ + 1]
    BY <2>1, <2>2, AlignFacts
  <2>5. Underway'
    BY <2>3, <2>4 DEF Underway, Evaluating
  <2>6. wires[w] + 1 \in VssOutputLayer..Bound
    BY <1>0, <2>1, <2>2, TargetFacts
  <2> QED
    BY <2>3, <2>4, <2>5, <2>6 DEF Layered, Evaluating, Bound
<1>8. CASE Refilling
  <2>1. UNCHANGED <<circuit, pc, pos, wires, values, drawn>> /\ pc \in {"gates", "masked"}
    BY <1>8 DEF Refilling, Refill, Binary
  <2>2. UNCHANGED <<current, Low, Target, Bound>>
    BY <2>1 DEF current, Low, Target, Bound
  <2> QED
    BY <2>1, <2>2 DEF Underway, Layered, Evaluating
<1>9. CASE Masking
  <2>1. /\ UNCHANGED <<circuit, pos, wires, values>> /\ pc = "gates" /\ pc' = "masked"
        /\ pos <= Len(circuit.gates) /\ current.op = "mul" /\ Low = {}
    BY <1>9 DEF Masking, DrawMasks, Binary
  <2>2. UNCHANGED <<current, Low, Target, Bound>>
    BY <2>1 DEF current, Low, Target, Bound
  <2> QED
    BY <2>1, <2>2 DEF Underway, Layered, Evaluating
<1>10. CASE Multiplying
  <2>1. /\ Binary /\ pos <= Len(circuit.gates) /\ pos' = pos + 1 /\ circuit' = circuit
        /\ pc = "masked" /\ pc' = "gates"
        /\ \E x : Place(current.gid, Target + 1, x)
    BY <1>10 DEF Multiplying, RunMul, Binary
  <2>2. Target + 1 \in VssOutputLayer..(Bound + 1)
    BY <1>0, <2>1, TargetFacts
  <2> QED
    BY <2>1, <2>2, Written
<1>11. CASE UNCHANGED circuitVars
  BY <1>11 DEF circuitVars, Underway, Layered, Evaluating, Bound, current, Low, Target
<1> QED
  BY StepCases, <1>1, <1>2, <1>3, <1>4, <1>5, <1>6, <1>7, <1>8, <1>9, <1>10, <1>11

-----------------------------------------------------------------------------
(* Sharings are used once.                                                 *)

Generated(s, L) ==
  IF circuit.mode = "rg" THEN s \in {L} \X Nat \X Nat /\ s[2] < made
                         ELSE s \in {L} \X Nat /\ s[2] <= made

\* What is in the pool has been generated, once, and has not been drawn.
Pooled ==
  /\ made \in Nat
  /\ circuit.mode = "rg" =>
       \A L \in Nat :
         /\ Buffer(L) \in Seq({L} \X Nat \X Nat)
         /\ \A i \in DOMAIN Buffer(L) : Generated(Buffer(L)[i], L)
         /\ \A i, j \in DOMAIN Buffer(L) : i # j => Buffer(L)[i] # Buffer(L)[j]
         /\ \A d \in drawn, i \in DOMAIN Buffer(L) : d.sharing # Buffer(L)[i]

\* What has been drawn went to a wire that has left the layer since, or to a gate
\* that is evaluated.
Spent(d) ==
  \E L \in Nat, w \in STRING, i \in Nat :
    /\ Generated(d.sharing, L)
    /\ \/ d.key = <<L, <<"rs", w>>, i>> /\ w \in Defined(circuit, pos) /\ L < wires[w]
       \/ /\ d.key = <<L, <<"mul", w>>, i>>
          /\ w \in Defined(circuit, pos) \/ (pc = "masked" /\ w = current.gid)
       \/ d.key = <<L, <<"mul_rs", w>>, i>> /\ w \in Defined(circuit, pos)

Drawn == (\A d \in drawn : Spent(d)) /\ SharingsUsedOnce

\* What Rest leaves of a buffer.
LEMMA RestFacts ==
  ASSUME NEW X, NEW b \in Seq(X), NEW m \in 0..Len(b)
  PROVE  /\ Rest(b, m) \in Seq(X) /\ Len(Rest(b, m)) = Len(b) - m
         /\ \A i \in 1..(Len(b) - m) : Rest(b, m)[i] = b[m + i]
BY DEF Rest

\* Storing a buffer changes the buffer of one layer.
LEMMA BufferPut ==
  ASSUME NEW L, NEW b, buffers' = Put(buffers, L, b)
  PROVE  Buffer(L)' = b /\ \A M : M # L => Buffer(M)' = Buffer(M)
BY DEF Buffer, Put

\* Drawing under a new key keeps the pool in order.
LEMMA DrawFacts ==
  ASSUME Underway, Pooled, Drawn, NEW L \in Nat, NEW call, NEW m \in Nat, Draw(L, call, m),
         circuit' = circuit,
         \A d \in drawn : ~ (d.key[1] = L /\ d.key[2] = call)
  PROVE  /\ Pooled' /\ SharingsUsedOnce'
         /\ made' \in Nat /\ made <= made'
         /\ \A d \in drawn' \ drawn :
              \E i \in Nat : d.key = <<L, call, i>> /\ Generated(d.sharing, L)'
<1>1. CASE circuit.mode = "rg"
  <2> DEFINE B == Buffer(L)
  <2>1. /\ B \in Seq({L} \X Nat \X Nat) /\ m <= Len(B) /\ made' = made
        /\ buffers' = Put(buffers, L, Rest(B, m))
        /\ drawn' = drawn \union {[key |-> <<L, call, i>>, sharing |-> B[i]] : i \in 1..m}
    BY <1>1 DEF Draw, Pooled, Enough
  <2>2. /\ \A i \in DOMAIN B : Generated(B[i], L)
        /\ \A i, j \in DOMAIN B : i # j => B[i] # B[j]
        /\ \A d \in drawn, i \in DOMAIN B : d.sharing # B[i]
    BY <1>1 DEF Pooled
  <2> HIDE DEF B
  <2>3. Len(B) \in Nat /\ DOMAIN B = 1..Len(B)
    BY <2>1
  <2>4. /\ Rest(B, m) \in Seq({L} \X Nat \X Nat)
        /\ DOMAIN Rest(B, m) = 1..(Len(B) - m)
        /\ \A i \in 1..(Len(B) - m) : Rest(B, m)[i] = B[m + i]
    <3>1. m \in 0..Len(B)
      BY <2>1, <2>3
    <3>2. /\ Rest(B, m) \in Seq({L} \X Nat \X Nat) /\ Len(Rest(B, m)) = Len(B) - m
          /\ \A i \in 1..(Len(B) - m) : Rest(B, m)[i] = B[m + i]
      BY <2>1, <3>1, RestFacts
    <3> QED
      BY <3>2
  <2>5. Buffer(L)' = Rest(B, m) /\ \A M : M # L => Buffer(M)' = Buffer(M)
    BY <2>1, BufferPut
  <2>6. ASSUME NEW d \in drawn' \ drawn
        PROVE  \E i \in 1..m : d.key = <<L, call, i>> /\ d.sharing = B[i] /\ i \in DOMAIN B
                                 /\ d = [key |-> <<L, call, i>>, sharing |-> B[i]]
    <3>1. PICK i \in 1..m : d = [key |-> <<L, call, i>>, sharing |-> B[i]]
      BY <2>1
    <3>2. d.key = <<L, call, i>> /\ d.sharing = B[i]
      BY <3>1
    <3>3. i \in DOMAIN B
      BY <2>1, <2>3
    <3> QED
      BY <3>1, <3>2, <3>3
  <2>7. ASSUME NEW x, NEW M
        PROVE  Generated(x, M)' <=> Generated(x, M)
    BY <2>1 DEF Generated
  <2>8. ASSUME NEW d \in drawn' \ drawn
        PROVE  \E i \in Nat : d.key = <<L, call, i>> /\ Generated(d.sharing, L)'
    BY <2>2, <2>6, <2>7
  <2>9. SharingsUsedOnce'
    <3> SUFFICES ASSUME NEW a \in drawn', NEW b \in drawn'
                 PROVE  /\ a # b => a.key # b.key /\ a.sharing # b.sharing
                        /\ a.key[1] = a.sharing[1]
      BY DEF SharingsUsedOnce
    <3>1. ASSUME NEW d \in drawn', NEW e \in drawn', d \notin drawn, e \in drawn
          PROVE  d.key # e.key /\ d.sharing # e.sharing
      BY <2>2, <2>6, <3>1
    <3>2. ASSUME a \notin drawn, b \notin drawn, a # b
          PROVE  a.key # b.key /\ a.sharing # b.sharing
      <4>1. PICK i \in 1..m : a.key = <<L, call, i>> /\ a.sharing = B[i] /\ i \in DOMAIN B
                                /\ a = [key |-> <<L, call, i>>, sharing |-> B[i]]
        BY <2>6, <3>2
      <4>2. PICK j \in 1..m : b.key = <<L, call, j>> /\ b.sharing = B[j] /\ j \in DOMAIN B
                                /\ b = [key |-> <<L, call, j>>, sharing |-> B[j]]
        BY <2>6, <3>2
      <4>3. i # j
        BY <4>1, <4>2, <3>2
      <4> QED
        BY <4>1, <4>2, <4>3, <2>2
    <3>3. a.key[1] = a.sharing[1]
      <4>1. CASE a \in drawn
        BY <4>1 DEF Drawn, SharingsUsedOnce
      <4>2. CASE a \notin drawn
        <5>1. PICK i \in 1..m : a.key = <<L, call, i>> /\ a.sharing = B[i] /\ i \in DOMAIN B
          BY <2>6, <4>2
        <5>2. Generated(B[i], L)
          BY <2>2, <5>1
        <5> QED
          BY <1>1, <5>1, <5>2 DEF Generated
      <4> QED
        BY <4>1, <4>2
    <3> QED
      BY <3>1, <3>2, <3>3 DEF Drawn, SharingsUsedOnce
  <2>10. Pooled'
    <3> SUFFICES ASSUME NEW M \in Nat
                 PROVE  /\ Buffer(M)' \in Seq({M} \X Nat \X Nat)
                        /\ \A i \in DOMAIN Buffer(M)' : Generated(Buffer(M)[i], M)'
                        /\ \A i, j \in DOMAIN Buffer(M)' : i # j => Buffer(M)'[i] # Buffer(M)'[j]
                        /\ \A d \in drawn', i \in DOMAIN Buffer(M)' : d.sharing # Buffer(M)'[i]
      BY <2>1 DEF Pooled
    <3>1. CASE M = L
      <4>1. \A i \in 1..(Len(B) - m) : m + i \in DOMAIN B /\ m + i \notin 1..m
        BY <2>1, <2>3
      <4>2. \A i \in DOMAIN Rest(B, m) : Generated(Rest(B, m)[i], L)
        BY <2>2, <2>4, <4>1
      <4>3. \A i, j \in DOMAIN Rest(B, m) : i # j => Rest(B, m)[i] # Rest(B, m)[j]
        BY <2>2, <2>3, <2>4, <4>1
      <4>4. \A d \in drawn', i \in DOMAIN Rest(B, m) : d.sharing # Rest(B, m)[i]
        <5>1. ASSUME NEW d \in drawn, NEW i \in DOMAIN Rest(B, m)
              PROVE  d.sharing # Rest(B, m)[i]
          BY <2>2, <2>4, <4>1
        <5>2. ASSUME NEW d \in drawn' \ drawn, NEW i \in DOMAIN Rest(B, m)
              PROVE  d.sharing # Rest(B, m)[i]
          <6>1. PICK j \in 1..m : d.sharing = B[j] /\ j \in DOMAIN B
            BY <2>6
          <6>2. Rest(B, m)[i] = B[m + i] /\ m + i \in DOMAIN B /\ m + i # j
            BY <2>4, <4>1
          <6> QED
            BY <2>2, <6>1, <6>2
        <5> QED
          BY <5>1, <5>2
      <4> QED
        BY <2>4, <2>5, <2>7, <3>1, <4>2, <4>3, <4>4
    <3>2. CASE M # L
      <4>1. /\ Buffer(M) \in Seq({M} \X Nat \X Nat)
            /\ \A i \in DOMAIN Buffer(M) : Generated(Buffer(M)[i], M)
            /\ \A i, j \in DOMAIN Buffer(M) : i # j => Buffer(M)[i] # Buffer(M)[j]
            /\ \A d \in drawn, i \in DOMAIN Buffer(M) : d.sharing # Buffer(M)[i]
        BY <1>1 DEF Pooled
      <4>2. ASSUME NEW d \in drawn' \ drawn, NEW i \in DOMAIN Buffer(M)
            PROVE  d.sharing # Buffer(M)[i]
        <5>1. PICK j \in DOMAIN B : d.sharing = B[j]
          BY <2>6
        <5>2. Generated(B[j], L) /\ Generated(Buffer(M)[i], M)
          BY <2>2, <4>1
        <5> QED
          BY <1>1, <3>2, <5>1, <5>2 DEF Generated
      <4> QED
        BY <2>5, <2>7, <3>2, <4>1, <4>2
    <3> QED
      BY <3>1, <3>2
  <2>11. made' \in Nat /\ made <= made'
    BY <2>1 DEF Pooled
  <2> QED
    BY <2>8, <2>9, <2>10, <2>11
<1>2. CASE circuit.mode = "local"
  <2>1. /\ made' = made + m /\ made \in Nat
        /\ drawn' = drawn \union {[key |-> <<L, call, i>>, sharing |-> <<L, made + i>>] : i \in 1..m}
    BY <1>2 DEF Draw, Pooled
  <2>2. ASSUME NEW d \in drawn' \ drawn
        PROVE  \E i \in 1..m : d.key = <<L, call, i>> /\ d.sharing = <<L, made + i>>
                                 /\ d = [key |-> <<L, call, i>>, sharing |-> <<L, made + i>>]
    BY <2>1
  <2>3. ASSUME NEW d \in drawn
        PROVE  d.key[1] = d.sharing[1] /\ d.sharing[2] \in Nat /\ d.sharing[2] <= made
    BY <1>2, <2>1 DEF Drawn, Spent, Generated, SharingsUsedOnce
  <2>4. ASSUME NEW d \in drawn' \ drawn
        PROVE  \E i \in Nat : d.key = <<L, call, i>> /\ Generated(d.sharing, L)'
    <3>1. PICK i \in 1..m : d.key = <<L, call, i>> /\ d.sharing = <<L, made + i>>
      BY <2>2
    <3>2. Generated(d.sharing, L)'
      BY <1>2, <2>1, <3>1 DEF Generated
    <3> QED
      BY <3>1, <3>2
  <2>5. SharingsUsedOnce'
    <3> SUFFICES ASSUME NEW a \in drawn', NEW b \in drawn'
                 PROVE  /\ a # b => a.key # b.key /\ a.sharing # b.sharing
                        /\ a.key[1] = a.sharing[1]
      BY DEF SharingsUsedOnce
    <3>1. ASSUME NEW d \in drawn', NEW e \in drawn', d \notin drawn, e \in drawn
          PROVE  d.key # e.key /\ d.sharing # e.sharing
      <4>1. PICK i \in 1..m : d.key = <<L, call, i>> /\ d.sharing = <<L, made + i>>
        BY <2>2, <3>1
      <4>2. e.sharing[2] \in Nat /\ e.sharing[2] <= made /\ ~ (e.key[1] = L /\ e.key[2] = call)
        BY <2>3, <3>1
      <4> QED
        BY <2>1, <4>1, <4>2
    <3>2. ASSUME a \notin drawn, b \notin drawn, a # b
          PROVE  a.key # b.key /\ a.sharing # b.sharing
      <4>1. PICK i \in 1..m : a.key = <<L, call, i>> /\ a.sharing = <<L, made + i>>
                                /\ a = [key |-> <<L, call, i>>, sharing |-> <<L, made + i>>]
        BY <2>2, <3>2
      <4>2. PICK j \in 1..m : b.key = <<L, call, j>> /\ b.sharing = <<L, made + j>>
                                /\ b = [key |-> <<L, call, j>>, sharing |-> <<L, made + j>>]
        BY <2>2, <3>2
      <4>3. i # j
        BY <4>1, <4>2, <3>2
      <4> QED
        BY <2>1, <4>1, <4>2, <4>3
    <3>3. a.key[1] = a.sharing[1]
      BY <2>2, <2>3
    <3> QED
      BY <3>1, <3>2, <3>3 DEF Drawn, SharingsUsedOnce
  <2>6. Pooled'
    BY <1>2, <2>1 DEF Pooled
  <2> QED
    BY <2>1, <2>4, <2>5, <2>6
<1> QED
  BY <1>1, <1>2, CircuitTypes

\* What has been spent stays so.
LEMMA StillSpent ==
  ASSUME Pooled, circuit' = circuit, made' \in Nat, made <= made',
         Defined(circuit, pos) \subseteq Defined(circuit, pos)',
         \A w \in Defined(circuit, pos) :
           wires[w] \in Nat /\ wires'[w] \in Nat /\ wires[w] <= wires'[w],
         pc = "masked" => \/ pc' = "masked" /\ current' = current
                          \/ current.gid \in Defined(circuit, pos)',
         NEW d, Spent(d)
  PROVE  Spent(d)'
<1>1. PICK L \in Nat, w \in STRING, i \in Nat :
        /\ Generated(d.sharing, L)
        /\ \/ d.key = <<L, <<"rs", w>>, i>> /\ w \in Defined(circuit, pos) /\ L < wires[w]
           \/ /\ d.key = <<L, <<"mul", w>>, i>>
              /\ w \in Defined(circuit, pos) \/ (pc = "masked" /\ w = current.gid)
           \/ d.key = <<L, <<"mul_rs", w>>, i>> /\ w \in Defined(circuit, pos)
  BY DEF Spent
<1>2. Generated(d.sharing, L)'
  <2>1. made \in Nat
    BY DEF Pooled
  <2> QED
    BY <1>1, <2>1 DEF Generated
<1>3. \/ d.key = <<L, <<"rs", w>>, i>> /\ w \in Defined(circuit, pos)' /\ L < wires'[w]
      \/ /\ d.key = <<L, <<"mul", w>>, i>>
         /\ w \in Defined(circuit, pos)' \/ (pc' = "masked" /\ w = current'.gid)
      \/ d.key = <<L, <<"mul_rs", w>>, i>> /\ w \in Defined(circuit, pos)'
  BY <1>1
<1> QED
  BY <1>2, <1>3 DEF Spent

\* Two sequences, one after the other.
LEMMA Concatenation ==
  ASSUME NEW X, NEW a \in Seq(X), NEW b \in Seq(X)
  PROVE  /\ a \o b \in Seq(X) /\ Len(a \o b) = Len(a) + Len(b)
         /\ DOMAIN (a \o b) = 1..(Len(a) + Len(b))
         /\ \A i \in 1..Len(a) : (a \o b)[i] = a[i]
         /\ \A i \in 1..Len(b) : (a \o b)[Len(a) + i] = b[i]
OBVIOUS

\* A refill adds new sharings.
LEMMA RefillFacts ==
  ASSUME Underway, Pooled, Drawn, NEW L \in Nat, NEW m, Refill(L, m)
  PROVE  /\ Pooled' /\ made' \in Nat /\ made <= made' /\ circuit.mode = "rg"
<1>1. /\ circuit.mode = "rg" /\ circuit' = circuit /\ drawn' = drawn /\ made' = made + 1
      /\ buffers' = Put(buffers, L, Buffer(L) \o [i \in 1..q |-> <<L, made, i>>])
  BY CircuitTypes DEF Refill, Enough
<1>2. PICK B, new : B = Buffer(L) /\ new = [i \in 1..q |-> <<L, made, i>>]
  OBVIOUS
<1>3. PICK J : J = B \o new
  OBVIOUS
<1>4. made \in Nat /\ q \in Nat
  BY ThresholdFacts DEF Pooled
<1>5. /\ B \in Seq({L} \X Nat \X Nat)
      /\ \A i \in DOMAIN B : Generated(B[i], L)
      /\ \A i, j \in DOMAIN B : i # j => B[i] # B[j]
      /\ \A d \in drawn, i \in DOMAIN B : d.sharing # B[i]
  BY <1>1, <1>2 DEF Pooled
<1>6. /\ new \in Seq({L} \X Nat \X Nat) /\ Len(new) = q
      /\ \A i \in 1..q : new[i] = <<L, made, i>>
  BY <1>4, <1>2
<1>7. Len(B) \in Nat /\ DOMAIN B = 1..Len(B)
  BY <1>5
<1>8. /\ J \in Seq({L} \X Nat \X Nat)
      /\ DOMAIN J = 1..(Len(B) + q)
      /\ \A i \in 1..Len(B) : J[i] = B[i]
      /\ \A i \in 1..q : J[Len(B) + i] = <<L, made, i>>
  <2> DEFINE X == {L} \X Nat \X Nat
  <2>1. B \in Seq(X) /\ new \in Seq(X)
    BY <1>5, <1>6
  <2> HIDE DEF X
  <2>2. /\ J \in Seq(X)
        /\ DOMAIN J = 1..(Len(B) + Len(new))
        /\ \A i \in 1..Len(B) : J[i] = B[i]
        /\ \A i \in 1..Len(new) : J[Len(B) + i] = new[i]
    <3>1. /\ B \o new \in Seq(X)
          /\ DOMAIN (B \o new) = 1..(Len(B) + Len(new))
          /\ \A i \in 1..Len(B) : (B \o new)[i] = B[i]
          /\ \A i \in 1..Len(new) : (B \o new)[Len(B) + i] = new[i]
      BY <2>1, Concatenation
    <3> QED
      BY <1>3, <3>1
  <2> QED
    BY <1>6, <2>2 DEF X
<1>9. Buffer(L)' = J /\ \A M : M # L => Buffer(M)' = Buffer(M)
  BY <1>1, <1>2, <1>3, BufferPut
<1>10. \A x, M : Generated(x, M) => Generated(x, M)'
  BY <1>1, <1>4 DEF Generated
<1>11. ASSUME NEW i \in DOMAIN J
       PROVE  \/ i \in DOMAIN B /\ J[i] = B[i]
              \/ \E k \in 1..q : i = Len(B) + k /\ J[i] = <<L, made, k>>
  <2>1. i \in 1..(Len(B) + q) /\ Len(B) \in Nat
    BY <1>7, <1>8
  <2>2. i \in 1..Len(B) \/ i - Len(B) \in 1..q
    BY <1>4, <2>1
  <2>3. Len(B) + (i - Len(B)) = i
    BY <2>1
  <2> QED
    BY <1>7, <1>8, <2>2, <2>3
<1>12. \A i \in DOMAIN B : B[i][2] \in Nat /\ B[i][2] < made
  BY <1>1, <1>5 DEF Generated
<1>13. \A d \in drawn : d.sharing[2] \in Nat /\ d.sharing[2] < made
  BY <1>1 DEF Drawn, Spent, Generated
<1>14. ASSUME NEW i \in DOMAIN J
       PROVE  Generated(J[i], L)'
  <2>1. CASE i \in DOMAIN B /\ J[i] = B[i]
    BY <1>5, <1>10, <2>1
  <2>2. CASE \E k \in 1..q : i = Len(B) + k /\ J[i] = <<L, made, k>>
    BY <1>1, <1>4, <2>2 DEF Generated
  <2> QED
    BY <1>11, <2>1, <2>2
<1>15. ASSUME NEW i \in DOMAIN J, NEW j \in DOMAIN J, i # j
       PROVE  J[i] # J[j]
  <2>1. CASE i \in DOMAIN B /\ J[i] = B[i]
    <3>1. CASE j \in DOMAIN B /\ J[j] = B[j]
      BY <1>5, <1>15, <2>1, <3>1
    <3>2. CASE \E k \in 1..q : j = Len(B) + k /\ J[j] = <<L, made, k>>
      BY <1>4, <1>12, <2>1, <3>2
    <3> QED
      BY <1>11, <3>1, <3>2
  <2>2. CASE \E k \in 1..q : i = Len(B) + k /\ J[i] = <<L, made, k>>
    <3>1. CASE j \in DOMAIN B /\ J[j] = B[j]
      BY <1>4, <1>12, <2>2, <3>1
    <3>2. CASE \E k \in 1..q : j = Len(B) + k /\ J[j] = <<L, made, k>>
      BY <1>15, <2>2, <3>2
    <3> QED
      BY <1>11, <3>1, <3>2
  <2> QED
    BY <1>11, <2>1, <2>2
<1>16. ASSUME NEW d \in drawn, NEW i \in DOMAIN J
       PROVE  d.sharing # J[i]
  <2>1. d.sharing[2] \in Nat /\ d.sharing[2] < made
    BY <1>13
  <2> QED
    BY <1>4, <1>5, <1>11, <2>1
<1>17. ASSUME NEW M \in Nat
       PROVE  /\ Buffer(M)' \in Seq({M} \X Nat \X Nat)
              /\ \A i \in DOMAIN Buffer(M)' : Generated(Buffer(M)[i], M)'
              /\ \A i, j \in DOMAIN Buffer(M)' : i # j => Buffer(M)'[i] # Buffer(M)'[j]
              /\ \A d \in drawn', i \in DOMAIN Buffer(M)' : d.sharing # Buffer(M)'[i]
  <2>1. CASE M = L
    <3>1. \A i \in DOMAIN J : Generated(Buffer(L)[i], L)'
      BY <1>9, <1>14
    <3> QED
      BY <1>1, <1>8, <1>9, <1>15, <1>16, <2>1, <3>1
  <2>2. CASE M # L
    <3>1. /\ Buffer(M) \in Seq({M} \X Nat \X Nat)
          /\ \A i \in DOMAIN Buffer(M) : Generated(Buffer(M)[i], M)
          /\ \A i, j \in DOMAIN Buffer(M) : i # j => Buffer(M)[i] # Buffer(M)[j]
          /\ \A d \in drawn, i \in DOMAIN Buffer(M) : d.sharing # Buffer(M)[i]
      BY <1>1 DEF Pooled
    <3> QED
      BY <1>1, <1>9, <1>10, <2>2, <3>1
  <2> QED
    BY <2>1, <2>2
<1>18. made' \in Nat /\ made <= made'
  BY <1>1, <1>4
<1> QED
  BY <1>1, <1>17, <1>18 DEF Pooled

\* A gate writes a wire that none of its operands is.
LEMMA WireKept ==
  ASSUME Underway, Layered, pc \in {"gates", "masked"}, pos <= Len(circuit.gates),
         NEW L, NEW x, Place(current.gid, L, x), NEW w \in Defined(circuit, pos)
  PROVE  wires[w] \in Nat /\ wires'[w] = wires[w]
<1>1. w \in DOMAIN wires /\ w # current.gid
  BY GateFacts
<1> QED
  BY <1>1 DEF Place, Put, Layered, Evaluating, VssOutputLayer

\* No step draws a sharing twice, or under a key in use.
LEMMA PoolNext ==
  ASSUME Underway, Layered, Pooled, Drawn, [CircuitNext]_circuitVars
  PROVE  Pooled' /\ Drawn'
<1>0. \A w \in Defined(circuit, pos) : pc \in {"gates", "masked", "done"} => wires[w] \in Nat
  BY DEF Layered, Evaluating, VssOutputLayer
<1>1. CASE UNCHANGED <<circuit, buffers, made, drawn>>
           /\ (Reject \/ ShareInputs \/ InputGate \/ CmulGate \/ AddGate \/ Finish
               \/ UNCHANGED circuitVars)
  <2>1. Pooled'
    <3>1. /\ \A M : Buffer(M)' = Buffer(M)
          /\ \A x, M : Generated(x, M)' <=> Generated(x, M)
      BY <1>1 DEF Buffer, Generated
    <3> QED
      BY <1>1, <3>1 DEF Pooled
  <2>2. SharingsUsedOnce'
    BY <1>1 DEF Drawn, SharingsUsedOnce
  <2>3. made' \in Nat /\ made <= made'
    BY <1>1 DEF Pooled
  <2>4. CASE Reject \/ ShareInputs
    BY <1>1, <2>1, <2>2, <2>4 DEF Reject, ShareInputs, Underway, Drawn
  <2>5. CASE Finish \/ UNCHANGED circuitVars
    <3>1. UNCHANGED <<pos, wires, drawn>> /\ Defined(circuit, pos)' = Defined(circuit, pos)
          /\ current' = current /\ (pc = "masked" => pc' = "masked")
      BY <1>1, <2>5 DEF Finish, circuitVars, current, Defined
    <3>2. CASE pc \in {"start", "rejected"}
      BY <1>1, <2>1, <2>2, <3>2 DEF Underway, Drawn
    <3>3. CASE pc \in {"gates", "masked", "done"}
      BY <1>0, <1>1, <2>1, <2>2, <2>3, <3>1, <3>3, StillSpent DEF Drawn
    <3> QED
      BY <3>2, <3>3 DEF Underway
  <2>6. CASE InputGate \/ CmulGate \/ AddGate
    <3>1. /\ pc = "gates" /\ pos <= Len(circuit.gates) /\ pos' = pos + 1
      BY <2>6 DEF InputGate, CmulGate, AddGate, Binary, Underway
    <3>2. Defined(circuit, pos) \subseteq Defined(circuit, pos)'
      BY <1>1, <3>1, GateFacts
    <3>3. \A w \in Defined(circuit, pos) : wires[w] \in Nat /\ wires'[w] = wires[w]
      <4>1. CASE InputGate
        BY <1>0, <3>1, <4>1 DEF InputGate
      <4>2. CASE CmulGate \/ AddGate
        <5>1. \E L, x : Place(current.gid, L, x)
          BY <4>2 DEF CmulGate, AddGate
        <5> QED
          BY <3>1, <5>1, WireKept
      <4> QED
        BY <2>6, <4>1, <4>2
    <3> QED
      BY <1>1, <2>1, <2>2, <2>3, <3>1, <3>2, <3>3, StillSpent DEF Drawn
  <2> QED
    BY <1>1, <2>4, <2>5, <2>6
<1>2. CASE Aligning
  <2>1. PICK w \in Low : Align(w)
    BY <1>2 DEF Aligning
  <2>2. Binary /\ Low # {} /\ pc = "gates"
    BY <1>2 DEF Aligning, Binary, Underway
  <2>3. /\ circuit' = circuit /\ pc' = pc /\ pos' = pos /\ current' = current
        /\ w \in DOMAIN wires /\ wires' = [wires EXCEPT ![w] = @ + 1]
    BY <2>1, <2>2, AlignFacts
  <2>4. wires[w] \in Nat /\ w \in Defined(circuit, pos) /\ w \in STRING
    <3>1. w \in Defined(circuit, pos)
      BY <2>1, <2>2, TargetFacts, GateFacts DEF Binary
    <3>2. \A x \in Defined(circuit, pos) : x \in STRING
      <4>1. \A j \in 1..(pos - 1) : j \in 1..Len(circuit.gates)
        BY CircuitTypes DEF Underway
      <4> QED
        BY <4>1, CircuitTypes DEF Defined
    <3> QED
      BY <1>0, <2>2, <3>1, <3>2
  <2>5. PICK L \in Nat : L = wires[w]
    BY <2>4
  <2>6. \A d \in drawn : ~ (d.key[1] = L /\ d.key[2] = <<"rs", w>>)
    BY <2>2, <2>4, <2>5 DEF Drawn, Spent
  <2>7. /\ Pooled' /\ SharingsUsedOnce'
        /\ made' \in Nat /\ made <= made'
        /\ \A d \in drawn' \ drawn :
             \E i \in Nat : d.key = <<L, <<"rs", w>>, i>> /\ Generated(d.sharing, L)'
    <3>1. Draw(L, <<"rs", w>>, t) /\ t \in Nat
      BY <2>1, <2>5, ThresholdFacts DEF Align
    <3> QED
      BY <2>3, <2>6, <3>1, DrawFacts
  <2>8. Defined(circuit, pos)' = Defined(circuit, pos)
    BY <2>3 DEF Defined
  <2>9. \A v \in Defined(circuit, pos) :
           wires[v] \in Nat /\ wires'[v] \in Nat /\ wires[v] <= wires'[v]
    <3> SUFFICES ASSUME NEW v \in Defined(circuit, pos)
                 PROVE  wires[v] \in Nat /\ wires'[v] \in Nat /\ wires[v] <= wires'[v]
      OBVIOUS
    <3>1. v \in DOMAIN wires /\ wires[v] \in Nat
      BY <1>0, <2>2, GateFacts DEF Binary
    <3> QED
      BY <2>3, <2>4, <3>1
  <2>10. \A d \in drawn : Spent(d)'
    BY <2>2, <2>3, <2>7, <2>8, <2>9, StillSpent DEF Drawn
  <2>11. \A d \in drawn' \ drawn : Spent(d)'
    <3> SUFFICES ASSUME NEW d \in drawn' \ drawn
                 PROVE  Spent(d)'
      OBVIOUS
    <3>1. PICK i \in Nat : d.key = <<L, <<"rs", w>>, i>> /\ Generated(d.sharing, L)'
      BY <2>7
    <3> QED
      BY <2>3, <2>4, <2>5, <2>8, <3>1 DEF Spent
  <2> QED
    BY <2>7, <2>10, <2>11 DEF Drawn
<1>3. CASE Refilling
  <2>1. PICK L \in Nat : Refill(L, Need)
    BY <1>3 DEF Refilling
  <2>2. UNCHANGED <<circuit, pc, pos, wires, drawn>> /\ pc \in {"gates", "masked"}
    BY <1>3, <2>1 DEF Refill, Refilling, Binary
  <2>3. Pooled' /\ made' \in Nat /\ made <= made'
    BY <2>1, RefillFacts
  <2>4. Defined(circuit, pos)' = Defined(circuit, pos) /\ current' = current
    BY <2>2 DEF Defined, current
  <2>5. \A d \in drawn : Spent(d)'
    BY <1>0, <2>2, <2>3, <2>4, StillSpent DEF Drawn
  <2> QED
    BY <2>2, <2>3, <2>5 DEF Drawn, SharingsUsedOnce
<1>4. CASE Masking
  <2>1. /\ Binary /\ pc = "gates" /\ pc' = "masked" /\ UNCHANGED <<circuit, pos, wires>>
        /\ current.gid \in STRING /\ current.gid \notin Defined(circuit, pos)
    BY <1>4, GateFacts DEF Masking, DrawMasks, Binary
  <2>2. PICK L \in Nat : L = Target
    BY <2>1, TargetFacts DEF VssOutputLayer
  <2>3. PICK w \in STRING : w = current.gid
    BY <2>1
  <2>4. \A d \in drawn : ~ (d.key[1] = L /\ d.key[2] = <<"mul", w>>)
    BY <2>1, <2>3 DEF Drawn, Spent
  <2>5. /\ Pooled' /\ SharingsUsedOnce'
        /\ made' \in Nat /\ made <= made'
        /\ \A d \in drawn' \ drawn :
             \E i \in Nat : d.key = <<L, <<"mul", w>>, i>> /\ Generated(d.sharing, L)'
    <3>1. Draw(L, <<"mul", w>>, 3 * t + 1) /\ 3 * t + 1 \in Nat
      BY <1>4, <2>2, <2>3, ThresholdFacts DEF Masking, DrawMasks
    <3> QED
      BY <2>1, <2>4, <3>1, DrawFacts
  <2>6. Defined(circuit, pos)' = Defined(circuit, pos) /\ current' = current
    BY <2>1 DEF Defined, current
  <2>7. \A d \in drawn : Spent(d)'
    BY <1>0, <2>1, <2>5, <2>6, StillSpent DEF Drawn
  <2>8. \A d \in drawn' \ drawn : Spent(d)'
    BY <2>1, <2>3, <2>5, <2>6 DEF Spent
  <2> QED
    BY <2>5, <2>7, <2>8 DEF Drawn
<1>5. CASE Multiplying
  <2>1. /\ Binary /\ pc = "masked" /\ pos' = pos + 1 /\ circuit' = circuit
        /\ pos <= Len(circuit.gates)
        /\ current.gid \in STRING /\ current.gid \notin Defined(circuit, pos)
        /\ Defined(circuit, pos)' = Defined(circuit, pos) \union {current.gid}
    BY <1>5, GateFacts DEF Multiplying, RunMul, Binary
  <2>2. PICK L \in Nat : L = Target
    BY <2>1, TargetFacts DEF VssOutputLayer
  <2>3. PICK w \in STRING : w = current.gid
    BY <2>1
  <2>4. \A d \in drawn : ~ (d.key[1] = L /\ d.key[2] = <<"mul_rs", w>>)
    BY <2>1, <2>3 DEF Drawn, Spent
  <2>5. /\ Pooled' /\ SharingsUsedOnce'
        /\ made' \in Nat /\ made <= made'
        /\ \A d \in drawn' \ drawn :
             \E i \in Nat : d.key = <<L, <<"mul_rs", w>>, i>> /\ Generated(d.sharing, L)'
    <3>1. Draw(L, <<"mul_rs", w>>, t) /\ t \in Nat
      BY <1>5, <2>2, <2>3, ThresholdFacts DEF Multiplying, RunMul
    <3> QED
      BY <2>1, <2>4, <3>1, DrawFacts
  <2>6. \A v \in Defined(circuit, pos) : wires[v] \in Nat /\ wires'[v] = wires[v]
    <3>1. \E M, x : Place(current.gid, M, x)
      BY <1>5 DEF Multiplying, RunMul
    <3> QED
      BY <2>1, <3>1, WireKept
  <2>7. \A d \in drawn : Spent(d)'
    BY <2>1, <2>5, <2>6, StillSpent DEF Drawn
  <2>8. \A d \in drawn' \ drawn : Spent(d)'
    BY <2>1, <2>3, <2>5 DEF Spent
  <2> QED
    BY <2>5, <2>7, <2>8 DEF Drawn
<1> QED
  BY <1>1, <1>2, <1>3, <1>4, <1>5, StepCases
       DEF Reject, ShareInputs, InputGate, CmulGate, AddGate, Finish, circuitVars

\* The invariants hold when the evaluation starts.
LEMMA Opened == CircuitInit => Underway /\ Layered /\ Pooled /\ Drawn
<1> SUFFICES ASSUME CircuitInit
             PROVE  Underway /\ Layered /\ Pooled /\ Drawn
  OBVIOUS
<1>1. Underway /\ Layered
  <2>1. circuit.gates \in Seq([gid : STRING, op : STRING, in1 : STRING, in2 : STRING])
    BY CircuitAssumption DEF CircuitInit
  <2>2. Len(circuit.gates) \in Nat
    BY <2>1
  <2> QED
    BY <2>2 DEF CircuitInit, Underway, Layered, Evaluating
<1>2. Pooled
  <2>1. buffers = <<>> /\ made = 0 /\ drawn = {}
    BY DEF CircuitInit
  <2>2. \A L : Buffer(L) = <<>>
    BY <2>1 DEF Buffer
  <2>3. \A X : <<>> \in Seq(X) /\ DOMAIN <<>> = {}
    OBVIOUS
  <2> QED
    BY <2>1, <2>2, <2>3, Zenon DEF Pooled
<1>3. Drawn
  BY DEF CircuitInit, Drawn, SharingsUsedOnce
<1> QED
  BY <1>1, <1>2, <1>3

PoolInv == Underway /\ Layered /\ Pooled /\ Drawn

\* The pool is in order throughout.
LEMMA PoolInvariance == CircuitSpec => []PoolInv
<1>1. CircuitInit => PoolInv
  BY Opened DEF PoolInv
<1>2. PoolInv /\ [CircuitNext]_circuitVars => PoolInv'
  BY ProgressNext, PoolNext DEF PoolInv
<1> QED
  BY <1>1, <1>2, PTL DEF CircuitSpec

\* No random sharing is drawn twice, none is stored under a key that another is
\* stored under, and each is of the layer it is used in (mpc.py:61-100), for every
\* set of circuits, n and t.
THEOREM UsedOnce == CircuitSpec => []SharingsUsedOnce
<1>1. PoolInv => SharingsUsedOnce
  BY DEF PoolInv, Drawn
<1> QED
  BY <1>1, PoolInvariance, PTL

-----------------------------------------------------------------------------
(* Shares are of the plain values.                                         *)

\* The shares at the layers of the wires are of these values.
SharedAre(plain) ==
  /\ DOMAIN plain = DOMAIN wires
  /\ \A w \in DOMAIN wires :
       <<wires[w], w>> \in DOMAIN values /\ values[<<wires[w], w>>] = plain[w]

Evaluated == Evaluating => SharedAre(Plain(circuit)[pos - 1])

\* A wire is read at its layer.
LEMMA ReadFacts ==
  ASSUME NEW plain, SharedAre(plain), NEW w \in DOMAIN wires
  PROVE  Read(wires[w], w) = plain[w]
BY DEF SharedAre, Read

\* A share that is written changes what is found for its wire only.
LEMMA Stored ==
  ASSUME NEW plain, SharedAre(plain), NEW w, NEW L, NEW x, Place(w, L, x)
  PROVE  SharedAre(Put(plain, w, x))'
<1>1. /\ DOMAIN wires' = DOMAIN wires \union {w} /\ wires'[w] = L
      /\ \A v \in DOMAIN wires : v # w => wires'[v] = wires[v]
  BY DEF Place, Put
<1>2. /\ DOMAIN values' = DOMAIN values \union {<<L, w>>} /\ values'[<<L, w>>] = x
      /\ \A k \in DOMAIN values : k # <<L, w>> => values'[k] = values[k]
  BY DEF Place, Put
<1>3. PICK after : after = Put(plain, w, x)
  OBVIOUS
<1>4. /\ DOMAIN after = DOMAIN plain \union {w} /\ after[w] = x
      /\ \A v \in DOMAIN plain : v # w => after[v] = plain[v]
  BY <1>3 DEF Put
<1>5. DOMAIN after = DOMAIN wires'
  BY <1>1, <1>4 DEF SharedAre
<1>6. ASSUME NEW v \in DOMAIN wires'
      PROVE  <<wires'[v], v>> \in DOMAIN values' /\ values'[<<wires'[v], v>>] = after[v]
  <2>1. CASE v = w
    BY <1>1, <1>2, <1>4, <2>1
  <2>2. CASE v # w
    <3>1. v \in DOMAIN wires /\ wires'[v] = wires[v] /\ after[v] = plain[v]
      BY <1>1, <1>4, <2>2 DEF SharedAre
    <3>2. <<wires[v], v>> \in DOMAIN values /\ values[<<wires[v], v>>] = plain[v]
      BY <3>1 DEF SharedAre
    <3>3. <<wires[v], v>> # <<L, w>>
      BY <2>2
    <3> QED
      BY <1>2, <3>1, <3>2, <3>3
  <2> QED
    BY <2>1, <2>2
<1>7. SharedAre(after)'
  BY <1>5, <1>6 DEF SharedAre
<1> QED
  BY <1>3, <1>7

\* The plain value of the wire that a gate defines.
LEMMA PlainOfGate ==
  ASSUME Underway, Layered, pc \in {"gates", "masked"}, pos <= Len(circuit.gates)
  PROVE  Plain(circuit)[pos] = PlainGate(current, Plain(circuit)[pos - 1])
<1>1. pos \in 1..Len(circuit.gates) /\ Len(circuit.gates) \in Nat
  BY GateFacts, CircuitTypes
<1> QED
  BY <1>1, PlainUnfolds DEF current

\* The wire that a gate defines gets a share of its plain value.
LEMMA GateStored ==
  ASSUME Underway, Layered, Evaluated, pc \in {"gates", "masked"}, pos <= Len(circuit.gates),
         circuit' = circuit, pos' = pos + 1, NEW L, NEW x, Place(current.gid, L, x),
         Plain(circuit)[pos] = Put(Plain(circuit)[pos - 1], current.gid, x)
  PROVE  Evaluated'
<1>1. PICK plain, w : plain = Plain(circuit)[pos - 1] /\ w = current.gid
  OBVIOUS
<1>2. SharedAre(Put(plain, w, x))'
  BY <1>1, Stored DEF Evaluated, Evaluating
<1>3. Plain(circuit)[pos] = Put(plain, w, x) /\ pos' - 1 = pos
  BY <1>1, CircuitTypes
<1> QED
  BY <1>2, <1>3 DEF Evaluated

\* No step spoils a share.
LEMMA EvaluatedNext ==
  ASSUME Underway, Layered, Evaluated, [CircuitNext]_circuitVars
  PROVE  Evaluated'
<1>0. pos \in Nat \ {0} /\ Len(circuit.gates) \in Nat
  BY CircuitTypes
<1>1. CASE Reject
  BY <1>1 DEF Reject, Evaluated, Evaluating
<1>2. CASE ShareInputs
  <2>1. Plain(circuit)[0] = [w \in InputsOf(circuit) |-> <<"input", w>>]
    BY <1>0, PlainUnfolds
  <2>2. /\ pos' - 1 = 0 /\ circuit' = circuit
        /\ wires' = [w \in InputsOf(circuit) |-> VssOutputLayer]
        /\ values' = [key \in {VssOutputLayer} \X InputsOf(circuit) |-> <<"input", key[2]>>]
    BY <1>2 DEF ShareInputs, Underway
  <2> QED
    BY <2>1, <2>2 DEF Evaluated, SharedAre
<1>3. CASE InputGate
  <2>1. /\ pc = "gates" /\ pos <= Len(circuit.gates) /\ current.op = "input"
        /\ pos' - 1 = pos /\ UNCHANGED <<circuit, wires, values>>
    BY <1>0, <1>3 DEF InputGate
  <2>2. Plain(circuit)[pos] = Plain(circuit)[pos - 1]
    BY <2>1, PlainOfGate DEF PlainGate
  <2> QED
    BY <2>1, <2>2 DEF Evaluated, Evaluating, SharedAre
<1>4. CASE CmulGate
  <2>1. /\ pc = "gates" /\ pos <= Len(circuit.gates) /\ current.op = "cmul"
        /\ pos' = pos + 1 /\ circuit' = circuit
        /\ current.in1 \in DOMAIN wires /\ SharedAre(Plain(circuit)[pos - 1])
    BY <1>4, GateFacts DEF CmulGate, Evaluated, Evaluating
  <2>2. PICK x, L : /\ x = <<"cmul", current.gid, Plain(circuit)[pos - 1][current.in1]>>
                    /\ L = wires[current.in1]
    OBVIOUS
  <2>3. Place(current.gid, L, x)
    BY <1>4, <2>1, <2>2, ReadFacts DEF CmulGate
  <2>4. Plain(circuit)[pos] = Put(Plain(circuit)[pos - 1], current.gid, x)
    BY <2>1, <2>2, PlainOfGate DEF PlainGate
  <2> QED
    BY <2>1, <2>3, <2>4, GateStored
<1>5. CASE AddGate \/ Multiplying
  <2>1. /\ Binary /\ Low = {} /\ pc \in {"gates", "masked"} /\ pos <= Len(circuit.gates)
        /\ current.op \in {"add", "mul"}
        /\ pos' = pos + 1 /\ circuit' = circuit /\ SharedAre(Plain(circuit)[pos - 1])
    BY <1>5 DEF AddGate, Multiplying, RunMul, Binary, Evaluated, Evaluating
  <2>2. /\ Read(Target, current.in1) = Plain(circuit)[pos - 1][current.in1]
        /\ Read(Target, current.in2) = Plain(circuit)[pos - 1][current.in2]
    BY <2>1, TargetFacts, ReadFacts
  <2>3. PICK x, L : /\ x = <<current.op, Read(Target, current.in1), Read(Target, current.in2)>>
                    /\ L = IF current.op = "add" THEN Target ELSE Target + 1
    OBVIOUS
  <2>4. Place(current.gid, L, x)
    BY <1>5, <2>3 DEF AddGate, Multiplying, RunMul
  <2>5. Plain(circuit)[pos] = Put(Plain(circuit)[pos - 1], current.gid, x)
    BY <2>1, <2>2, <2>3, PlainOfGate DEF PlainGate
  <2> QED
    BY <2>1, <2>4, <2>5, GateStored
<1>6. CASE Finish
  BY <1>6 DEF Finish, Evaluated, Evaluating, SharedAre
<1>7. CASE Aligning
  <2>1. PICK w \in Low : Align(w)
    BY <1>7 DEF Aligning
  <2>2. /\ Binary /\ circuit' = circuit /\ pos' = pos /\ w \in DOMAIN wires
        /\ SharedAre(Plain(circuit)[pos - 1])
    BY <1>7, <2>1, AlignFacts DEF Aligning, Binary, Evaluated, Evaluating
  <2>3. PICK plain, x, L : plain = Plain(circuit)[pos - 1] /\ x = plain[w] /\ L = wires[w] + 1
    OBVIOUS
  <2>4. Place(w, L, x)
    BY <2>1, <2>2, <2>3, ReadFacts DEF Align
  <2>5. SharedAre(Put(plain, w, x))'
    BY <2>2, <2>3, <2>4, Stored
  <2>6. /\ DOMAIN Put(plain, w, x) = DOMAIN plain
        /\ \A v \in DOMAIN plain : Put(plain, w, x)[v] = plain[v]
    BY <2>2, <2>3 DEF Put, SharedAre
  <2>7. SharedAre(plain)'
    BY <2>5, <2>6 DEF SharedAre
  <2> QED
    BY <2>2, <2>3, <2>7 DEF Evaluated
<1>8. CASE Refilling \/ Masking
  <2>1. UNCHANGED <<circuit, pos, wires, values>> /\ pc \in {"gates", "masked"}
    BY <1>8 DEF Refilling, Refill, Masking, DrawMasks, Binary
  <2> QED
    BY <2>1 DEF Evaluated, Evaluating, SharedAre
<1>9. CASE UNCHANGED circuitVars
  BY <1>9 DEF circuitVars, Evaluated, Evaluating, SharedAre
<1> QED
  BY StepCases, <1>1, <1>2, <1>3, <1>4, <1>5, <1>6, <1>7, <1>8, <1>9

PlainInv == Underway /\ Layered /\ Evaluated

\* The shares are of the plain values throughout.
LEMMA PlainInvariance == CircuitSpec => []PlainInv
<1>1. CircuitInit => PlainInv
  BY Opened DEF PlainInv, CircuitInit, Evaluated, Evaluating
<1>2. PlainInv /\ [CircuitNext]_circuitVars => PlainInv'
  BY ProgressNext, EvaluatedNext DEF PlainInv
<1> QED
  BY <1>1, <1>2, PTL DEF CircuitSpec

\* At the end every wire's share, at the wire's layer, is one of its plain value
\* (run_cubempc against evaluate_plain), for every set of circuits, n and t.
THEOREM PlainShares == CircuitSpec => []SharesArePlain
<1>1. PlainInv => SharesArePlain
  <2> SUFFICES ASSUME PlainInv, pc = "done", NEW w \in DOMAIN wires
               PROVE  Read(wires[w], w) = PlainValues(circuit)[w]
    BY DEF SharesArePlain
  <2>1. pos - 1 = Len(circuit.gates)
    BY CircuitTypes DEF PlainInv, Underway
  <2>2. SharedAre(PlainValues(circuit))
    BY <2>1 DEF PlainInv, Evaluated, Evaluating, PlainValues
  <2> QED
    BY <2>2, ReadFacts
<1> QED
  BY <1>1, PlainInvariance, PTL

-----------------------------------------------------------------------------
(* The cost of the circuit is what the evaluation spends.                  *)

\* The gate in progress has two operands, that may have to be moved.
Moving == pos <= Len(circuit.gates) /\ current.op \in {"add", "mul"}

\* With s the account before the gate in progress: the moves made for the gate,
\* those that took a round of RG, and all rounds for it so far.
Moves(s) ==
  IF Moving
    THEN {x \in {current.in1, current.in2} \X (0..Target) :
            s.wires[x[1]] <= x[2] /\ x[2] < wires[x[1]]}
    ELSE {}
Refills(s) == {x \in Moves(s) : Rounds(s.left[x[2]], t) > 0}
Rounded(s) ==
  Cardinality(Refills(s)) + IF pc = "masked" THEN Rounds(s.left[Target], 3 * t + 1) ELSE 0

\* What should be in the pool for layer L.
LeftAt(s, L) ==
  IF \E x \in Moves(s) : x[2] = L THEN Remains(s.left[L], t)
  ELSE IF pc = "masked" /\ L = Target THEN Remains(s.left[L], 3 * t + 1)
  ELSE s.left[L]

Settled(s) ==
  /\ calls["rg"] = s.rg + Rounded(s)
  /\ \A L \in LayersOf(circuit) : Len(Buffer(L)) = LeftAt(s, L)

\* A round of RG has been run whose sharings are needed but not yet drawn.
Prepaid(s) ==
  /\ Moving
  /\ calls["rg"] = s.rg + Rounded(s) + 1
  /\ \E P \in LayersOf(circuit) :
       /\ Drawing(P) /\ LeftAt(s, P) < Need
       /\ \A L \in LayersOf(circuit) :
            Len(Buffer(L)) = IF L = P THEN LeftAt(s, L) + q ELSE LeftAt(s, L)

\* Only the operands of the gate in progress are above their layers.
WiresFrom(s) ==
  /\ DOMAIN s.wires = DOMAIN wires
  /\ \A w \in DOMAIN wires :
       /\ s.wires[w] \in VssOutputLayer..wires[w]
       /\ (Moving /\ w \in {current.in1, current.in2}) \/ s.wires[w] = wires[w]
  /\ Moving => Target = Larger(s.wires[current.in1], s.wires[current.in2])

InAccount(s) ==
  /\ calls \in [{"vss", "rg", "rs", "mul"} -> Nat]
  /\ s.left \in [LayersOf(circuit) -> Nat]
  /\ s.rg \in Nat /\ s.rs \in Nat /\ s.mul \in Nat
  /\ WiresFrom(s)
  /\ calls["vss"] = Cardinality(InputsOf(circuit))
  /\ calls["mul"] = s.mul
  /\ calls["rs"] = s.rs + Cardinality(Moves(s))
  /\ IF circuit.mode = "rg" THEN Settled(s) \/ Prepaid(s) ELSE calls["rg"] = s.rg

Accounted == Evaluating => InAccount(Account(circuit)[pos - 1])

\* A call draws at most what one round makes.
LEMMA RoundsFacts ==
  ASSUME NEW left \in Nat, NEW m \in Nat, m <= q
  PROVE  /\ Rounds(left, m) = IF left >= m THEN 0 ELSE 1
         /\ Remains(left, m) = IF left >= m THEN left - m ELSE left + q - m
         /\ Remains(left, m) \in Nat
<1>1. q \in Nat \ {0}
  BY ThresholdFacts
<1>2. Rounds(left, m) = IF left >= m THEN 0 ELSE 1
  <2>1. CASE left >= m
    BY <2>1 DEF Rounds
  <2>2. CASE ~ (left >= m)
    <3>1. PICK x \in 1..q : x = m - left
      BY <1>1, <2>2
    <3>2. (x + q - 1) \div q = 1
      BY <1>1, <3>1
    <3> QED
      BY <2>2, <3>1, <3>2 DEF Rounds
  <2> QED
    BY <2>1, <2>2
<1> QED
  BY <1>1, <1>2 DEF Remains

\* What a draw leaves in the buffers.
LEMMA DrawLeaves ==
  ASSUME Pooled, circuit.mode = "rg", NEW L \in Nat, NEW call, NEW m \in Nat, Draw(L, call, m)
  PROVE  /\ Len(Buffer(L)) \in Nat /\ Len(Buffer(L)) >= m
         /\ Len(Buffer(L)') = Len(Buffer(L)) - m
         /\ \A M : M # L => Buffer(M)' = Buffer(M)
<1>1. /\ Buffer(L) \in Seq({L} \X Nat \X Nat) /\ Len(Buffer(L)) >= m
      /\ buffers' = Put(buffers, L, Rest(Buffer(L), m))
  BY DEF Draw, Pooled, Enough
<1>2. m \in 0..Len(Buffer(L))
  BY <1>1
<1>3. Len(Rest(Buffer(L), m)) = Len(Buffer(L)) - m
  BY <1>1, <1>2, RestFacts
<1> QED
  BY <1>1, <1>3, BufferPut

\* What a refill adds to the buffers.
LEMMA RefillAdds ==
  ASSUME Underway, Pooled, NEW L \in Nat, NEW m, Refill(L, m)
  PROVE  /\ circuit.mode = "rg"
         /\ Len(Buffer(L)) \in Nat /\ ~ (Len(Buffer(L)) >= m)
         /\ Len(Buffer(L)') = Len(Buffer(L)) + q
         /\ \A M : M # L => Buffer(M)' = Buffer(M)
<1>1. circuit.mode = "rg" /\ ~ (Len(Buffer(L)) >= m)
  BY CircuitTypes DEF Refill, Enough
<1>2. PICK new : new = [i \in 1..q |-> <<L, made, i>>]
  OBVIOUS
<1>3. Buffer(L) \in Seq({L} \X Nat \X Nat) /\ new \in Seq({L} \X Nat \X Nat) /\ Len(new) = q
  BY <1>1, <1>2, ThresholdFacts DEF Pooled
<1>4. buffers' = Put(buffers, L, Buffer(L) \o new)
  BY <1>2 DEF Refill
<1>5. Len(Buffer(L) \o new) = Len(Buffer(L)) + q /\ Len(Buffer(L)) \in Nat
  <2>1. PICK X : X = {L} \X Nat \X Nat
    OBVIOUS
  <2>2. Buffer(L) \in Seq(X) /\ new \in Seq(X)
    BY <1>3, <2>1
  <2>3. Len(Buffer(L) \o new) = Len(Buffer(L)) + Len(new)
    BY <2>2, Concatenation
  <2> QED
    BY <1>3, <2>3
<1> QED
  BY <1>1, <1>4, <1>5, BufferPut

\* The moves are counted.
LEMMA MovesFinite ==
  ASSUME Underway, Layered, Evaluating, NEW s
  PROVE  /\ IsFiniteSet(Moves(s)) /\ IsFiniteSet(Refills(s))
         /\ Cardinality(Moves(s)) \in Nat /\ Cardinality(Refills(s)) \in Nat
<1>1. IsFiniteSet(Moves(s))
  <2>1. CASE Moving
    <3>1. Binary
      BY <2>1 DEF Moving, Evaluating, Binary, Underway
    <3>2. Target \in Nat
      BY <3>1, TargetFacts DEF VssOutputLayer
    <3>3. IsFiniteSet({current.in1, current.in2}) /\ IsFiniteSet(0..Target)
      <4>1. IsFiniteSet(0..Target)
        BY <3>2, FS_Interval
      <4>2. IsFiniteSet({current.in1}) /\ IsFiniteSet({current.in2})
        BY FS_Singleton
      <4>3. {current.in1, current.in2} = {current.in1} \union {current.in2}
        OBVIOUS
      <4>4. IsFiniteSet({current.in1} \union {current.in2})
        BY <4>2, FS_Union
      <4> QED
        BY <4>1, <4>3, <4>4
    <3>4. IsFiniteSet({current.in1, current.in2} \X (0..Target))
      BY <3>3, FS_Product
    <3> QED
      BY <2>1, <3>4, FS_Subset DEF Moves
  <2>2. CASE ~ Moving
    BY <2>2, FS_EmptySet DEF Moves
  <2> QED
    BY <2>1, <2>2
<1>2. IsFiniteSet(Refills(s))
  BY <1>1, FS_Subset DEF Refills
<1> QED
  BY <1>1, <1>2, FS_CardinalityType

\* What should be in the pool is a number of sharings.
LEMMA LeftTypes ==
  ASSUME NEW s, s.left \in [LayersOf(circuit) -> Nat], NEW L \in LayersOf(circuit)
  PROVE  LeftAt(s, L) \in Nat
BY RoundsFacts, ThresholdFacts DEF LeftAt

\* A gate draws from one layer at a time.
LEMMA DrawingOne ==
  ASSUME Underway, Layered, Binary, NEW P, Drawing(P)
  PROVE  P \in LayersOf(circuit) /\ \A R : Drawing(R) => R = P
<1>1. /\ Target \in VssOutputLayer..Bound
      /\ wires[current.in1] \in VssOutputLayer..Target
      /\ wires[current.in2] \in VssOutputLayer..Target
      /\ wires[current.in1] = Target \/ wires[current.in2] = Target
  BY TargetFacts
<1>2. pos \in Nat /\ pos <= Len(circuit.gates) + 1 /\ Len(circuit.gates) \in Nat
  BY CircuitTypes DEF Underway
<1>3. \A L \in VssOutputLayer..Target : L \in LayersOf(circuit)
  BY <1>1, <1>2 DEF LayersOf, Bound, VssOutputLayer
<1>4. Target \in VssOutputLayer..Target
  BY <1>1 DEF VssOutputLayer
<1> QED
  BY <1>1, <1>3, <1>4 DEF Drawing, Low

\* A refill is a round of the account that is still to be drawn.
LEMMA RefillAccount ==
  ASSUME Underway, Layered, Pooled, Refilling, NEW s, InAccount(s)
  PROVE  InAccount(s)'
<1>1. PICK L \in Nat : Drawing(L) /\ Refill(L, Need)
  BY DEF Refilling
<1>2. Binary /\ Moving
  BY DEF Refilling, Binary, Moving
<1>3. UNCHANGED <<circuit, pc, pos, wires>> /\ calls' = [calls EXCEPT !["rg"] = @ + 1]
  BY <1>1 DEF Refill
<1>4. /\ circuit.mode = "rg" /\ Len(Buffer(L)) \in Nat /\ ~ (Len(Buffer(L)) >= Need)
      /\ Len(Buffer(L)') = Len(Buffer(L)) + q
      /\ \A M : M # L => Buffer(M)' = Buffer(M)
  BY <1>1, RefillAdds
<1>5. L \in LayersOf(circuit) /\ \A P : Drawing(P) => P = L
  BY <1>1, <1>2, DrawingOne
<1>6. current' = current /\ Target' = Target /\ Low' = Low
  BY <1>3 DEF current, Target, Low
<1>7. Moving' = Moving /\ Moves(s)' = Moves(s) /\ Need' = Need
  BY <1>3, <1>6 DEF Moving, Moves, Need
<1>8. Refills(s)' = Refills(s)
  BY <1>7 DEF Refills
<1>9. /\ Rounded(s)' = Rounded(s)
      /\ \A M : LeftAt(s, M)' = LeftAt(s, M)
      /\ WiresFrom(s)'
  BY <1>3, <1>6, <1>7, <1>8 DEF Rounded, LeftAt, InAccount, WiresFrom
<1>10. Drawing(L)'
  BY <1>1, <1>3, <1>6 DEF Drawing
<1>11. Need \in Nat /\ Need <= q /\ q \in Nat
  BY ThresholdFacts DEF Need
<1>12. LeftAt(s, L) \in Nat
  BY <1>5, LeftTypes DEF InAccount
<1>13. Settled(s)
  <2>1. ~ Prepaid(s)
    <3> SUFFICES ASSUME Prepaid(s)
                 PROVE  FALSE
      OBVIOUS
    <3>1. Len(Buffer(L)) = LeftAt(s, L) + q
      BY <1>5 DEF Prepaid
    <3> QED
      BY <1>4, <1>11, <1>12, <3>1
  <2> QED
    BY <1>4, <2>1 DEF InAccount
<1>14. calls'["rg"] = s.rg + Rounded(s) + 1
  BY <1>3, <1>13 DEF Settled, InAccount
<1>15. LeftAt(s, L) < Need
  BY <1>4, <1>5, <1>11, <1>13 DEF Settled
<1>16. \A M \in LayersOf(circuit) :
          Len(Buffer(M)') = IF M = L THEN LeftAt(s, M) + q ELSE LeftAt(s, M)
  BY <1>4, <1>13 DEF Settled
<1>17. Prepaid(s)'
  BY <1>2, <1>3, <1>5, <1>7, <1>9, <1>10, <1>14, <1>15, <1>16 DEF Prepaid
<1>18. /\ calls' \in [{"vss", "rg", "rs", "mul"} -> Nat]
       /\ \A p \in {"vss", "rs", "mul"} : calls'[p] = calls[p]
  BY <1>3 DEF InAccount
<1> QED
  BY <1>3, <1>4, <1>7, <1>9, <1>17, <1>18 DEF InAccount

\* No operand of a multiplication moves from its layer.
LEMMA MulLevel ==
  ASSUME Underway, Layered, Binary, Low = {}, NEW s, InAccount(s)
  PROVE  /\ Target \in Nat /\ Target \in LayersOf(circuit)
         /\ \A x \in Moves(s) : x[2] # Target
<1>1. /\ Target \in VssOutputLayer..Bound
      /\ wires[current.in1] = Target /\ wires[current.in2] = Target
  BY TargetFacts
<1>2. pos \in Nat /\ pos <= Len(circuit.gates) + 1 /\ Len(circuit.gates) \in Nat
  BY CircuitTypes DEF Underway
<1> QED
  BY <1>1, <1>2 DEF LayersOf, Bound, VssOutputLayer, Moves

\* What a draw at the layer of the gate leaves, and the rounds for it.
LEMMA DrawAccount ==
  ASSUME Underway, Layered, Pooled, Binary, circuit.mode = "rg", NEW s, InAccount(s),
         NEW L \in Nat, Drawing(L), NEW call, NEW m, m = Need, Draw(L, call, m)
  PROVE  /\ calls["rg"] = s.rg + Rounded(s) + Rounds(LeftAt(s, L), m)
         /\ Len(Buffer(L)') = Remains(LeftAt(s, L), m)
         /\ \A M \in LayersOf(circuit) : M # L => Len(Buffer(M)') = LeftAt(s, M)
<1>1. L \in LayersOf(circuit) /\ \A P : Drawing(P) => P = L
  BY DrawingOne
<1>2. m \in Nat /\ m <= q /\ q \in Nat /\ LeftAt(s, L) \in Nat
  BY <1>1, ThresholdFacts, LeftTypes DEF Need, InAccount
<1>3. /\ Len(Buffer(L)) \in Nat /\ Len(Buffer(L)) >= m
      /\ Len(Buffer(L)') = Len(Buffer(L)) - m
      /\ \A M : M # L => Buffer(M)' = Buffer(M)
  BY <1>2, DrawLeaves
<1>4. /\ Rounds(LeftAt(s, L), m) = IF LeftAt(s, L) >= m THEN 0 ELSE 1
      /\ Remains(LeftAt(s, L), m) = IF LeftAt(s, L) >= m THEN LeftAt(s, L) - m
                                    ELSE LeftAt(s, L) + q - m
  BY <1>2, RoundsFacts
<1>5. s.rg \in Nat /\ calls["rg"] \in Nat
  BY DEF InAccount
<1>6. Rounded(s) \in Nat
  <2>1. Cardinality(Refills(s)) \in Nat
    BY MovesFinite DEF Evaluating, Binary
  <2>2. pc = "masked" => Rounds(s.left[Target], 3 * t + 1) \in Nat
    <3>1. pc = "masked" => s.left[Target] \in Nat
      BY MulLevel DEF InAccount, Underway
    <3>2. PICK k \in Nat : k = 3 * t + 1 /\ k <= q
      BY ThresholdFacts
    <3>3. \A left \in Nat : Rounds(left, k) \in Nat
      BY <3>2, RoundsFacts
    <3> QED
      BY <3>1, <3>2, <3>3
  <2> QED
    BY <2>1, <2>2 DEF Rounded
<1>7. CASE Settled(s)
  <2>1. Len(Buffer(L)) = LeftAt(s, L) /\ calls["rg"] = s.rg + Rounded(s)
    BY <1>1, <1>7 DEF Settled
  <2>2. \A M \in LayersOf(circuit) : M # L => Len(Buffer(M)') = LeftAt(s, M)
    BY <1>3, <1>7 DEF Settled
  <2> QED
    BY <1>2, <1>3, <1>4, <1>5, <1>6, <2>1, <2>2
<1>8. CASE Prepaid(s)
  <2>1. /\ Len(Buffer(L)) = LeftAt(s, L) + q /\ calls["rg"] = s.rg + Rounded(s) + 1
        /\ LeftAt(s, L) < m
    BY <1>1, <1>8 DEF Prepaid
  <2>2. \A M \in LayersOf(circuit) : M # L => Len(Buffer(M)') = LeftAt(s, M)
    BY <1>1, <1>3, <1>8 DEF Prepaid
  <2> QED
    BY <1>2, <1>3, <1>4, <1>5, <1>6, <2>1, <2>2
<1> QED
  BY <1>7, <1>8 DEF InAccount

\* A step of an alignment is one move of the account.
LEMMA AlignAccount ==
  ASSUME Underway, Layered, Pooled, Binary, NEW w \in Low, Align(w), NEW s, InAccount(s)
  PROVE  InAccount(s)'
<1>1. /\ circuit' = circuit /\ pc' = pc /\ pos' = pos /\ current' = current /\ Target' = Target
      /\ w \in DOMAIN wires /\ wires' = [wires EXCEPT ![w] = @ + 1]
  BY AlignFacts
<1>2. pc = "gates" /\ Low # {} /\ Moving /\ Moving'
  BY <1>1 DEF Binary, Underway, Moving
<1>3. PICK L \in Nat :
        L = wires[w] /\ L \in LayersOf(circuit) /\ L < Target /\ L \in 0..Target
  <2>1. wires[w] \in VssOutputLayer..(Target - 1) /\ Target \in VssOutputLayer..Bound
    BY TargetFacts
  <2>2. pos \in Nat /\ pos <= Len(circuit.gates) + 1 /\ Len(circuit.gates) \in Nat
    BY CircuitTypes DEF Underway
  <2> QED
    BY <2>1, <2>2 DEF LayersOf, Bound, VssOutputLayer
<1>4. /\ w \in {current.in1, current.in2} /\ Target \in Nat
      /\ \A v \in {current.in1, current.in2} :
           v # w => v \in DOMAIN wires /\ wires[v] = Target /\ s.wires[v] = Target
      /\ \A v \in DOMAIN wires : s.wires[v] \in Nat /\ s.wires[v] <= wires[v] /\ wires[v] \in Nat
  <2>1. \A v \in DOMAIN wires : s.wires[v] \in Nat /\ s.wires[v] <= wires[v] /\ wires[v] \in Nat
    BY DEF InAccount, WiresFrom, Layered, Evaluating, Binary, VssOutputLayer
  <2>2. Target = Larger(s.wires[current.in1], s.wires[current.in2])
    BY <1>2 DEF InAccount, WiresFrom
  <2>3. /\ current.in1 \in DOMAIN wires /\ current.in2 \in DOMAIN wires /\ Target \in Nat
        /\ w \in {current.in1, current.in2}
        /\ wires[current.in1] = Target \/ wires[current.in2] = Target
    BY TargetFacts DEF VssOutputLayer
  <2>4. s.wires[w] < Target
    BY <1>1, <1>3, <2>1, <2>3
  <2> QED
    BY <1>3, <2>1, <2>2, <2>3, <2>4 DEF Larger
<1>5. /\ Moves(s)' = Moves(s) \union {<<w, L>>}
      /\ \A x \in Moves(s) : x[2] # L
  <2>1. Moves(s) = {x \in {current.in1, current.in2} \X (0..Target) :
                      s.wires[x[1]] <= x[2] /\ x[2] < wires[x[1]]}
    BY <1>2 DEF Moves
  <2>2. Moves(s)' = {x \in {current.in1, current.in2} \X (0..Target) :
                      s.wires[x[1]] <= x[2] /\ x[2] < wires'[x[1]]}
    BY <1>1, <1>2 DEF Moves
  <2>3. wires'[w] = L + 1 /\ \A v \in {current.in1, current.in2} : v # w => wires'[v] = wires[v]
    BY <1>1, <1>3, <1>4
  <2>4. ASSUME NEW x \in Moves(s)
        PROVE  x \in Moves(s)' /\ x[2] # L
    BY <1>1, <1>3, <1>4, <2>1, <2>2, <2>3
  <2>5. <<w, L>> \in Moves(s)'
    BY <1>1, <1>3, <1>4, <2>2, <2>3
  <2>6. ASSUME NEW x \in Moves(s)'
        PROVE  x \in Moves(s) \/ x = <<w, L>>
    BY <1>1, <1>3, <1>4, <2>1, <2>2, <2>3
  <2> QED
    BY <2>4, <2>5, <2>6
<1>6. /\ IsFiniteSet(Moves(s)) /\ IsFiniteSet(Refills(s))
      /\ Cardinality(Moves(s)) \in Nat /\ Cardinality(Refills(s)) \in Nat
  BY <1>2, MovesFinite DEF Evaluating
<1>7. Cardinality(Moves(s)') = Cardinality(Moves(s)) + 1
  BY <1>5, <1>6, FS_AddElement
<1>8. s.left[L] \in Nat /\ t \in Nat /\ t <= q /\ q \in Nat
  BY <1>3, ThresholdFacts DEF InAccount
<1>9. /\ Rounds(s.left[L], t) = IF s.left[L] >= t THEN 0 ELSE 1
      /\ Remains(s.left[L], t) = IF s.left[L] >= t THEN s.left[L] - t ELSE s.left[L] + q - t
  BY <1>8, RoundsFacts
<1>10. Cardinality(Refills(s)') = Cardinality(Refills(s)) + Rounds(s.left[L], t)
  <2>1. Refills(s)' = {x \in Moves(s)' : Rounds(s.left[x[2]], t) > 0}
    BY DEF Refills
  <2>2. CASE s.left[L] >= t
    <3>1. Refills(s)' = Refills(s)
      BY <1>5, <1>9, <2>1, <2>2 DEF Refills
    <3> QED
      BY <1>6, <1>9, <2>2, <3>1
  <2>3. CASE ~ (s.left[L] >= t)
    <3>1. Refills(s)' = Refills(s) \union {<<w, L>>} /\ <<w, L>> \notin Refills(s)
      BY <1>5, <1>9, <2>1, <2>3 DEF Refills
    <3> QED
      BY <1>6, <1>9, <2>3, <3>1, FS_AddElement
  <2> QED
    BY <2>2, <2>3
<1>11. /\ LeftAt(s, L) = s.left[L] /\ LeftAt(s, L)' = Remains(s.left[L], t)
       /\ \A M : M # L => LeftAt(s, M)' = LeftAt(s, M)
  <2>1. pc # "masked" /\ pc' # "masked"
    BY <1>1, <1>2
  <2>2. LeftAt(s, L) = s.left[L]
    BY <1>5, <2>1 DEF LeftAt
  <2>3. \E x \in Moves(s)' : x[2] = L
    <3>1. <<w, L>> \in Moves(s)'
      BY <1>5
    <3> QED
      BY <3>1
  <2>4. LeftAt(s, L)' = Remains(s.left[L], t)
    BY <2>3 DEF LeftAt
  <2>5. ASSUME NEW M, M # L
        PROVE  LeftAt(s, M)' = LeftAt(s, M)
    <3>1. (\E x \in Moves(s)' : x[2] = M) <=> (\E x \in Moves(s) : x[2] = M)
      BY <1>5, <2>5
    <3> QED
      BY <2>1, <3>1 DEF LeftAt
  <2> QED
    BY <2>2, <2>4, <2>5
<1>12. /\ calls' = [calls EXCEPT !["rs"] = @ + 1] /\ Draw(L, <<"rs", w>>, t)
  BY <1>3 DEF Align
<1>13. WiresFrom(s)'
  BY <1>1, <1>2, <1>3, <1>4 DEF InAccount, WiresFrom, VssOutputLayer
<1>14. ASSUME circuit.mode = "rg"
       PROVE  Settled(s)'
  <2>1. Drawing(L) /\ t = Need
    BY <1>2, <1>3 DEF Drawing, Need
  <2>2. /\ calls["rg"] = s.rg + Rounded(s) + Rounds(s.left[L], t)
        /\ Len(Buffer(L)') = Remains(s.left[L], t)
        /\ \A M \in LayersOf(circuit) : M # L => Len(Buffer(M)') = LeftAt(s, M)
    BY <1>11, <1>12, <1>14, <2>1, DrawAccount
  <2>3. /\ Rounded(s) = Cardinality(Refills(s))
        /\ Rounded(s)' = Cardinality(Refills(s)) + Rounds(s.left[L], t)
    BY <1>1, <1>2, <1>6, <1>9, <1>10 DEF Rounded
  <2>4. calls'["rg"] = calls["rg"] /\ calls["rg"] \in Nat /\ s.rg \in Nat
    BY <1>12 DEF InAccount
  <2>5. calls'["rg"] = s.rg + Rounded(s)'
    BY <1>6, <1>9, <2>2, <2>3, <2>4
  <2>6. \A M \in LayersOf(circuit) : Len(Buffer(M)') = LeftAt(s, M)'
    BY <1>11, <2>2
  <2> QED
    BY <1>1, <2>5, <2>6 DEF Settled
<1> QED
  BY <1>1, <1>6, <1>7, <1>12, <1>13, <1>14 DEF InAccount

\* The masks of a multiplication are its first draw.
LEMMA MaskAccount ==
  ASSUME Underway, Layered, Pooled, Masking, NEW s, InAccount(s)
  PROVE  InAccount(s)'
<1>1. /\ Binary /\ Low = {} /\ current.op = "mul" /\ pc = "gates" /\ pc' = "masked" /\ Moving
      /\ UNCHANGED <<circuit, pos, wires, calls>>
  BY DEF Masking, DrawMasks, Binary, Moving
<1>2. current' = current /\ Target' = Target
  BY <1>1 DEF current, Target
<1>3. Moving' = Moving /\ Moves(s)' = Moves(s)
  BY <1>1, <1>2 DEF Moving, Moves
<1>4. Refills(s)' = Refills(s) /\ WiresFrom(s)'
  BY <1>1, <1>2, <1>3 DEF Refills, InAccount, WiresFrom
<1>5. PICK L \in Nat, m \in Nat : L = Target /\ m = 3 * t + 1 /\ m <= q
  BY <1>1, MulLevel, ThresholdFacts
<1>6. L \in LayersOf(circuit) /\ \A x \in Moves(s) : x[2] # L
  BY <1>1, <1>5, MulLevel
<1>7. /\ LeftAt(s, L) = s.left[L] /\ LeftAt(s, L)' = Remains(s.left[L], m)
      /\ \A M : M # L => LeftAt(s, M)' = LeftAt(s, M)
  BY <1>1, <1>2, <1>3, <1>5, <1>6 DEF LeftAt
<1>8. ASSUME circuit.mode = "rg"
      PROVE  Settled(s)'
  <2>1. Drawing(L) /\ m = Need /\ Draw(L, <<"mul", current.gid>>, m)
    BY <1>1, <1>5 DEF Masking, DrawMasks, Drawing, Need
  <2>2. PICK call : call = <<"mul", current.gid>>
    OBVIOUS
  <2>3. /\ calls["rg"] = s.rg + Rounded(s) + Rounds(s.left[L], m)
        /\ Len(Buffer(L)') = Remains(s.left[L], m)
        /\ \A M \in LayersOf(circuit) : M # L => Len(Buffer(M)') = LeftAt(s, M)
    BY <1>1, <1>7, <1>8, <2>1, <2>2, DrawAccount
  <2>4. /\ Rounded(s) = Cardinality(Refills(s)) + 0
        /\ Rounded(s)' = Cardinality(Refills(s)) + Rounds(s.left[L], m)
    BY <1>1, <1>2, <1>4, <1>5 DEF Rounded
  <2>5. /\ Cardinality(Refills(s)) \in Nat /\ s.rg \in Nat
        /\ Rounds(s.left[L], m) \in Nat
    <3>1. s.left[L] \in Nat
      BY <1>6 DEF InAccount
    <3>2. Rounds(s.left[L], m) \in Nat
      BY <1>5, <3>1, RoundsFacts
    <3> QED
      BY <1>1, <3>2, MovesFinite DEF Evaluating, InAccount
  <2>6. calls'["rg"] = s.rg + Rounded(s)'
    BY <1>1, <2>3, <2>4, <2>5
  <2>7. \A M \in LayersOf(circuit) : Len(Buffer(M)') = LeftAt(s, M)'
    BY <1>7, <2>3
  <2> QED
    BY <1>1, <2>6, <2>7 DEF Settled
<1> QED
  BY <1>1, <1>3, <1>4, <1>8 DEF InAccount

\* The operands of the gate in progress are wires.
LEMMA OperandsThere ==
  Underway /\ Layered /\ Evaluating /\ Moving
    => current.in1 \in DOMAIN wires /\ current.in2 \in DOMAIN wires
BY GateFacts DEF Moving, Evaluating, Underway

\* An account that agrees with the evaluation between two gates.
Balanced(r) ==
  /\ calls \in [{"vss", "rg", "rs", "mul"} -> Nat]
  /\ r.left \in [LayersOf(circuit) -> Nat]
  /\ r.rg \in Nat /\ r.rs \in Nat /\ r.mul \in Nat
  /\ DOMAIN r.wires = DOMAIN wires
  /\ \A w \in DOMAIN wires : r.wires[w] = wires[w]
  /\ calls["vss"] = Cardinality(InputsOf(circuit))
  /\ calls["mul"] = r.mul /\ calls["rs"] = r.rs /\ calls["rg"] = r.rg
  /\ circuit.mode = "rg" => \A L \in LayersOf(circuit) : Len(Buffer(L)) = r.left[L]

Books ==
  \A r : Underway /\ Layered /\ pc \in {"gates", "done"} /\ Balanced(r) => InAccount(r)

\* An account that balances between two gates is the one for the next gate.
LEMMA Booked == Books
<1> SUFFICES ASSUME NEW r, Underway, Layered, pc \in {"gates", "done"}, Balanced(r)
             PROVE  InAccount(r)
  BY DEF Books
<1>1. /\ Moving => current.in1 \in DOMAIN wires /\ current.in2 \in DOMAIN wires
      /\ \A w \in DOMAIN wires : wires[w] \in Nat /\ wires[w] \in VssOutputLayer..wires[w]
  BY OperandsThere DEF Evaluating, Layered, VssOutputLayer
<1>2. Moves(r) = {}
  <2> SUFFICES ASSUME NEW x \in Moves(r)
               PROVE  FALSE
    OBVIOUS
  <2>1. /\ x[1] \in DOMAIN wires /\ x[2] \in Nat
        /\ r.wires[x[1]] <= x[2] /\ x[2] < wires[x[1]]
    BY <1>1 DEF Moves
  <2> QED
    BY <1>1, <2>1 DEF Balanced
<1>3. Rounded(r) = 0
  <2>1. Refills(r) = {}
    BY <1>2 DEF Refills
  <2> QED
    BY <2>1, FS_EmptySet DEF Rounded
<1>4. \A L : LeftAt(r, L) = r.left[L]
  BY <1>2 DEF LeftAt
<1>5. WiresFrom(r)
  BY <1>1 DEF Balanced, WiresFrom, Target
<1>6. circuit.mode = "rg" => Settled(r)
  BY <1>3, <1>4 DEF Balanced, Settled
<1>7. calls["rs"] = r.rs + Cardinality(Moves(r))
  BY <1>2, FS_EmptySet DEF Balanced
<1> QED
  BY <1>5, <1>6, <1>7 DEF Balanced, InAccount

\* The same, after a step.
LEMMA BookedNext ==
  ASSUME Underway', Layered', pc' \in {"gates", "done"}, NEW r, Balanced(r)'
  PROVE  InAccount(r)'
<1>1. Books'
  BY Booked, PTL
<1> QED
  BY <1>1 DEF Books

\* The account of the gate in progress.
LEMMA AccountOfGate ==
  ASSUME Underway, Layered, pc \in {"gates", "masked"}, pos <= Len(circuit.gates)
  PROVE  Account(circuit)[pos] = AccountGate(circuit, current, Account(circuit)[pos - 1])
<1>1. pos \in 1..Len(circuit.gates) /\ Len(circuit.gates) \in Nat
  BY GateFacts, CircuitTypes
<1> QED
  BY <1>1, AccountUnfolds DEF current

\* A gate that does not move its operands changes neither pool nor calls.
LEMMA UnmovedBalanced ==
  ASSUME Underway, Layered, pc \in {"gates", "masked", "done"}, ~ Moving,
         pc # "masked", NEW s, InAccount(s)
  PROVE  Balanced(s)
<1>1. Moves(s) = {} /\ Refills(s) = {}
  BY DEF Moves, Refills
<1>2. /\ Rounded(s) = 0 /\ Cardinality(Moves(s)) = 0
      /\ \A L : LeftAt(s, L) = s.left[L]
  BY <1>1, FS_EmptySet DEF Rounded, LeftAt
<1>3. circuit.mode = "rg" => Settled(s)
  BY DEF InAccount, Prepaid
<1> QED
  BY <1>2, <1>3 DEF InAccount, WiresFrom, Balanced, Settled

\* The operands moved, as the account moves them.
LEMMA AlignedFacts ==
  ASSUME Underway, Layered, Binary, Low = {}, NEW s, InAccount(s), NEW a,
         a = Aligned(circuit, s, current, Target)
  PROVE  /\ a.rg = IF circuit.mode = "rg" THEN s.rg + Cardinality(Refills(s)) ELSE s.rg
         /\ a.rs = calls["rs"] /\ a.mul = calls["mul"]
         /\ a.rg \in Nat /\ a.rs \in Nat /\ a.mul \in Nat
         /\ DOMAIN a.wires = DOMAIN wires /\ \A w \in DOMAIN wires : a.wires[w] = wires[w]
         /\ a.left \in [LayersOf(circuit) -> Nat]
         /\ \A L \in LayersOf(circuit) :
              a.left[L] = IF \E x \in Moves(s) : x[2] = L THEN Remains(s.left[L], t) ELSE s.left[L]
<1>1. wires[current.in1] = Target /\ wires[current.in2] = Target /\ Moving
  BY TargetFacts DEF Binary, Moving
<1>2. Moved(s, current, Target) = Moves(s)
  BY <1>1 DEF Moved, Moves
<1>3. Cardinality(Moves(s)) \in Nat /\ Cardinality(Refills(s)) \in Nat
  BY MovesFinite DEF Binary, Evaluating
<1>4. /\ a.rg = IF circuit.mode = "rg" THEN s.rg + Cardinality(Refills(s)) ELSE s.rg
      /\ a.rs = s.rs + Cardinality(Moves(s)) /\ a.mul = s.mul
  BY <1>2 DEF Aligned, Refills
<1>5. DOMAIN a.wires = DOMAIN wires /\ \A w \in DOMAIN wires : a.wires[w] = wires[w]
  BY <1>1 DEF Aligned, InAccount, WiresFrom
<1>6. a.left = [L \in LayersOf(circuit) |->
                  IF \E x \in Moves(s) : x[2] = L THEN Remains(s.left[L], t) ELSE s.left[L]]
  BY <1>2 DEF Aligned
<1>7. a.left \in [LayersOf(circuit) -> Nat]
  <2>1. \A L \in LayersOf(circuit) : s.left[L] \in Nat
    BY DEF InAccount
  <2>2. \A left \in Nat : Remains(left, t) \in Nat
    BY RoundsFacts, ThresholdFacts
  <2> QED
    BY <1>6, <2>1, <2>2
<1> QED
  BY <1>3, <1>4, <1>5, <1>6, <1>7 DEF InAccount

\* The account balances after an addition.
LEMMA AddAccount ==
  ASSUME Underway, Layered, Pooled, AddGate, NEW s, InAccount(s), NEW r,
         r = AccountGate(circuit, current, s)
  PROVE  Balanced(r)'
<1>1. /\ Binary /\ Low = {} /\ current.op = "add" /\ pc = "gates"
      /\ UNCHANGED <<circuit, buffers, calls>>
      /\ wires' = Put(wires, current.gid, Target)
  BY DEF AddGate, Binary, Underway, Place
<1>2. Moving /\ Target = Larger(s.wires[current.in1], s.wires[current.in2])
  BY <1>1 DEF Binary, Moving, InAccount, WiresFrom
<1>3. PICK a : a = Aligned(circuit, s, current, Target)
  OBVIOUS
<1>4. r = Output(a, current.gid, Target)
  BY <1>1, <1>2, <1>3 DEF AccountGate
<1>5. /\ r.rg = a.rg /\ r.rs = a.rs /\ r.mul = a.mul /\ r.left = a.left
      /\ r.wires = Put(a.wires, current.gid, Target)
  BY <1>4 DEF Output
<1>6. /\ a.rg = IF circuit.mode = "rg" THEN s.rg + Cardinality(Refills(s)) ELSE s.rg
      /\ a.rs = calls["rs"] /\ a.mul = calls["mul"]
      /\ a.rg \in Nat /\ a.rs \in Nat /\ a.mul \in Nat
      /\ DOMAIN a.wires = DOMAIN wires /\ \A w \in DOMAIN wires : a.wires[w] = wires[w]
      /\ a.left \in [LayersOf(circuit) -> Nat]
      /\ \A L \in LayersOf(circuit) :
           a.left[L] = IF \E x \in Moves(s) : x[2] = L THEN Remains(s.left[L], t) ELSE s.left[L]
  BY <1>1, <1>3, AlignedFacts
<1>7. /\ DOMAIN r.wires = DOMAIN wires' /\ \A w \in DOMAIN wires' : r.wires[w] = wires'[w]
  BY <1>1, <1>5, <1>6 DEF Put
<1>8. ASSUME circuit.mode = "rg"
      PROVE  calls["rg"] = r.rg /\ \A L \in LayersOf(circuit) : Len(Buffer(L)) = r.left[L]
  <2>1. Settled(s)
    BY <1>1, <1>8 DEF InAccount, Prepaid, Drawing
  <2>2. Rounded(s) = Cardinality(Refills(s)) + 0 /\ Cardinality(Refills(s)) \in Nat
    BY <1>1, MovesFinite DEF Rounded, Evaluating
  <2>3. \A L \in LayersOf(circuit) : LeftAt(s, L) = a.left[L]
    BY <1>1, <1>6 DEF LeftAt
  <2> QED
    BY <1>5, <1>6, <1>8, <2>1, <2>2, <2>3 DEF Settled
<1>9. \A L : Buffer(L)' = Buffer(L)
  BY <1>1 DEF Buffer
<1> QED
  BY <1>1, <1>5, <1>6, <1>7, <1>8, <1>9 DEF Balanced, InAccount

\* The account balances after a multiplication.
LEMMA MulAccount ==
  ASSUME Underway, Layered, Pooled, Multiplying, NEW s, InAccount(s), NEW r,
         r = AccountGate(circuit, current, s)
  PROVE  Balanced(r)'
<1>1. /\ Binary /\ Low = {} /\ current.op = "mul" /\ pc = "masked"
      /\ circuit' = circuit /\ calls' = [calls EXCEPT !["mul"] = @ + 1]
      /\ wires' = Put(wires, current.gid, Target + 1)
      /\ Draw(Target, <<"mul_rs", current.gid>>, t)
  BY DEF Multiplying, RunMul, Place
<1>2. Moving /\ Target = Larger(s.wires[current.in1], s.wires[current.in2])
  BY <1>1 DEF Binary, Moving, InAccount, WiresFrom
<1>3. PICK a : a = Aligned(circuit, s, current, Target)
  OBVIOUS
<1>4. PICK L \in Nat, m \in Nat :
        /\ L = Target /\ L \in LayersOf(circuit) /\ \A x \in Moves(s) : x[2] # L
        /\ m = 3 * t + 1 /\ m <= q
  BY <1>1, MulLevel, ThresholdFacts
<1>5. r = Output(Multiplied(circuit, a, L), current.gid, L + 1)
  BY <1>1, <1>2, <1>3, <1>4 DEF AccountGate
<1>6. /\ r.rg = IF circuit.mode = "rg" THEN a.rg + MulRounds(a.left[L]) ELSE a.rg
      /\ r.rs = a.rs /\ r.mul = a.mul + 1
      /\ r.left = [a.left EXCEPT ![L] = Remains(Remains(@, m), t)]
      /\ r.wires = Put(a.wires, current.gid, L + 1)
  BY <1>4, <1>5 DEF Output, Multiplied
<1>7. /\ a.rg = IF circuit.mode = "rg" THEN s.rg + Cardinality(Refills(s)) ELSE s.rg
      /\ a.rs = calls["rs"] /\ a.mul = calls["mul"]
      /\ a.rg \in Nat /\ a.rs \in Nat /\ a.mul \in Nat
      /\ DOMAIN a.wires = DOMAIN wires /\ \A w \in DOMAIN wires : a.wires[w] = wires[w]
      /\ a.left \in [LayersOf(circuit) -> Nat]
      /\ \A M \in LayersOf(circuit) :
           a.left[M] = IF \E x \in Moves(s) : x[2] = M THEN Remains(s.left[M], t) ELSE s.left[M]
  BY <1>1, <1>3, AlignedFacts
<1>8. a.left[L] = s.left[L] /\ a.left[L] \in Nat
  BY <1>4, <1>7
<1>9. /\ Rounds(a.left[L], m) \in Nat /\ Remains(a.left[L], m) \in Nat
      /\ Rounds(Remains(a.left[L], m), t) \in Nat
      /\ Remains(Remains(a.left[L], m), t) \in Nat
  <2>1. Rounds(a.left[L], m) \in Nat /\ Remains(a.left[L], m) \in Nat
    BY <1>4, <1>8, RoundsFacts
  <2>2. PICK left \in Nat : left = Remains(a.left[L], m)
    BY <2>1
  <2>3. Rounds(left, t) \in Nat /\ Remains(left, t) \in Nat
    BY RoundsFacts, ThresholdFacts
  <2> QED
    BY <2>1, <2>2, <2>3
<1>10. MulRounds(a.left[L]) = Rounds(a.left[L], m) + Rounds(Remains(a.left[L], m), t)
  BY <1>4 DEF MulRounds
<1>11. /\ DOMAIN r.wires = DOMAIN wires' /\ \A w \in DOMAIN wires' : r.wires[w] = wires'[w]
  BY <1>1, <1>4, <1>6, <1>7 DEF Put
<1>12. ASSUME circuit.mode = "rg"
       PROVE  calls["rg"] = r.rg /\ \A M \in LayersOf(circuit) : Len(Buffer(M)') = r.left[M]
  <2>1. LeftAt(s, L) = Remains(a.left[L], m)
    BY <1>1, <1>4, <1>8 DEF LeftAt
  <2>2. \A M \in LayersOf(circuit) : M # L => LeftAt(s, M) = a.left[M]
    BY <1>4, <1>7 DEF LeftAt
  <2>3. Drawing(L) /\ t = Need
    BY <1>1, <1>4 DEF Drawing, Need
  <2>4. PICK call : call = <<"mul_rs", current.gid>>
    OBVIOUS
  <2>5. /\ calls["rg"] = s.rg + Rounded(s) + Rounds(LeftAt(s, L), t)
        /\ Len(Buffer(L)') = Remains(LeftAt(s, L), t)
        /\ \A M \in LayersOf(circuit) : M # L => Len(Buffer(M)') = LeftAt(s, M)
    BY <1>1, <1>4, <1>12, <2>3, <2>4, DrawAccount
  <2>6. Rounded(s) = Cardinality(Refills(s)) + Rounds(a.left[L], m) /\ Cardinality(Refills(s)) \in Nat
    BY <1>1, <1>4, <1>8, MovesFinite DEF Rounded, Evaluating
  <2>7. calls["rg"] = r.rg
    <3>1. r.rg = s.rg + Cardinality(Refills(s)) + MulRounds(a.left[L])
      BY <1>6, <1>7, <1>12
    <3>2. calls["rg"] = s.rg + (Cardinality(Refills(s)) + Rounds(a.left[L], m))
                          + Rounds(Remains(a.left[L], m), t)
      BY <2>1, <2>5, <2>6
    <3> QED
      BY <1>9, <1>10, <2>6, <3>1, <3>2 DEF InAccount
  <2>8. \A M \in LayersOf(circuit) : Len(Buffer(M)') = r.left[M]
    BY <1>4, <1>6, <1>7, <2>1, <2>2, <2>5
  <2> QED
    BY <2>7, <2>8
<1>13. r.left \in [LayersOf(circuit) -> Nat] /\ r.rg \in Nat /\ r.rs \in Nat /\ r.mul \in Nat
  <2>1. r.left \in [LayersOf(circuit) -> Nat]
    <3>1. PICK v \in Nat : v = Remains(Remains(a.left[L], m), t)
      BY <1>9
    <3>2. r.left = [a.left EXCEPT ![L] = v]
      BY <1>6, <3>1
    <3>3. a.left \in [LayersOf(circuit) -> Nat]
      BY <1>7
    <3> QED
      BY <3>2, <3>3
  <2>2. MulRounds(a.left[L]) \in Nat
    BY <1>9, <1>10
  <2> QED
    BY <1>6, <1>7, <2>1, <2>2
<1>14. /\ calls' \in [{"vss", "rg", "rs", "mul"} -> Nat] /\ calls'["mul"] = calls["mul"] + 1
       /\ \A p \in {"vss", "rg", "rs"} : calls'[p] = calls[p]
  BY <1>1 DEF InAccount
<1>15. calls["rg"] = r.rg
  BY <1>4, <1>6, <1>7, <1>12, CircuitTypes DEF InAccount
<1> QED
  BY <1>1, <1>6, <1>7, <1>11, <1>12, <1>13, <1>14, <1>15 DEF Balanced, InAccount

Uncalled == pc = "start" => calls = [p \in {"vss", "rg", "rs", "mul"} |-> 0]

\* No step is made that the account leaves out.
LEMMA AccountNext ==
  ASSUME Underway, Layered, Pooled, Accounted, Uncalled, [CircuitNext]_circuitVars
  PROVE  Accounted'
<1>0. /\ pos \in Nat \ {0} /\ Len(circuit.gates) \in Nat
      /\ Underway' /\ Layered'
  BY CircuitTypes, ProgressNext
<1>1. CASE Reject
  BY <1>1 DEF Reject, Accounted, Evaluating
<1>2. CASE ShareInputs
  <2>1. PICK r : r = Opening(circuit)
    OBVIOUS
  <2>2. /\ pc = "start" /\ pc' = "gates" /\ pos' - 1 = 0
        /\ circuit' = circuit /\ buffers' = <<>>
        /\ wires' = [w \in InputsOf(circuit) |-> VssOutputLayer]
        /\ calls' = [calls EXCEPT !["vss"] = Cardinality(InputsOf(circuit))]
    BY <1>2 DEF ShareInputs, Underway
  <2>3. Cardinality(InputsOf(circuit)) \in Nat
    <3>1. circuit.inputs \in Seq(STRING)
      BY CircuitAssumption DEF Underway
    <3>2. Len(circuit.inputs) \in Nat /\ DOMAIN circuit.inputs = 1..Len(circuit.inputs)
      BY <3>1
    <3>3. IsFiniteSet(1..Len(circuit.inputs))
      BY <3>2, FS_Interval
    <3>4. circuit.inputs \in Surjection(1..Len(circuit.inputs), InputsOf(circuit))
      BY <3>1, <3>2 DEF InputsOf, Surjection
    <3>5. IsFiniteSet(InputsOf(circuit))
      BY <3>3, <3>4, FS_Surjection
    <3> QED
      BY <3>5, FS_CardinalityType
  <2>4. \A L : Len(Buffer(L)') = 0
    BY <2>2 DEF Buffer
  <2>5. Balanced(r)'
    BY <2>1, <2>2, <2>3, <2>4 DEF Opening, Balanced, LayersOf, Uncalled
  <2>6. Account(circuit)[0] = r
    BY <1>0, <2>1, AccountUnfolds
  <2> QED
    BY <1>0, <2>2, <2>5, <2>6, BookedNext DEF Accounted
<1>3. CASE InputGate \/ CmulGate \/ AddGate \/ Multiplying
  <2>1. /\ pc \in {"gates", "masked"} /\ pos <= Len(circuit.gates) /\ pc' = "gates"
        /\ pos' - 1 = pos /\ circuit' = circuit /\ InAccount(Account(circuit)[pos - 1])
    <3>1. /\ pc \in {"gates", "masked"} /\ pos <= Len(circuit.gates) /\ pc' = "gates"
          /\ pos' = pos + 1 /\ circuit' = circuit
      BY <1>3 DEF InputGate, CmulGate, AddGate, Multiplying, RunMul, Binary, Underway
    <3> QED
      BY <1>0, <3>1 DEF Accounted, Evaluating
  <2>2. PICK s, r : s = Account(circuit)[pos - 1] /\ r = AccountGate(circuit, current, s)
    OBVIOUS
  <2>3. InAccount(s) /\ Account(circuit)[pos] = r
    BY <2>1, <2>2, AccountOfGate
  <2>4. CASE AddGate \/ Multiplying
    BY <1>0, <2>1, <2>2, <2>3, <2>4, AddAccount, MulAccount, BookedNext DEF Accounted
  <2>5. CASE InputGate \/ CmulGate
    <3>1. Balanced(s)
      BY <2>1, <2>3, <2>5, UnmovedBalanced DEF InputGate, CmulGate, Moving
    <3>2. UNCHANGED <<circuit, calls, buffers>> /\ \A L : Buffer(L)' = Buffer(L)
      BY <2>5 DEF InputGate, CmulGate, Buffer
    <3>3. CASE InputGate
      <4>1. r = s /\ wires' = wires
        BY <2>2, <3>3 DEF InputGate, AccountGate
      <4>2. Balanced(r)'
        BY <3>1, <3>2, <4>1 DEF Balanced
      <4> QED
        BY <1>0, <2>1, <2>3, <4>2, BookedNext DEF Accounted
    <3>4. CASE CmulGate
      <4>1. PICK L : L = wires[current.in1]
        OBVIOUS
      <4>2. s.wires[current.in1] = L
        BY <2>1, <3>1, <3>4, <4>1, GateFacts DEF CmulGate, Balanced
      <4>3. r = Output(s, current.gid, L) /\ wires' = Put(wires, current.gid, L)
        BY <2>2, <3>4, <4>1, <4>2 DEF CmulGate, AccountGate, Place
      <4>4. /\ r.rg = s.rg /\ r.rs = s.rs /\ r.mul = s.mul /\ r.left = s.left
            /\ r.wires = Put(s.wires, current.gid, L)
        BY <4>3 DEF Output
      <4>5. DOMAIN r.wires = DOMAIN wires' /\ \A w \in DOMAIN wires' : r.wires[w] = wires'[w]
        BY <3>1, <4>3, <4>4 DEF Put, Balanced
      <4>6. Balanced(r)'
        BY <3>1, <3>2, <4>4, <4>5 DEF Balanced
      <4> QED
        BY <1>0, <2>1, <2>3, <4>6, BookedNext DEF Accounted
    <3> QED
      BY <2>5, <3>3, <3>4
  <2> QED
    BY <1>3, <2>4, <2>5
<1>4. CASE Finish
  <2>1. PICK s : s = Account(circuit)[pos - 1]
    OBVIOUS
  <2>2. /\ pc = "gates" /\ pc' = "done" /\ ~ Moving /\ InAccount(s)
        /\ UNCHANGED <<circuit, pos, wires, calls, buffers>>
    BY <1>0, <1>4, <2>1 DEF Finish, Moving, Accounted, Evaluating
  <2>3. Balanced(s)
    BY <2>2, UnmovedBalanced
  <2>4. Balanced(s)'
    <3>1. \A L : Buffer(L)' = Buffer(L)
      BY <2>2 DEF Buffer
    <3> QED
      BY <2>2, <2>3, <3>1 DEF Balanced
  <2> QED
    BY <1>0, <2>1, <2>2, <2>4, BookedNext DEF Accounted
<1>5. CASE Aligning \/ Refilling \/ Masking
  <2>1. Binary /\ UNCHANGED <<circuit, pos>>
    BY <1>5 DEF Aligning, Align, Refilling, Refill, Masking, DrawMasks
  <2>2. PICK s : s = Account(circuit)[pos - 1]
    OBVIOUS
  <2>3. InAccount(s)
    BY <2>1, <2>2 DEF Accounted, Evaluating, Binary
  <2>4. InAccount(s)'
    BY <1>5, <2>3, AlignAccount, RefillAccount, MaskAccount DEF Aligning
  <2> QED
    BY <2>1, <2>2, <2>4 DEF Accounted
<1>6. CASE UNCHANGED circuitVars
  <2>1. PICK s : s = Account(circuit)[pos - 1]
    OBVIOUS
  <2>2. UNCHANGED <<circuit, pos, pc, wires, buffers, calls>>
    BY <1>6 DEF circuitVars
  <2>3. InAccount(s) => InAccount(s)'
    <3>1. current' = current /\ Target' = Target /\ Low' = Low /\ Moving' = Moving
          /\ Moves(s)' = Moves(s) /\ Refills(s)' = Refills(s) /\ Need' = Need
          /\ \A L : Buffer(L)' = Buffer(L)
      BY <2>2 DEF current, Target, Low, Moving, Moves, Refills, Need, Buffer
    <3>2. Rounded(s)' = Rounded(s) /\ \A L : LeftAt(s, L)' = LeftAt(s, L)
      BY <2>2, <3>1 DEF Rounded, LeftAt
    <3>3. (Settled(s) => Settled(s)') /\ (WiresFrom(s) => WiresFrom(s)')
      BY <2>2, <3>1, <3>2 DEF Settled, WiresFrom
    <3>4. Prepaid(s) => Prepaid(s)'
      BY <2>2, <3>1, <3>2 DEF Prepaid, Drawing
    <3> QED
      BY <2>2, <3>1, <3>3, <3>4 DEF InAccount
  <2> QED
    BY <2>1, <2>2, <2>3 DEF Accounted, Evaluating
<1> QED
  BY StepCases, <1>1, <1>2, <1>3, <1>4, <1>5, <1>6

CostInv == PoolInv /\ Accounted /\ Uncalled

\* The account agrees with the evaluation throughout.
LEMMA CostInvariance == CircuitSpec => []CostInv
<1>1. CircuitInit => CostInv
  BY Opened DEF CostInv, PoolInv, CircuitInit, Accounted, Evaluating, Uncalled
<1>2. ASSUME CostInv, [CircuitNext]_circuitVars
      PROVE  CostInv'
  <2>1. PoolInv'
    BY <1>2, ProgressNext, PoolNext DEF CostInv, PoolInv
  <2>2. Accounted'
    BY <1>2, AccountNext DEF CostInv, PoolInv
  <2>3. pc' = "start" => pc = "start" /\ calls' = calls
    BY <1>2, StepCases
       DEF CostInv, PoolInv, Reject, ShareInputs, InputGate, CmulGate, AddGate, Binary, Finish,
           Aligning, Align, Refilling, Refill, Masking, DrawMasks, Multiplying, RunMul, circuitVars
  <2> QED
    BY <1>2, <2>1, <2>2, <2>3 DEF CostInv, Uncalled
<1> QED
  BY <1>1, <1>2, PTL DEF CircuitSpec

\* The calls of an evaluation are those that mpc_logical_cost adds up from the
\* circuit alone, for every set of circuits, n and t.
THEOREM CostPredicted == CircuitSpec => []CostIsPredicted
<1>1. ASSUME CostInv
      PROVE  CostIsPredicted
  <2> SUFFICES ASSUME pc = "done"
               PROVE  calls = LogicalCost(circuit)
    BY DEF CostIsPredicted
  <2>1. pos - 1 = Len(circuit.gates) /\ ~ Moving
    BY <1>1, CircuitTypes DEF CostInv, PoolInv, Underway, Moving
  <2>2. PICK s : s = Account(circuit)[Len(circuit.gates)]
    OBVIOUS
  <2>3. InAccount(s)
    BY <1>1, <2>1, <2>2 DEF CostInv, Accounted, Evaluating
  <2>4. Balanced(s)
    BY <1>1, <2>1, <2>3, UnmovedBalanced DEF CostInv, PoolInv
  <2>5. LogicalCost(circuit) = [vss |-> Cardinality(InputsOf(circuit)),
                                rg |-> s.rg, rs |-> s.rs, mul |-> s.mul]
    BY <2>2 DEF LogicalCost
  <2> QED
    BY <2>4, <2>5 DEF Balanced
<1> QED
  BY <1>1, CostInvariance, PTL
=============================================================================
