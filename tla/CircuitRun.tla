----------------------------- MODULE CircuitRun -----------------------------
(***************************************************************************)
(* The evaluation of a circuit (protocols/mpc.py, run_cubempc) with its    *)
(* pool of random sharings, and the cost that metrics.py computes from the *)
(* circuit alone.  What a node does depends on the circuit only, and all   *)
(* nodes evaluate the same one with the same code: one is modelled.        *)
(*                                                                         *)
(* A share is represented by the expression it is a share of.  The calls   *)
(* of VSS, RG, RS and MUL do what their own modules promise.               *)
(***************************************************************************)
EXTENDS Naturals, Sequences, FiniteSets

CONSTANTS
  n, t,
  Circuits  \* records [inputs, gates, output, mode]; mode is randomness_mode

ASSUME ThresholdAssumption == n \in Nat /\ t \in Nat /\ n >= 4 * t + 1

\* What the types of Circuit and Gate say; such a circuit need not be valid.
ASSUME CircuitAssumption ==
  \A c \in Circuits :
    /\ c.inputs \in Seq(STRING)
    /\ c.gates \in Seq([gid : STRING, op : STRING, in1 : STRING, in2 : STRING])
    /\ c.output \in STRING
    /\ c.mode \in {"rg", "local"}

VARIABLES
  circuit,  \* the circuit, with the mode
  pc,       \* "start", "gates", "masked" (between the two draws of a mul), ...
  pos,      \* the gate in progress
  wires,    \* wires[w]: the layer of wire w
  values,   \* values[<<L, w>>]: what the share of w in the state of layer L is of
  buffers,  \* buffers[L]: the pool's unused sharings for layer L
  made,     \* sharings generated so far (_rg_counter, _local_counter)
  drawn,    \* which sharing was stored under which key
  calls     \* calls[p]: calls of protocol p

circuitVars == <<circuit, pc, pos, wires, values, buffers, made, drawn, calls>>

None == "None"
q == n - t
VssOutputLayer == 3

InputsOf(c) == {c.inputs[i] : i \in DOMAIN c.inputs}

\* A dictionary f after f[x] = y.
Put(f, x, y) == [z \in DOMAIN f \union {x} |-> IF z = x THEN y ELSE f[z]]

-----------------------------------------------------------------------------
(* validate_circuit (circuits/circuit.py).                                 *)

Defined(c, i) == {c.gates[j].gid : j \in 1..(i - 1)}

ValidGate(c, i) ==
  LET g == c.gates[i] IN
  /\ g.gid \notin Defined(c, i)
  /\ g.op \in {"input", "add", "mul", "cmul"}
  /\ g.op = "input" => g.gid \in InputsOf(c)
  /\ g.op # "input" => {g.in1, g.in2} \ {None} \subseteq Defined(c, i)
  /\ g.op \in {"add", "mul"} => g.in1 # None /\ g.in2 # None
  /\ g.op = "cmul" => g.in1 # None

Valid(c) ==
  /\ c.inputs # <<>>
  /\ \A i, j \in DOMAIN c.inputs : i # j => c.inputs[i] # c.inputs[j]
  /\ \A i \in DOMAIN c.gates : ValidGate(c, i)
  /\ c.output \in Defined(c, Len(c.gates) + 1)

-----------------------------------------------------------------------------
(* The pool.                                                               *)

Buffer(L) == IF L \in DOMAIN buffers THEN buffers[L] ELSE <<>>

\* _consume_values can go on without a refill.
Enough(L, m) == circuit.mode = "local" \/ Len(Buffer(L)) >= m

\* mutant: what was drawn stays in the buffer
Rest_Keep(buffer, m) == buffer

Rest(buffer, m) == SubSeq(buffer, m + 1, Len(buffer))

\* m sharings for layer L, one for each key of the call.
Draw(L, call, m) ==
  LET sharing(i) == IF circuit.mode = "rg" THEN Buffer(L)[i] ELSE <<L, made + i>> IN
  /\ Enough(L, m)
  /\ drawn' = drawn \union {[key |-> <<L, call, i>>, sharing |-> sharing(i)] : i \in 1..m}
  /\ IF circuit.mode = "rg"
       THEN buffers' = Put(buffers, L, Rest(Buffer(L), m)) /\ UNCHANGED made
       ELSE made' = made + m /\ UNCHANGED buffers

-----------------------------------------------------------------------------
(* The gate in progress.                                                   *)

current == circuit.gates[pos]
Binary == pc \in {"gates", "masked"} /\ pos <= Len(circuit.gates) /\ current.op \in {"add", "mul"}
Larger(a, b) == IF a >= b THEN a ELSE b
Target == Larger(wires[current.in1], wires[current.in2])
Low == {w \in {current.in1, current.in2} : wires[w] < Target}

\* read_share: a share that is not in the state of the layer is no operand.
Read(L, w) == IF <<L, w>> \in DOMAIN values THEN values[<<L, w>>] ELSE <<"missing">>

\* mutant: the share goes to the state of the layer below
Place_Here(w, L, expression) ==
  /\ wires' = Put(wires, w, L)
  /\ values' = Put(values, <<L - 1, w>>, expression)

\* A share is written, and the wire is where it was written.
Place(w, L, expression) ==
  /\ wires' = Put(wires, w, L)
  /\ values' = Put(values, <<L, w>>, expression)

CircuitInit ==
  /\ circuit \in Circuits
  /\ pc = "start"
  /\ pos = 1
  /\ wires = <<>>
  /\ values = <<>>
  /\ buffers = <<>>
  /\ made = 0
  /\ drawn = {}
  /\ calls = [p \in {"vss", "rg", "rs", "mul"} |-> 0]

Reject ==
  /\ pc = "start" /\ ~Valid(circuit)
  /\ pc' = "rejected"
  /\ UNCHANGED <<circuit, pos, wires, values, buffers, made, drawn, calls>>

\* run_vss for all inputs at once.
ShareInputs ==
  /\ pc = "start" /\ Valid(circuit)
  /\ pc' = "gates"
  /\ wires' = [w \in InputsOf(circuit) |-> VssOutputLayer]
  /\ values' = [key \in {VssOutputLayer} \X InputsOf(circuit) |-> <<"input", key[2]>>]
  /\ calls' = [calls EXCEPT !["vss"] = Cardinality(InputsOf(circuit))]
  /\ UNCHANGED <<circuit, pos, buffers, made, drawn>>

\* _refill_rg: run_rg yields q sharings three layers on.
Refill(L, m) ==
  /\ ~Enough(L, m) /\ L >= VssOutputLayer
  /\ buffers' = Put(buffers, L, Buffer(L) \o [i \in 1..q |-> <<L, made, i>>])
  /\ made' = made + 1
  /\ calls' = [calls EXCEPT !["rg"] = @ + 1]
  /\ UNCHANGED <<circuit, pc, pos, wires, values, drawn>>

\* reshare_wire_to_next_layer, for the operand that is below the other.
Align(w) ==
  /\ Draw(wires[w], <<"rs", w>>, t)
  /\ Place(w, wires[w] + 1, Read(wires[w], w))
  /\ calls' = [calls EXCEPT !["rs"] = @ + 1]
  /\ UNCHANGED <<circuit, pc, pos>>

AlignGate ==
  /\ Binary
  /\ \E w \in Low : Align(w) \/ Refill(wires[w], t)

InputGate ==
  /\ pc = "gates" /\ pos <= Len(circuit.gates) /\ current.op = "input"
  /\ pos' = pos + 1
  /\ UNCHANGED <<circuit, pc, wires, values, buffers, made, drawn, calls>>

CmulGate ==
  /\ pc = "gates" /\ pos <= Len(circuit.gates) /\ current.op = "cmul"
  /\ LET L == wires[current.in1] IN Place(current.gid, L, <<"cmul", current.gid, Read(L, current.in1)>>)
  /\ pos' = pos + 1
  /\ UNCHANGED <<circuit, pc, buffers, made, drawn, calls>>

AddGate ==
  /\ Binary /\ Low = {} /\ current.op = "add"
  /\ Place(current.gid, Target, <<"add", Read(Target, current.in1), Read(Target, current.in2)>>)
  /\ pos' = pos + 1
  /\ UNCHANGED <<circuit, pc, buffers, made, drawn, calls>>

\* prepare_mul_randomness_async draws twice: r_0 .. r_3t, then the resharing's.
DrawMasks ==
  /\ Draw(Target, <<"mul", current.gid>>, 3 * t + 1)
  /\ pc' = "masked"
  /\ UNCHANGED <<circuit, pos, wires, values, calls>>

RunMul ==
  /\ Draw(Target, <<"mul_rs", current.gid>>, t)
  /\ Place(current.gid, Target + 1, <<"mul", Read(Target, current.in1), Read(Target, current.in2)>>)
  /\ calls' = [calls EXCEPT !["mul"] = @ + 1]
  /\ pc' = "gates"
  /\ pos' = pos + 1
  /\ UNCHANGED circuit

MulGate ==
  /\ Binary /\ Low = {} /\ current.op = "mul"
  /\ \/ pc = "gates" /\ (DrawMasks \/ Refill(Target, 3 * t + 1))
     \/ pc = "masked" /\ (RunMul \/ Refill(Target, t))

\* The output's share is returned.
Finish ==
  /\ pc = "gates" /\ pos > Len(circuit.gates)
  /\ pc' = "done"
  /\ UNCHANGED <<circuit, pos, wires, values, buffers, made, drawn, calls>>

Ended == pc \in {"done", "rejected"} /\ UNCHANGED circuitVars

CircuitNext ==
  \/ Reject \/ ShareInputs
  \/ InputGate \/ CmulGate \/ AddGate \/ MulGate \/ AlignGate
  \/ Finish \/ Ended

CircuitSpec == CircuitInit /\ [][CircuitNext]_circuitVars

-----------------------------------------------------------------------------
(* References: the plain evaluation and the cost of a circuit.             *)

PlainGate(g, old) ==
  IF g.op = "input" THEN old
  ELSE IF g.op = "cmul" THEN Put(old, g.gid, <<"cmul", g.gid, old[g.in1]>>)
  ELSE Put(old, g.gid, <<g.op, old[g.in1], old[g.in2]>>)

\* evaluate_plain: the values after each gate.
Plain(c) ==
  LET plain[i \in 0..Len(c.gates)] ==
        IF i = 0 THEN [w \in InputsOf(c) |-> <<"input", w>>]
        ELSE PlainGate(c.gates[i], plain[i - 1])
  IN  plain

PlainValues(c) == Plain(c)[Len(c.gates)]

\* consume_random: rounds of RG until left suffices, and what is left then.
Rounds(left, m) == IF left >= m THEN 0 ELSE (m - left + q - 1) \div q
Remains(left, m) == left + q * Rounds(left, m) - m

\* mutant: each draw of a mul is counted from an empty buffer
MulRounds_Apart(left) == Rounds(left, 3 * t + 1) + Rounds(0, t)

MulRounds(left) == Rounds(left, 3 * t + 1) + Rounds(Remains(left, 3 * t + 1), t)

\* mpc_logical_cost, as the numbers of calls whose costs it adds up.  An account
\* has these, the layers of the wires and what is left in the pool (in mode rg; the
\* other mode never looks).
LayersOf(c) == 0..(VssOutputLayer + Len(c.gates))

Opening(c) ==
  [rg |-> 0, rs |-> 0, mul |-> 0,
   wires |-> [w \in InputsOf(c) |-> VssOutputLayer], left |-> [L \in LayersOf(c) |-> 0]]

\* The operands of a binary gate, moved to the target one layer at a time: each
\* move consumes t sharings of the layer it leaves.  At most one operand is below
\* the target, so no two moves leave the same layer.
Moved(s, g, target) ==
  {x \in {g.in1, g.in2} \X (0..target) : s.wires[x[1]] <= x[2] /\ x[2] < target}

Aligned(c, s, g, target) ==
  LET moved == Moved(s, g, target)
      refilled == {x \in moved : Rounds(s.left[x[2]], t) > 0} IN
  [rg |-> IF c.mode = "rg" THEN s.rg + Cardinality(refilled) ELSE s.rg,
   rs |-> s.rs + Cardinality(moved), mul |-> s.mul,
   wires |-> [w \in DOMAIN s.wires |-> IF w \in {g.in1, g.in2} THEN target ELSE s.wires[w]],
   left |-> [L \in LayersOf(c) |->
               IF \E x \in moved : x[2] = L THEN Remains(s.left[L], t) ELSE s.left[L]]]

Multiplied(c, s, target) ==
  [rg |-> IF c.mode = "rg" THEN s.rg + MulRounds(s.left[target]) ELSE s.rg,
   rs |-> s.rs, mul |-> s.mul + 1, wires |-> s.wires,
   left |-> [s.left EXCEPT ![target] = Remains(Remains(@, 3 * t + 1), t)]]

Output(s, w, L) ==
  [rg |-> s.rg, rs |-> s.rs, mul |-> s.mul, wires |-> Put(s.wires, w, L), left |-> s.left]

AccountGate(c, g, s) ==
  IF g.op = "input" THEN s
  ELSE IF g.op = "cmul" THEN Output(s, g.gid, s.wires[g.in1])
  ELSE LET target == Larger(s.wires[g.in1], s.wires[g.in2])
           aligned == Aligned(c, s, g, target) IN
       IF g.op = "add" THEN Output(aligned, g.gid, target)
       ELSE Output(Multiplied(c, aligned, target), g.gid, target + 1)

\* The account after each gate.
Account(c) ==
  LET account[i \in 0..Len(c.gates)] ==
        IF i = 0 THEN Opening(c) ELSE AccountGate(c, c.gates[i], account[i - 1])
  IN  account

LogicalCost(c) ==
  LET total == Account(c)[Len(c.gates)]
  IN  [vss |-> Cardinality(InputsOf(c)), rg |-> total.rg, rs |-> total.rs, mul |-> total.mul]

-----------------------------------------------------------------------------
\* However wires are moved between layers for one gate or another, the share
\* found at a wire's layer is one of the wire's plain value, so that the output
\* is the one of evaluate_plain.
SharesArePlain ==
  pc = "done" =>
    \A w \in DOMAIN wires : Read(wires[w], w) = PlainValues(circuit)[w]

\* A random sharing masks one value only, under a key that no other call has
\* used, and is of the layer where it is used (mpc.py:61-100).
SharingsUsedOnce ==
  \A a, b \in drawn :
    /\ a # b => a.key # b.key /\ a.sharing # b.sharing
    /\ a.key[1] = a.sharing[1]

\* mpc_logical_cost predicts how often the evaluation calls each protocol,
\* although it keeps its own account of layers and of what is left in the pool.
CostIsPredicted == pc = "done" => calls = LogicalCost(circuit)
=============================================================================
