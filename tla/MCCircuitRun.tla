---------------------------- MODULE MCCircuitRun ----------------------------
(* Circuits over two inputs.  Operands may also be gates that come later,  *)
(* or not at all: those circuits are rejected.                             *)
EXTENDS CircuitRun

InputGates == <<[gid |-> "a", op |-> "input", in1 |-> None, in2 |-> None],
                [gid |-> "b", op |-> "input", in1 |-> None, in2 |-> None]>>

GatesNamed(name, operands) ==
  {[gid |-> name, op |-> op, in1 |-> x, in2 |-> y] :
     op \in {"add", "mul"}, x \in operands, y \in operands}
    \union {[gid |-> name, op |-> "cmul", in1 |-> x, in2 |-> None] : x \in operands}

Circuit(gates, output, mode) ==
  [inputs |-> <<"a", "b">>, gates |-> InputGates \o gates, output |-> output, mode |-> mode]

MCCircuits ==
  {Circuit(<<g1, g2, g3>>, "g3", "rg") :
     g1 \in GatesNamed("g1", {"a", "b"}),
     g2 \in GatesNamed("g2", {"a", "b", "g1"}),
     g3 \in GatesNamed("g3", {"a", "b", "g1", "g2"})}
  \union
  {Circuit(<<g1, g2>>, output, "local") :
     g1 \in GatesNamed("g1", {"a", "b", "g2"}),
     g2 \in GatesNamed("g2", {"a", "b", "g1", None}),
     output \in {"g2", "g3"}}
=============================================================================
