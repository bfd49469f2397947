--------------------------- MODULE MCMultiplication ---------------------------
(* Instances of Multiplication for TLC.                                    *)
EXTENDS Multiplication
=============================================================================
