------------------------------ MODULE Decoding ------------------------------
(***************************************************************************)
(* What berlekamp_welch_decode (rs_decode.py) returns for m points, some   *)
(* of which (errors) differ from a polynomial of degree d, when up to e    *)
(* errors are to be corrected: that polynomial ("right"), another one      *)
(* ("wrong"), or None.  BerlekampWelch checks it against the algorithm.    *)
(***************************************************************************)
EXTENDS Integers

\* With m >= d + 2e + 1 points, e errors are always corrected.  With fewer only
\* the fast path answers, from its first d + 1 points.  Another polynomial has
\* d of the right values at most, and is returned when m - e values agree.
Outcomes(m, d, e, errors) ==
  {o \in {"right", "wrong", "none"} :
     /\ o = "right" => errors <= e /\ m >= d + 1 + errors
     /\ o = "wrong" => errors > 0 /\ d + 1 <= m /\ m <= d + e + errors
     /\ o = "none"  => m <= d \/ errors > e \/ (errors > 0 /\ m <= d + 2 * e)}
=============================================================================
