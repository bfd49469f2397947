------------------------------ MODULE VssIdeal ------------------------------
(***************************************************************************)
(* What verifiable secret sharing promises when the dealer follows the     *)
(* protocol: once the dealer has dealt, each party of the last committee   *)
(* may obtain its share, the point of the dealt polynomial, and nothing    *)
(* else.  A run that fails at a party leaves that party without a share.   *)
(***************************************************************************)
EXTENDS Naturals

CONSTANT Parties

VARIABLES
  dealt,   \* the dealer has dealt to every party
  out      \* out[k]: what party k holds, "none" or "right"

idealVars == <<dealt, out>>

IdealInit ==
  /\ dealt = FALSE
  /\ out = [k \in Parties |-> "none"]

Dealt ==
  /\ ~dealt
  /\ dealt' = TRUE
  /\ UNCHANGED out

Obtain(k) ==
  /\ dealt
  /\ out[k] = "none"
  /\ out' = [out EXCEPT ![k] = "right"]
  /\ UNCHANGED dealt

IdealNext == Dealt \/ \E k \in Parties : Obtain(k)

IdealSpec == IdealInit /\ [][IdealNext]_idealVars
=============================================================================
