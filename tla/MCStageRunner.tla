---------------------------- MODULE MCStageRunner ----------------------------
(***************************************************************************)
(* Small instances of StageRunner: the sets the configurations name.       *)
(***************************************************************************)
EXTENDS StageRunner

CONSTANTS p1, p2, p3

ThreeNodes == {p1, p2, p3}
TwoDealers == {p1, p2}
OneFails == {p2}
=============================================================================
