------------------------------- MODULE Covers -------------------------------
(***************************************************************************)
(* Sets of rows U and columns V that a VSS instance may leave out          *)
(* (retained_sets_from_complaints in protocols/vss.py): between them they  *)
(* account for every complaint of a column about a row.                    *)
(***************************************************************************)
EXTENDS FiniteSets, Naturals

IsCover(E, c) == \A e \in E : e[1] \in c.U \/ e[2] \in c.V
Size(c) == Cardinality(c.U) + Cardinality(c.V)
=============================================================================
