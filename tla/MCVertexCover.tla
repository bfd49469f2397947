--------------------------- MODULE MCVertexCover ---------------------------
(* Instances of VertexCover for TLC.                                       *)
EXTENDS VertexCover

Rows == 0..3
Columns == 0..3

\* Every complaint matrix of four rows and four columns.
AllGraphs == SUBSET (Rows \X Columns)
=============================================================================
