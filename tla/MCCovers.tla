------------------------------ MODULE MCCovers ------------------------------
(* A minimum cover to give CoverOf as its value: module VssProofs shows that *)
(* the code computes one for any complaints.                                *)
EXTENDS Covers

\* With the columns V left out, the rows that every other complaint is about.
LeavingOut(E, V) == [U |-> {e[1] : e \in {f \in E : f[2] \notin V}}, V |-> V]

SmallestCover(E) ==
  LET all == {LeavingOut(E, V) : V \in SUBSET {e[2] : e \in E}}
  IN  CHOOSE c \in all : \A d \in all : Size(c) <= Size(d)
=============================================================================
