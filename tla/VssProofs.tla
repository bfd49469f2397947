----------------------------- MODULE VssProofs -----------------------------
(***************************************************************************)
(* Theorems about module Vss, for every committee size n >= 4t + 1, every  *)
(* set of faulty parties and every algorithm that returns minimum covers;  *)
(* and about module VertexCover, the algorithm there is, for every graph.  *)
(***************************************************************************)
EXTENDS Vss, VertexCover, FiniteSetTheorems, SequenceTheorems, WellFoundedInduction, TLAPS

-----------------------------------------------------------------------------
(* Sets of parties, and what is decoded.                                   *)

LEMMA PartySets ==
  /\ IsFiniteSet(Party) /\ Cardinality(Party) = n
  /\ \A S \in SUBSET Party :
        IsFiniteSet(S) /\ Cardinality(S) \in Nat /\ Cardinality(S) <= n
<1>1. IsFiniteSet(Party) /\ Cardinality(Party) = n
  BY FS_Interval, PartyAssumption DEF Party
<1>2. ASSUME NEW S \in SUBSET Party
      PROVE  IsFiniteSet(S) /\ Cardinality(S) \in Nat /\ Cardinality(S) <= n
  BY <1>1, FS_Subset, FS_CardinalityType
<1> QED BY <1>1, <1>2

LEMMA Monotone ==
  ASSUME NEW S \in SUBSET Party, NEW T \in SUBSET S
  PROVE  Cardinality(T) <= Cardinality(S)
BY PartySets, FS_Subset

\* The size of a union of two sets of parties.
LEMMA UnionSize ==
  ASSUME NEW S \in SUBSET Party, NEW T \in SUBSET Party
  PROVE  /\ Cardinality(S \union T) = Cardinality(S) + Cardinality(T \ S)
         /\ Cardinality(T) = Cardinality(T \intersect S) + Cardinality(T \ S)
<1>1. /\ S \union T \in SUBSET Party
      /\ T \ S \in SUBSET Party
      /\ T \intersect S \in SUBSET Party
  OBVIOUS
<1>2. Cardinality(T \ S) = Cardinality(T) - Cardinality(T \intersect S)
  BY PartySets, FS_Difference
<1>3. Cardinality(S \union T)
        = Cardinality(S) + Cardinality(T) - Cardinality(S \intersect T)
  BY PartySets, FS_Union
<1>4. S \intersect T = T \intersect S
  OBVIOUS
<1>5. /\ Cardinality(T) \in Nat /\ Cardinality(S) \in Nat
      /\ Cardinality(T \intersect S) \in Nat
  BY <1>1, PartySets
<1>6. Cardinality(S \intersect T) = Cardinality(T \intersect S)
  BY <1>4
<1> QED BY <1>2, <1>3, <1>5, <1>6

\* A decoding with few errors is right; with fewer than m - 2t it is never
\* wrong.
LEMMA DecodeRight ==
  ASSUME NEW m \in Int, NEW e \in Nat, e <= t
  PROVE  Decode(m, e) = {"right"}
BY DEF Decode

LEMMA DecodeNeverWrong ==
  ASSUME NEW m \in Int, NEW e \in Nat, e < m - 2 * t
  PROVE  "wrong" \notin Decode(m, e)
BY PartyAssumption DEF Decode

LEMMA DecodeType ==
  ASSUME NEW m, NEW e
  PROVE  Decode(m, e) \subseteq {"right", "none", "wrong"}
BY DEF Decode

-----------------------------------------------------------------------------
(* The cover.                                                              *)

\* Both the faulty parties and the part of the faulty columns that the cover
\* uses, together with its rows and the faulty ones, are covers as well.
LEMMA SmallCover ==
  ASSUME FaultBound, NEW E \in Possible
  PROVE  /\ CoverOf[E] \in Covers
         /\ IsCover(E, CoverOf[E])
         /\ ~GivenUp(CoverOf[E])
         /\ Cardinality(CoverOf[E].V \ ByzCol) <= Cardinality(ByzRow \ CoverOf[E].U)
<1> DEFINE c == CoverOf[E]
           faulty == [U |-> ByzRow, V |-> ByzCol]
           rows == ByzRow \union (c.U \intersect Targets)
           mixed == [U |-> rows, V |-> c.V \intersect ByzCol]
<1>1. /\ c \in Covers
      /\ IsCover(E, c)
      /\ \A d \in Rivals : IsCover(E, d) => Size(c) <= Size(d)
  BY CoverAssumption
<1>2. c.U \in SUBSET Party /\ c.V \in SUBSET Party
  BY <1>1 DEF Covers
<1>3. \A e \in E : e[1] \in ByzRow \/ (e[1] \in Targets /\ e[2] \in ByzCol)
  BY DEF Possible
<1>4. faulty \in Rivals /\ IsCover(E, faulty)
  BY <1>3 DEF Rivals, IsCover
<1>5. mixed \in Rivals /\ IsCover(E, mixed)
  <2>1. mixed \in Rivals
    BY DEF Rivals
  <2>2. \A e \in E : e[1] \in c.U \/ e[2] \in c.V
    BY <1>1 DEF IsCover
  <2> QED BY <2>1, <2>2, <1>3 DEF IsCover
<1>6. Size(c) <= 2 * t
  <2>1. Size(c) <= Cardinality(ByzRow) + Cardinality(ByzCol)
    BY <1>1, <1>4 DEF Size
  <2> QED
    BY <2>1, <1>2, PartySets, PartyAssumption DEF FaultBound, Size
<1>7. Cardinality(c.V \ ByzCol) <= Cardinality(ByzRow \ c.U)
  <2>1. Cardinality(c.U) + Cardinality(c.V)
          <= Cardinality(rows) + Cardinality(c.V \intersect ByzCol)
    BY <1>1, <1>5 DEF Size
  <2>0. Cardinality(rows) \in Nat /\ Cardinality(rows) <= Cardinality(c.U \union ByzRow)
    <3>1. rows \in SUBSET (c.U \union ByzRow) /\ c.U \union ByzRow \in SUBSET Party
      BY <1>2, PartyAssumption
    <3>2. rows \in SUBSET Party
      BY <3>1
    <3> QED BY <3>1, <3>2, Monotone, PartySets
  <2>2. Cardinality(c.U \union ByzRow) = Cardinality(c.U) + Cardinality(ByzRow \ c.U)
    BY UnionSize, <1>2, PartyAssumption
  <2>3. Cardinality(c.V)
          = Cardinality(c.V \intersect ByzCol) + Cardinality(c.V \ ByzCol)
    BY UnionSize, <1>2, PartyAssumption
  <2>4. /\ Cardinality(c.U) \in Nat
        /\ Cardinality(ByzRow \ c.U) \in Nat
        /\ Cardinality(c.V \intersect ByzCol) \in Nat
        /\ Cardinality(c.V \ ByzCol) \in Nat
    <3>1. /\ ByzRow \ c.U \in SUBSET Party
          /\ c.V \intersect ByzCol \in SUBSET Party
          /\ c.V \ ByzCol \in SUBSET Party
      BY <1>2, PartyAssumption
    <3> QED BY <3>1, <1>2, PartySets
  <2> QED BY <2>0, <2>1, <2>2, <2>3, <2>4
<1>8. Size(c) \in Nat
  BY <1>2, PartySets DEF Size
<1> QED BY <1>1, <1>6, <1>7, <1>8, PartyAssumption DEF GivenUp
-----------------------------------------------------------------------------
(* What holds whatever the number of faults.                               *)

\* What a node may have computed.
AnyCover == {NoCover} \union {CoverOf[E] : E \in SUBSET (Party \X Party)}

Typed ==
  /\ pc \in [Party -> Stage]
  /\ slices \subseteq Party /\ lines \subseteq Party
  /\ accusers \subseteq Party /\ scalars \subseteq Party
  /\ wrong \in [Party -> SUBSET Party]
  /\ accused \in [Party -> SUBSET Party]
  /\ cover \in [Party -> AnyCover]
  /\ share \in [Party -> {"none", "right", "wrong", "default"}]

\* A party's lines are fixed when it has sent them and its complaints when it
\* has broadcast them; all lines come before any complaint.
Ordered ==
  /\ \A k \in Party : pc[k] = "com1" => k \notin lines
  /\ \A k \in Party : pc[k] \in {"com1", "com2"} => k \notin accusers
  /\ lines \subseteq slices
  /\ accusers # {} => lines = Party
  /\ \A k \in Party : pc[k] # "done" => share[k] = "none"

\* Who has decided has used everybody's complaints.
Settled ==
  \A k \in Party :
     Decided(k) => accusers = Party /\ cover[k] = CoverOf[Disagreement]

Base == Typed /\ Ordered /\ Settled

LEMMA ComplaintType ==
  ASSUME wrong \in [Party -> SUBSET Party], NEW j \in Party
  PROVE  \A B \in Complaints(j) : B \in SUBSET Party
BY DEF Complaints

LEMMA OutcomeType ==
  ASSUME NEW c, NEW right, NEW bad
  PROVE  ShareOutcomes(c, right, bad) \subseteq {"right", "wrong", "default"}
BY DecodeType DEF ShareOutcomes

LEMMA Com3Writes ==
  ASSUME NEW k, Com3Reconstruct(k)
  PROVE  \E s \in {"right", "wrong", "default"} : share' = [share EXCEPT ![k] = s]
<1>1. PICK s \in Shares(cover[k]) : share' = [share EXCEPT ![k] = s]
  BY DEF Com3Reconstruct
<1>2. PICK r : s \in ShareOutcomes(cover[k], r.right, r.bad)
  BY DEF Shares
<1> QED BY <1>1, <1>2, OutcomeType

LEMMA BaseInit == Init => Base
<1> SUFFICES ASSUME Init PROVE Base
  OBVIOUS
<1>1. Typed
  BY DEF Init, Typed, Stage, AnyCover
<1>2. Ordered
  BY DEF Init, Ordered
<1>3. Settled
  BY DEF Init, Settled, Decided
<1> QED BY <1>1, <1>2, <1>3 DEF Base

LEMMA TypedStep == Typed /\ [Next]_vars => Typed'
<1> SUFFICES ASSUME Typed, [Next]_vars PROVE Typed'
  OBVIOUS
<1> USE DEF Typed, Stage
<1>1. ASSUME NEW i \in Party, Deal(i) PROVE Typed'
  BY <1>1 DEF Deal
<1>2. ASSUME NEW k \in Party, Com1ForwardSlice(k) PROVE Typed'
  <2>1. PICK W \in SUBSET Party : wrong' = [wrong EXCEPT ![k] = W]
    BY <1>2, PartyAssumption DEF Com1ForwardSlice
  <2> QED BY <1>2, <2>1 DEF Com1ForwardSlice, Go
<1>3. ASSUME NEW k \in Party, Com2ProcessColumn(k) PROVE Typed'
  <2>1. PICK B \in SUBSET Party : accused' = [accused EXCEPT ![k] = B]
    BY <1>3, ComplaintType, PartyAssumption DEF Com2ProcessColumn
  <2> QED BY <1>3, <2>1 DEF Com2ProcessColumn, Go
<1>4. ASSUME NEW k \in Party, Com2SendScalars(k) PROVE Typed'
  BY <1>4 DEF Com2SendScalars, Go
<1>5. ASSUME NEW k \in Party, Public(k) PROVE Typed'
  <2>1. CoverOf[Disagreement] \in AnyCover
    BY DEF AnyCover, Disagreement
  <2>2. cover' \in [Party -> AnyCover]
    BY <1>5, <2>1 DEF Public
  <2>3. pc' \in [Party -> Stage]
    BY <1>5 DEF Public, Go
  <2>4. share' \in [Party -> {"none", "right", "wrong", "default"}]
    BY <1>5 DEF Public
  <2>5. UNCHANGED <<slices, lines, wrong, accusers, accused, scalars>>
    BY <1>5 DEF Public
  <2> QED BY <2>2, <2>3, <2>4, <2>5
<1>6. ASSUME NEW k \in Party, Com3Reconstruct(k) PROVE Typed'
  <2>1. PICK s \in {"right", "wrong", "default"} : share' = [share EXCEPT ![k] = s]
    BY <1>6, Com3Writes
  <2> QED BY <1>6, <2>1 DEF Com3Reconstruct, Go
<1>7. ASSUME NEW k \in Party, Fail(k) PROVE Typed'
  BY <1>7 DEF Fail
<1>8. CASE UNCHANGED vars
  BY <1>8 DEF vars
<1> QED
  BY <1>1, <1>2, <1>3, <1>4, <1>5, <1>6, <1>7, <1>8 DEF Next, Step

LEMMA OrderedStep == Typed /\ Ordered /\ [Next]_vars => Ordered'
<1> SUFFICES ASSUME Typed, Ordered, [Next]_vars PROVE Ordered'
  OBVIOUS
<1> USE DEF Typed, Ordered
<1>1. ASSUME NEW i \in Party, Deal(i) PROVE Ordered'
  BY <1>1 DEF Deal
<1>2. ASSUME NEW k \in Party, Com1ForwardSlice(k) PROVE Ordered'
  BY <1>2 DEF Com1ForwardSlice, Go
<1>3. ASSUME NEW k \in Party, Com2ProcessColumn(k) PROVE Ordered'
  BY <1>3 DEF Com2ProcessColumn, Go
<1>4. ASSUME NEW k \in Party, Com2SendScalars(k) PROVE Ordered'
  BY <1>4 DEF Com2SendScalars, Go
<1>5. ASSUME NEW k \in Party, Public(k) PROVE Ordered'
  BY <1>5 DEF Public, Go
<1>6. ASSUME NEW k \in Party, Com3Reconstruct(k) PROVE Ordered'
  <2>1. PICK s \in {"right", "wrong", "default"} : share' = [share EXCEPT ![k] = s]
    BY <1>6, Com3Writes
  <2> QED BY <1>6, <2>1 DEF Com3Reconstruct, Go
<1>7. ASSUME NEW k \in Party, Fail(k) PROVE Ordered'
  BY <1>7 DEF Fail
<1>8. CASE UNCHANGED vars
  BY <1>8 DEF vars
<1> QED
  BY <1>1, <1>2, <1>3, <1>4, <1>5, <1>6, <1>7, <1>8 DEF Next, Step

LEMMA SettledStep == Base /\ [Next]_vars => Settled'
<1> SUFFICES ASSUME Typed, Ordered, Settled, [Next]_vars PROVE Settled'
  BY DEF Base
<1> USE DEF Typed, Settled, Decided
<1>1. ASSUME NEW i \in Party, Deal(i) PROVE Settled'
  BY <1>1 DEF Deal, Disagreement
<1>2. ASSUME NEW k \in Party, Com1ForwardSlice(k) PROVE Settled'
  <2>1. accusers = {}
    BY <1>2 DEF Com1ForwardSlice, Go, Ordered
  <2>2. \A l \in Party : ~Decided(l)
    BY <2>1, PartyAssumption
  <2> QED BY <1>2, <2>2 DEF Com1ForwardSlice, Go
<1>3. ASSUME NEW k \in Party, Com2ProcessColumn(k) PROVE Settled'
  <2>1. accusers # Party
    BY <1>3 DEF Com2ProcessColumn, Go, Ordered
  <2>2. \A l \in Party : ~Decided(l)
    BY <2>1
  <2> QED BY <1>3, <2>2 DEF Com2ProcessColumn, Go
<1>4. ASSUME NEW k \in Party, Com2SendScalars(k) PROVE Settled'
  BY <1>4 DEF Com2SendScalars, Go, Disagreement
<1>5. ASSUME NEW k \in Party, Public(k) PROVE Settled'
  <2>1. Disagreement' = Disagreement
    BY <1>5 DEF Public, Disagreement
  <2>2. cover' = [cover EXCEPT ![k] = CoverOf[Disagreement]] /\ accusers = Party
    BY <1>5 DEF Public
  <2>3. accusers' = accusers
    BY <1>5 DEF Public
  <2>4. \A l \in Party \ {k} : Decided(l)' = Decided(l)
    BY <1>5 DEF Public, Go
  <2> HIDE DEF Decided
  <2> QED BY <2>1, <2>2, <2>3, <2>4
<1>6. ASSUME NEW k \in Party, Com3Reconstruct(k) PROVE Settled'
  <2>1. PICK s \in {"right", "wrong", "default"} : share' = [share EXCEPT ![k] = s]
    BY <1>6, Com3Writes
  <2> QED BY <1>6, <2>1 DEF Com3Reconstruct, Go, Disagreement
<1>7. ASSUME NEW k \in Party, Fail(k) PROVE Settled'
  BY <1>7 DEF Fail, Disagreement
<1>8. CASE UNCHANGED vars
  BY <1>8 DEF vars, Disagreement
<1> QED
  BY <1>1, <1>2, <1>3, <1>4, <1>5, <1>6, <1>7, <1>8 DEF Next, Step

THEOREM BaseHolds == Spec => []Base
<1>1. Base /\ [Next]_vars => Base'
  BY TypedStep, OrderedStep, SettledStep DEF Base
<1> QED BY <1>1, BaseInit, PTL DEF Spec

\* Every node that decides leaves out the same rows and columns, also beyond
\* the fault bound, and whichever minimum cover is computed: run_vss_party
\* reads everybody's complaints before it computes one (vss.py).
THEOREM Agreement == Spec => []CoverAgreement
<1>1. Base => CoverAgreement
  BY DEF Base, Settled, CoverAgreement
<1> QED BY <1>1, BaseHolds, PTL
-----------------------------------------------------------------------------
(* Within the fault bound.                                                 *)

\* Only faulty rows send wrong lines; the complaints of the columns that run
\* the code are exactly those rows; nobody's share is wrong or the default.
Honest ==
  /\ \A i \in Party : wrong[i] \subseteq Targets
  /\ \A i \in Party \ ByzRow : wrong[i] = {}
  /\ \A j \in Party \ accusers : accused[j] = {}
  /\ \A j \in ByzCol : accused[j] \subseteq Targets
  /\ AccusesWrongRows
  /\ cover \in [Party -> Covers]
  /\ SharesRight

IInv == Base /\ Honest

LEMMA FewWrongRows ==
  ASSUME FaultBound, Honest, NEW j
  PROVE  /\ WrongRows(j) \in SUBSET ByzRow
         /\ Cardinality(WrongRows(j)) \in Nat
         /\ Cardinality(WrongRows(j)) <= t
<1>1. WrongRows(j) \in SUBSET ByzRow
  BY DEF WrongRows, Honest
<1>2. ByzRow \in SUBSET Party
  BY PartyAssumption
<1>3. Cardinality(WrongRows(j)) <= Cardinality(ByzRow)
  BY <1>1, <1>2, Monotone
<1>4. Cardinality(WrongRows(j)) \in Nat /\ Cardinality(ByzRow) \in Nat
  BY <1>1, <1>2, PartySets
<1> QED BY <1>1, <1>3, <1>4, PartyAssumption DEF FaultBound

LEMMA ComplaintsRight ==
  ASSUME FaultBound, Honest, NEW j
  PROVE  Complaints(j) = {WrongRows(j)}
<1>1. Decode(n, Cardinality(WrongRows(j))) = {"right"}
  BY FewWrongRows, DecodeRight, PartyAssumption
<1>2. WrongRows(j) \in SUBSET Party
  BY DEF WrongRows
<1> QED BY <1>1, <1>2 DEF Complaints

LEMMA PossibleComplaints ==
  ASSUME Typed, Honest
  PROVE  Disagreement \in Possible
<1>1. ASSUME NEW i \in Party, NEW j \in Party, i \in accused[j], j \in ByzCol
      PROVE  i \in Targets
  BY <1>1 DEF Honest
<1>2. ASSUME NEW i \in Party, NEW j \in Party, i \in accused[j], j \notin ByzCol
      PROVE  i \in ByzRow /\ j \in Targets
  <2>1. accused[j] = WrongRows(j)
    BY <1>2 DEF Honest, AccusesWrongRows
  <2> QED BY <1>2, <2>1 DEF Honest, WrongRows
<1> QED BY <1>1, <1>2 DEF Possible, Disagreement

\* What everybody computes from everybody's complaints: a small cover, with few
\* suspect values in the rows that it retains.
LEMMA CoverFacts ==
  ASSUME FaultBound, Typed, Honest, accusers = Party
  PROVE  LET c == CoverOf[Disagreement]
         IN  /\ c \in Covers
             /\ ~GivenUp(c)
             /\ \A i \in Retained(c) :
                  /\ Suspect(i) \in SUBSET (c.V \union ByzCol)
                  /\ Suspect(i) \in SUBSET Party
                  /\ Cardinality(Suspect(i)) <= 2 * t
                  /\ i \notin ByzRow => Cardinality(Suspect(i)) <= t
<1> DEFINE c == CoverOf[Disagreement]
<1>1. /\ c \in Covers /\ IsCover(Disagreement, c) /\ ~GivenUp(c)
      /\ Cardinality(c.V \ ByzCol) <= Cardinality(ByzRow \ c.U)
  BY PossibleComplaints, SmallCover
<1>2. /\ c.U \in SUBSET Party /\ c.V \in SUBSET Party /\ ByzCol \in SUBSET Party
      /\ ByzRow \in SUBSET Party
  BY <1>1, PartyAssumption DEF Covers
<1>3. ASSUME NEW i \in Party, NEW j \in Party, i \in accused[j]
      PROVE  i \in c.U \/ j \in c.V
  <2>1. <<i, j>> \in Disagreement
    BY <1>3 DEF Disagreement
  <2> HIDE DEF c
  <2>2. \A e \in Disagreement : e[1] \in c.U \/ e[2] \in c.V
    BY <1>1 DEF IsCover
  <2> QED BY <2>1, <2>2
<1>4. ASSUME NEW i \in Retained(c)
      PROVE  Suspect(i) \in SUBSET (c.V \union ByzCol) /\ Suspect(i) \in SUBSET Party
  <2>1. i \in Party /\ i \notin c.U /\ wrong[i] \subseteq Party
    BY DEF Retained, Typed
  <2>2. ASSUME NEW j \in wrong[i], j \notin ByzCol
        PROVE  j \in c.V
    <3>1. j \in Party /\ i \in WrongRows(j)
      BY <2>1 DEF WrongRows
    <3>2. accused[j] = WrongRows(j)
      BY <2>2, <3>1 DEF Honest, AccusesWrongRows
    <3> QED BY <1>3, <2>1, <3>1, <3>2
  <2> QED BY <1>2, <2>1, <2>2 DEF Suspect
<1>5. Cardinality(c.V \union ByzCol) \in Nat /\ Cardinality(c.V \union ByzCol) <= 2 * t
  <2>1. Cardinality(ByzCol \union c.V) = Cardinality(ByzCol) + Cardinality(c.V \ ByzCol)
    BY <1>2, UnionSize
  <2>2. Cardinality(ByzRow \ c.U) <= Cardinality(ByzRow)
    BY <1>2, Monotone
  <2>3. ByzCol \union c.V \in SUBSET Party /\ c.V \ ByzCol \in SUBSET Party
        /\ ByzRow \ c.U \in SUBSET Party
    BY <1>2
  <2>4. /\ Cardinality(ByzCol \union c.V) \in Nat /\ Cardinality(c.V \ ByzCol) \in Nat
        /\ Cardinality(ByzRow \ c.U) \in Nat /\ Cardinality(ByzCol) \in Nat
        /\ Cardinality(ByzRow) \in Nat
    BY <2>3, <1>2, PartySets
  <2>5. ByzCol \union c.V = c.V \union ByzCol
    OBVIOUS
  <2>6. Cardinality(ByzCol \union c.V) \in Nat /\ Cardinality(ByzCol \union c.V) <= 2 * t
    BY <1>1, <2>1, <2>2, <2>4, PartyAssumption DEF FaultBound
  <2> QED BY <2>5, <2>6
<1>6. ASSUME NEW i \in Retained(c)
      PROVE  Cardinality(Suspect(i)) <= 2 * t
  <2>1. Cardinality(Suspect(i)) <= Cardinality(c.V \union ByzCol)
    <3>1. c.V \union ByzCol \in SUBSET Party
      BY <1>2
    <3> QED BY <1>4, <3>1, Monotone
  <2>2. Cardinality(Suspect(i)) \in Nat
    BY <1>4, PartySets
  <2> QED BY <1>5, <2>1, <2>2, PartyAssumption
<1>7. ASSUME NEW i \in Retained(c), i \notin ByzRow
      PROVE  Cardinality(Suspect(i)) <= t
  <2>1. Suspect(i) = ByzCol
    BY <1>7 DEF Retained, Honest, Suspect
  <2> QED BY <2>1 DEF FaultBound
<1> QED BY <1>1, <1>4, <1>6, <1>7
\* Each row that is retained is decoded right or not at all, and all but the
\* faulty ones are decoded; so is the share.
LEMMA ShareIsRight ==
  ASSUME FaultBound, Typed, Honest, accusers = Party,
         NEW right \in SUBSET Retained(CoverOf[Disagreement]),
         NEW bad \in SUBSET Retained(CoverOf[Disagreement]),
         \A i \in bad : "wrong" \in RowOutcomes(i),
         \A i \in Retained(CoverOf[Disagreement]) \ (right \union bad) :
            "none" \in RowOutcomes(i),
         right \intersect bad = {}
  PROVE  ShareOutcomes(CoverOf[Disagreement], right, bad) = {"right"}
<1> DEFINE c == CoverOf[Disagreement]
           R == Retained(c)
<1>1. /\ c \in Covers /\ ~GivenUp(c)
      /\ \A i \in R : /\ Suspect(i) \in SUBSET Party
                      /\ Cardinality(Suspect(i)) <= 2 * t
                      /\ i \notin ByzRow => Cardinality(Suspect(i)) <= t
  BY CoverFacts
<1>2. c.U \in SUBSET Party /\ c.V \in SUBSET Party /\ R \in SUBSET Party
  BY <1>1 DEF Covers, Retained
<1>3. \A i \in R : Cardinality(Suspect(i)) \in Nat
  BY <1>1, PartySets
<1> HIDE DEF c
<1>4. bad = {}
  <2>1. ASSUME NEW i \in R PROVE "wrong" \notin RowOutcomes(i)
    <3>1. ASSUME NEW e \in 0..Cardinality(Suspect(i)) PROVE "wrong" \notin Decode(n, e)
      <4>1. e \in Nat /\ e <= 2 * t
        BY <1>1, <1>3, <2>1, PartyAssumption
      <4>2. e < n - 2 * t
        BY <4>1, PartyAssumption
      <4> QED BY <4>1, <4>2, DecodeNeverWrong, PartyAssumption
    <3> QED BY <3>1 DEF RowOutcomes
  <2>2. \A i \in bad : i \in R
    BY DEF c
  <2> QED BY <2>1, <2>2
<1>5. R \ ByzRow \subseteq right
  <2>1. ASSUME NEW i \in R, i \notin ByzRow PROVE RowOutcomes(i) = {"right"}
    <3>1. \A e \in 0..Cardinality(Suspect(i)) : Decode(n, e) = {"right"}
      <4>1. \A e \in 0..Cardinality(Suspect(i)) : e \in Nat /\ e <= t
        BY <1>1, <1>3, <2>1, PartyAssumption
      <4> QED BY <4>1, DecodeRight, PartyAssumption
    <3>2. 0 \in 0..Cardinality(Suspect(i))
      BY <1>3, <2>1
    <3> QED BY <3>1, <3>2 DEF RowOutcomes
  <2>2. \A i \in R : i \notin right => "none" \in RowOutcomes(i)
    BY <1>4 DEF c
  <2> QED BY <2>1, <2>2
<1>6. /\ Cardinality(right) \in Nat /\ Cardinality(R) \in Nat
      /\ Cardinality(c.U) \in Nat /\ Cardinality(c.V) \in Nat
      /\ Cardinality(R) = n - Cardinality(c.U)
      /\ Cardinality(R) - Cardinality(right) <= t
      /\ Cardinality(right) <= Cardinality(R)
  <2>1. right \in SUBSET R
    BY DEF c
  <2>2. R \ right \in SUBSET ByzRow /\ ByzRow \in SUBSET Party
    BY <1>5, PartyAssumption
  <2>3. Cardinality(R \ right) <= Cardinality(ByzRow)
    BY <2>2, Monotone
  <2>4. Cardinality(R) = Cardinality(R \intersect right) + Cardinality(R \ right)
    <3>1. right \in SUBSET Party
      BY <1>2, <2>1
    <3> QED BY <1>2, <3>1, UnionSize
  <2>5. Cardinality(R \intersect right) = Cardinality(right)
    <3>1. R \intersect right = right
      BY <2>1
    <3> QED BY <3>1
  <2>6. /\ Cardinality(right) \in Nat /\ Cardinality(R) \in Nat
        /\ Cardinality(R \ right) \in Nat /\ Cardinality(ByzRow) \in Nat
        /\ Cardinality(c.U) \in Nat /\ Cardinality(c.V) \in Nat
    <3>1. right \in SUBSET Party /\ R \ right \in SUBSET Party
      BY <1>2, <2>1
    <3> QED BY <1>2, <2>2, <3>1, PartySets
  <2>7. Cardinality(R) = n - Cardinality(c.U)
    <3>1. Cardinality(Party)
            = Cardinality(Party \intersect c.U) + Cardinality(Party \ c.U)
      BY <1>2, UnionSize
    <3>2. Cardinality(Party \intersect c.U) = Cardinality(c.U)
      <4>1. Party \intersect c.U = c.U
        BY <1>2
      <4> QED BY <4>1
    <3>3. Cardinality(Party) = n
      BY PartySets
    <3>4. Cardinality(Party \ c.U) = Cardinality(R)
      BY DEF Retained
    <3> QED BY <3>1, <3>2, <3>3, <3>4, <2>6, PartyAssumption
  <2>8. Cardinality(R) - Cardinality(right) <= t
    BY <2>3, <2>4, <2>5, <2>6, PartyAssumption DEF FaultBound
  <2>9. Cardinality(right) <= Cardinality(R)
    BY <2>4, <2>5, <2>6
  <2> QED BY <2>6, <2>7, <2>8, <2>9
<1>7. Cardinality(c.U) + Cardinality(c.V) <= 2 * t
  BY <1>1, <1>6, PartyAssumption DEF GivenUp, Size
<1>8. CASE Cardinality(c.V) <= t
  <2>1. right \union bad = right
    BY <1>4
  <2>2. ~(Cardinality(right) < t + 1)
    BY <1>6, <1>7, PartyAssumption
  <2>3. First(right, t + 1) \subseteq right
    BY DEF First
  <2> QED BY <1>8, <2>1, <2>2, <2>3 DEF ShareOutcomes, c
<1>9. CASE ~(Cardinality(c.V) <= t)
  <2>1. ~(Cardinality(R) < 3 * t + 1)
    BY <1>6, <1>7, <1>9, PartyAssumption
  <2>2. Cardinality(bad) = 0
    BY <1>4, FS_EmptySet
  <2> DEFINE E == Cardinality(bad)..(Cardinality(R) - Cardinality(right))
  <2>3. \A e \in E : e \in Nat /\ e <= t
    BY <2>2, <1>6, PartyAssumption
  <2>4. 0 \in E
    BY <2>2, <1>6
  <2>5. \A e \in E : Decode(Cardinality(R), e) = {"right"}
    BY <2>3, <1>6, DecodeRight
  <2>6. UNION {Decode(Cardinality(R), e) : e \in E} = {"right"}
    BY <2>4, <2>5
  <2> HIDE DEF E
  <2>7. ShareOutcomes(c, right, bad)
          = {IF d = "none" THEN "default" ELSE d :
               d \in UNION {Decode(Cardinality(R), e) : e \in E}}
    BY <1>9, <2>1 DEF ShareOutcomes, E
  <2> QED BY <2>6, <2>7 DEF c
<1> QED BY <1>8, <1>9
\* What a node that reconstructs ends with.
LEMMA Com3IsRight ==
  ASSUME FaultBound, Base, Honest, NEW k \in Party, Com3Reconstruct(k)
  PROVE  share' = [share EXCEPT ![k] = "right"]
<1>1. accusers = Party /\ cover[k] = CoverOf[Disagreement]
  BY DEF Com3Reconstruct, Go, Base, Settled, Decided
<1>2. PICK s \in Shares(cover[k]) : share' = [share EXCEPT ![k] = s]
  BY DEF Com3Reconstruct
<1>3. PICK r \in RowResults(cover[k]) : s \in ShareOutcomes(cover[k], r.right, r.bad)
  BY DEF Shares
<1>4. r.right \in SUBSET Retained(cover[k]) /\ r.bad \in SUBSET Retained(cover[k])
  BY DEF RowResults, RightRows, Unsure
<1>5. ShareOutcomes(cover[k], r.right, r.bad) = {"right"}
  BY <1>1, <1>4, ShareIsRight DEF Base, RowResults
<1> QED BY <1>2, <1>3, <1>5

LEMMA HonestInit == Init => Honest
BY PartyAssumption DEF Init, Honest, AccusesWrongRows, SharesRight, Covers, NoCover

LEMMA HonestStep == FaultBound /\ Base /\ Honest /\ [Next]_vars => Honest'
<1> SUFFICES ASSUME FaultBound, Base, Honest, [Next]_vars PROVE Honest'
  OBVIOUS
<1>0. Typed
  BY DEF Base
<1> USE DEF Typed
<1>1. ASSUME NEW i \in Party, Deal(i) PROVE Honest'
  BY <1>0, <1>1 DEF Deal, Honest, AccusesWrongRows, WrongRows, SharesRight
<1>2. ASSUME NEW k \in Party, Com1ForwardSlice(k) PROVE Honest'
  <2>1. accusers = {} /\ UNCHANGED <<accusers, accused, cover, share>>
    BY <1>2 DEF Com1ForwardSlice, Go, Base, Ordered
  <2>2. PICK W \in SUBSET Targets :
           wrong' = [wrong EXCEPT ![k] = W] /\ (k \notin ByzRow => W = {})
    BY <1>2 DEF Com1ForwardSlice
  <2>3. /\ \A i \in Party : wrong'[i] \subseteq Targets
        /\ \A i \in Party \ ByzRow : wrong'[i] = {}
    BY <1>0, <2>2 DEF Honest
  <2> QED BY <2>1, <2>3 DEF Honest, AccusesWrongRows, SharesRight
<1>3. ASSUME NEW k \in Party, Com2ProcessColumn(k) PROVE Honest'
  <2>1. /\ accusers' = accusers \union {k}
        /\ UNCHANGED <<wrong, cover, share>>
    BY <1>3 DEF Com2ProcessColumn
  <2>2. PICK B : /\ accused' = [accused EXCEPT ![k] = B]
                 /\ k \in ByzCol => B \subseteq Targets
                 /\ k \notin ByzCol => B = WrongRows(k)
    BY <1>3, ComplaintsRight DEF Com2ProcessColumn
  <2>3. \A j \in Party : WrongRows(j)' = WrongRows(j)
    BY <2>1 DEF WrongRows
  <2>4. AccusesWrongRows'
    BY <1>0, <2>1, <2>2, <2>3 DEF Honest, AccusesWrongRows
  <2>5. /\ \A j \in Party \ accusers' : accused'[j] = {}
        /\ \A j \in ByzCol : accused'[j] \subseteq Targets
    BY <1>0, <2>1, <2>2, PartyAssumption DEF Honest
  <2> QED BY <2>1, <2>4, <2>5 DEF Honest, SharesRight
<1>4. ASSUME NEW k \in Party, Com2SendScalars(k) PROVE Honest'
  BY <1>0, <1>4 DEF Com2SendScalars, Honest, AccusesWrongRows, WrongRows, SharesRight
<1>5. ASSUME NEW k \in Party, Public(k) PROVE Honest'
  <2>1. ~GivenUp(CoverOf[Disagreement]) /\ CoverOf[Disagreement] \in Covers
    BY <1>0, <1>5, CoverFacts DEF Public
  <2>2. UNCHANGED share
    BY <1>5, <2>1 DEF Public
  <2>3. cover' \in [Party -> Covers]
    BY <1>5, <2>1 DEF Public, Honest
  <2> QED
    BY <1>5, <2>2, <2>3 DEF Public, Honest, AccusesWrongRows, WrongRows, SharesRight
<1>6. ASSUME NEW k \in Party, Com3Reconstruct(k) PROVE Honest'
  <2>1. share' = [share EXCEPT ![k] = "right"]
    BY <1>6, Com3IsRight
  <2>2. SharesRight'
    BY <1>0, <2>1 DEF Honest, SharesRight
  <2>3. UNCHANGED <<wrong, accusers, accused, cover>>
    BY <1>6 DEF Com3Reconstruct
  <2> QED BY <2>2, <2>3 DEF Honest, AccusesWrongRows, WrongRows
<1>7. ASSUME NEW k \in Party, Fail(k) PROVE Honest'
  BY <1>7 DEF Fail, Honest, AccusesWrongRows, WrongRows, SharesRight
<1>8. CASE UNCHANGED vars
  BY <1>8 DEF vars, Honest, AccusesWrongRows, WrongRows, SharesRight
<1> QED
  BY <1>1, <1>2, <1>3, <1>4, <1>5, <1>6, <1>7, <1>8 DEF Next, Step

LEMMA Invariance == FaultBound => (Spec => []IInv)
<1>1. Init => IInv
  BY BaseInit, HonestInit DEF IInv
<1>2. FaultBound /\ IInv /\ [Next]_vars => IInv'
  BY TypedStep, OrderedStep, SettledStep, HonestStep DEF IInv, Base
<1> SUFFICES ASSUME FaultBound PROVE Spec => []IInv
  OBVIOUS
<1>3. IInv /\ [Next]_vars => IInv'
  BY <1>2
<1> QED BY <1>1, <1>3, PTL DEF Spec

\* Within the fault bound every variable keeps its type; in particular what a
\* node computes from the complaints is a set of rows and a set of columns.
THEOREM TypeCorrect == FaultBound => (Spec => []TypeOK)
<1>1. IInv => TypeOK
  BY DEF IInv, Base, Typed, Honest, TypeOK
<1> SUFFICES ASSUME FaultBound PROVE Spec => []TypeOK
  OBVIOUS
<1>2. Spec => []IInv
  BY Invariance
<1> QED BY <1>1, <1>2, PTL

\* _com2_process_column complains about the rows that sent it a wrong line and
\* about no other, whatever at most t faulty rows send.
THEOREM Accusation == FaultBound => (Spec => []AccusesWrongRows)
<1>1. IInv => AccusesWrongRows
  BY DEF IInv, Honest
<1> SUFFICES ASSUME FaultBound PROVE Spec => []AccusesWrongRows
  OBVIOUS
<1>2. Spec => []IInv
  BY Invariance
<1> QED BY <1>1, <1>2, PTL

\* No complaints of at most t faulty rows and t faulty columns make
\* retained_sets_from_complaints give up, and the wrong values left in a
\* retained row stay below what misleads _com3_reconstruct_share's decoding.
THEOREM CoverIsSafe == FaultBound => (Spec => [](NobodyGivesUp /\ ErrorsCovered))
<1>1. FaultBound /\ IInv => NobodyGivesUp /\ ErrorsCovered
  <2> SUFFICES ASSUME FaultBound, IInv, NEW k \in Party, Decided(k)
               PROVE  /\ ~GivenUp(cover[k])
                      /\ \A i \in Retained(cover[k]) :
                           /\ Suspect(i) \subseteq cover[k].V \union ByzCol
                           /\ Cardinality(Suspect(i)) <= 2 * t
    BY DEF NobodyGivesUp, ErrorsCovered
  <2>1. accusers = Party /\ cover[k] = CoverOf[Disagreement]
    BY DEF IInv, Base, Settled
  <2> QED BY <2>1, CoverFacts DEF IInv, Base
<1> SUFFICES ASSUME FaultBound PROVE Spec => [](NobodyGivesUp /\ ErrorsCovered)
  OBVIOUS
<1>2. IInv => NobodyGivesUp /\ ErrorsCovered
  BY <1>1
<1>3. Spec => []IInv
  BY Invariance
<1> QED BY <1>2, <1>3, PTL

\* In particular no node returns the default share for want of retained sets,
\* whatever at most t faulty rows send and t faulty columns complain about.
THEOREM NoSecretGivenUp == FaultBound => (Spec => []NobodyGivesUp)
<1>1. NobodyGivesUp /\ ErrorsCovered => NobodyGivesUp
  OBVIOUS
<1> SUFFICES ASSUME FaultBound PROVE Spec => []NobodyGivesUp
  OBVIOUS
<1>2. Spec => [](NobodyGivesUp /\ ErrorsCovered)
  BY CoverIsSafe
<1> QED BY <1>1, <1>2, PTL

\* run_vss never returns a share that is not the dealer's, for any n >= 4t + 1
\* and any t faulty parties in each of the two committees.
THEOREM Soundness == FaultBound => (Spec => []SharesRight)
<1>1. IInv => SharesRight
  BY DEF IInv, Honest
<1> SUFFICES ASSUME FaultBound PROVE Spec => []SharesRight
  OBVIOUS
<1>2. Spec => []IInv
  BY Invariance
<1> QED BY <1>1, <1>2, PTL

-----------------------------------------------------------------------------
(* The ideal functionality.                                                *)

LEMMA IdealStep ==
  FaultBound /\ IInv /\ [Next]_vars => [Ideal!IdealNext]_(Ideal!idealVars)
<1> SUFFICES ASSUME FaultBound, IInv, [Next]_vars
             PROVE  [Ideal!IdealNext]_(Ideal!idealVars)
  OBVIOUS
<1>0. Base /\ Honest /\ Typed /\ Ordered
  BY DEF IInv, Base
<1> USE DEF Ideal!IdealNext, Ideal!idealVars, Ideal!Dealt, Ideal!Obtain
<1>1. ASSUME NEW i \in Party, Deal(i) PROVE [Ideal!IdealNext]_(Ideal!idealVars)
  <2>1. slices # Party /\ UNCHANGED share
    BY <1>1 DEF Deal
  <2> QED BY <2>1
<1>2. ASSUME NEW k \in Party, Com1ForwardSlice(k)
      PROVE  [Ideal!IdealNext]_(Ideal!idealVars)
  BY <1>2 DEF Com1ForwardSlice
<1>3. ASSUME NEW k \in Party, Com2ProcessColumn(k)
      PROVE  [Ideal!IdealNext]_(Ideal!idealVars)
  BY <1>3 DEF Com2ProcessColumn
<1>4. ASSUME NEW k \in Party, Com2SendScalars(k)
      PROVE  [Ideal!IdealNext]_(Ideal!idealVars)
  BY <1>4 DEF Com2SendScalars
<1>5. ASSUME NEW k \in Party, Public(k) PROVE [Ideal!IdealNext]_(Ideal!idealVars)
  <2>1. UNCHANGED <<slices, share>>
    BY <1>0, <1>5, CoverFacts DEF Public
  <2> QED BY <2>1
<1>6. ASSUME NEW k \in Party, Com3Reconstruct(k)
      PROVE  [Ideal!IdealNext]_(Ideal!idealVars)
  <2>1. share' = [share EXCEPT ![k] = "right"]
    BY <1>0, <1>6, Com3IsRight
  <2>2. share[k] = "none" /\ UNCHANGED slices
    BY <1>0, <1>6 DEF Com3Reconstruct, Go, Ordered
  <2>3. slices = Party
    <3>1. accusers = Party
      BY <1>0, <1>6 DEF Com3Reconstruct, Go, Base, Settled, Decided
    <3>2. lines = Party
      BY <1>0, <3>1, PartyAssumption DEF Ordered
    <3> QED BY <1>0, <3>2 DEF Ordered, Typed
  <2> QED BY <2>1, <2>2, <2>3
<1>7. ASSUME NEW k \in Party, Fail(k) PROVE [Ideal!IdealNext]_(Ideal!idealVars)
  BY <1>7 DEF Fail
<1>8. CASE UNCHANGED vars
  BY <1>8 DEF vars
<1> QED
  BY <1>1, <1>2, <1>3, <1>4, <1>5, <1>6, <1>7, <1>8 DEF Next, Step

\* run_vss at every node implements secret sharing by a trusted party: a share
\* is obtained only once everything is dealt, once by each node, and is the
\* dealer's, whatever t faulty rows and t faulty columns do.
THEOREM Implementation == FaultBound => (Spec => ImplementsIdeal)
<1>1. Init => Ideal!IdealInit
  BY PartyAssumption DEF Init, Ideal!IdealInit
<1> SUFFICES ASSUME FaultBound PROVE Spec => ImplementsIdeal
  OBVIOUS
<1>2. IInv /\ [Next]_vars => [Ideal!IdealNext]_(Ideal!idealVars)
  BY IdealStep
<1>3. Spec => []IInv
  BY Invariance
<1> QED BY <1>1, <1>2, <1>3, PTL DEF Spec, ImplementsIdeal, Ideal!IdealSpec

-----------------------------------------------------------------------------
(* VertexCover.  Minima, and the stack of calls.                           *)

LessThan == {ss \in Nat \X Nat : ss[1] < ss[2]}

\* Every non-empty set of natural numbers has a least member, which Min picks.
LEMMA LeastNatural ==
  ASSUME NEW S \in SUBSET Nat, S # {}
  PROVE  Min(S) \in S /\ \A y \in S : Min(S) <= y
<1>1. IsWellFoundedOn(LessThan, Nat)
  BY NatLessThanWellFounded DEF OpToRel, LessThan
<1>2. PICK x \in S : \A y \in S : ~ (<<y, x>> \in LessThan)
  BY <1>1, WFMin, Zenon
<1>3. ASSUME NEW y \in S
      PROVE  x <= y
  <2>1. x \in Nat /\ y \in Nat /\ <<y, x>> \notin LessThan
    BY <1>2
  <2>2. ~ (y < x)
    BY <2>1 DEF LessThan
  <2> QED BY <2>1, <2>2
<1>4. \E m \in S : \A y \in S : m <= y
  BY <1>3
<1> QED BY <1>4 DEF Min

Frame == [u : Left, v : Right \union {None}, rest : SUBSET Right]

CoverTyped ==
  /\ edges \in SUBSET (Left \X Right)
  /\ pair_u \in [Left -> Right \union {None}]
  /\ pair_v \in [Right -> Left \union {None}]
  /\ dist \in [Left -> Nat \union {None}] /\ depth \in Nat
  /\ turn \in SUBSET Left
  /\ calls \in Seq(Frame)
  /\ z_left \in SUBSET Left /\ z_right \in SUBSET Right
  /\ step \in {"bfs", "sweep", "dfs", "unwind", "reach", "done"}

\* Ranks are natural numbers, so -1 is none of them.
LEMMA RankFacts ==
  /\ Left \subseteq Nat /\ Right \subseteq Nat
  /\ None \notin Left /\ None \notin Right /\ None \notin Nat /\ None = -1
BY GraphAssumption DEF None

\* What a call that returns leaves on the stack.
LEMMA CallFacts ==
  ASSUME calls \in Seq(Frame), calls # <<>>
  PROVE  /\ Len(calls) \in Nat /\ Len(calls) >= 1
         /\ Top \in Frame
         /\ Return \in Seq(Frame) /\ Len(Return) = Len(calls) - 1
         /\ Return = <<>> <=> Len(calls) = 1
         /\ \A i \in 1..(Len(calls) - 1) : Return[i] = calls[i]
<1>1. Len(calls) \in Nat /\ Len(calls) >= 1
  OBVIOUS
<1>2. \A i \in 1..Len(calls) : calls[i] \in Frame
  OBVIOUS
<1>3. /\ Return \in Seq(Frame) /\ Len(Return) = Len(calls) - 1
      /\ \A i \in 1..(Len(calls) - 1) : Return[i] = calls[i]
  <2> DEFINE m == Len(calls) - 1
  <2>1. m \in Nat /\ \A i \in 1..m : calls[i] \in Frame
    BY <1>1, <1>2
  <2> HIDE DEF m
  <2>2. /\ SubSeq(calls, 1, m) \in Seq(Frame)
        /\ Len(SubSeq(calls, 1, m)) = IF 1 <= m THEN m - 1 + 1 ELSE 0
        /\ \A i \in 1..(m - 1 + 1) : SubSeq(calls, 1, m)[i] = calls[1 + i - 1]
    BY <2>1, SubSeqProperties
  <2>3. m - 1 + 1 = m /\ \A i \in 1..m : 1 + i - 1 = i
    BY <2>1
  <2>4. SubSeq(calls, 1, m) = Return
    BY Zenon DEF Return, m
  <2>5. /\ Return \in Seq(Frame) /\ Len(Return) = m
        /\ \A i \in 1..m : Return[i] = calls[i]
    BY <2>1, <2>2, <2>3, <2>4
  <2> QED BY <2>5 DEF m
<1> QED BY <1>1, <1>2, <1>3 DEF Top

\* What a call on the stack becomes when it has tried another column.
LEMMA TryFacts ==
  ASSUME CoverTyped, calls # <<>>, TryColumn
  PROVE  \E y \in Top.rest :
           LET k == Len(calls)
               f == [u |-> Top.u, v |-> y, rest |-> Top.rest \ {y}]
           IN  /\ step = "dfs" /\ y \in Right /\ f \in Frame
               /\ calls' \in Seq(Frame)
               /\ calls'[k] = f
               /\ \A i \in 1..(k - 1) : calls'[i] = calls[i]
               /\ \/ pair_v[y] = None /\ step' = "unwind" /\ Len(calls') = k
                  \/ /\ pair_v[y] # None /\ step' = "dfs"
                     /\ dist[pair_v[y]] = dist[Top.u] + 1
                     /\ Len(calls') = k + 1 /\ calls'[k + 1] = Call(pair_v[y])
                  \/ /\ pair_v[y] # None /\ step' = "dfs"
                     /\ dist[pair_v[y]] # dist[Top.u] + 1
                     /\ Len(calls') = k
<1> DEFINE y == Min(Top.rest)
           k == Len(calls)
           f == [u |-> Top.u, v |-> y, rest |-> Top.rest \ {y}]
           tried == Append(Return, f)
<1>1. /\ Top \in Frame /\ k \in Nat /\ k >= 1
      /\ Return \in Seq(Frame) /\ Len(Return) = k - 1
      /\ \A i \in 1..(k - 1) : Return[i] = calls[i]
  BY CallFacts DEF CoverTyped
<1>2. Top.rest \in SUBSET Nat /\ Top.rest # {} /\ Top.rest \in SUBSET Right /\ step = "dfs"
  BY <1>1, RankFacts DEF TryColumn, Frame
<1>3. y \in Top.rest /\ y \in Right
  BY <1>2, LeastNatural
<1> HIDE DEF y
<1>4. f \in Frame
  BY <1>1, <1>3 DEF Frame
<1> HIDE DEF f
<1>5. /\ tried \in Seq(Frame) /\ Len(tried) = k /\ tried[k] = f
      /\ \A i \in 1..(k - 1) : tried[i] = calls[i]
  BY <1>1, <1>4
<1> HIDE DEF tried
<1>6. CASE pair_v[y] = None /\ calls' = tried /\ step' = "unwind"
  BY <1>2, <1>3, <1>4, <1>5, <1>6 DEF f
<1>7. CASE pair_v[y] # None /\ Deeper(pair_v[y]) /\ calls' = Append(tried, Call(pair_v[y]))
           /\ step' = step
  <2>1. pair_v[y] \in Left /\ Adjacent(pair_v[y]) \in SUBSET Right
    BY <1>3, <1>7 DEF CoverTyped, Adjacent
  <2>2. Call(pair_v[y]) \in Frame
    BY <2>1 DEF Call, Frame
  <2> DEFINE c == Call(pair_v[y])
  <2> HIDE DEF c
  <2>3. /\ Append(tried, c) \in Seq(Frame) /\ Len(Append(tried, c)) = k + 1
        /\ Append(tried, c)[k + 1] = c
        /\ \A i \in 1..k : Append(tried, c)[i] = tried[i]
    BY <1>1, <1>5, <2>2 DEF c
  <2>4. k \in 1..k /\ \A i \in 1..(k - 1) : i \in 1..k
    BY <1>1
  <2>5. /\ calls' \in Seq(Frame) /\ Len(calls') = k + 1 /\ calls'[k + 1] = c
        /\ calls'[k] = f /\ \A i \in 1..(k - 1) : calls'[i] = calls[i]
    BY <1>5, <1>7, <2>3, <2>4 DEF c
  <2> QED BY <1>2, <1>3, <1>4, <1>7, <2>5 DEF f, c, Deeper
<1>8. CASE pair_v[y] # None /\ ~Deeper(pair_v[y]) /\ calls' = tried /\ step' = step
  BY <1>2, <1>3, <1>4, <1>5, <1>8 DEF f, Deeper
<1>9. \/ pair_v[y] = None /\ calls' = tried /\ step' = "unwind"
      \/ /\ pair_v[y] # None /\ Deeper(pair_v[y]) /\ calls' = Append(tried, Call(pair_v[y]))
         /\ step' = step
      \/ pair_v[y] # None /\ ~Deeper(pair_v[y]) /\ calls' = tried /\ step' = step
  BY DEF TryColumn, y, tried, f
<1> QED BY <1>6, <1>7, <1>8, <1>9

-----------------------------------------------------------------------------
(* VertexCover.  The inductive invariant.                                  *)

\* The calls in progress are one alternating path, a level further each; when it
\* unwinds, the column that the row on top is to get is nobody's partner.
Stacked ==
  /\ calls # <<>> <=> step \in {"dfs", "unwind"}
  /\ \A i \in 1..Len(calls) :
       /\ dist[calls[i].u] = i - 1
       /\ pair_u[calls[i].u] = IF i = 1 THEN None ELSE calls[i - 1].v
       /\ calls[i].rest \subseteq Adjacent(calls[i].u)
       /\ i < Len(calls) \/ step = "unwind" => calls[i].v \in Adjacent(calls[i].u)
  /\ step = "unwind" => \A x \in Left : pair_u[x] # Top.v

\* The columns a call has done with lead nowhere.
Tried ==
  step = "dfs" =>
    \A i \in 1..Len(calls) : \A y \in Adjacent(calls[i].u) \ calls[i].rest :
      \/ i < Len(calls) /\ y = calls[i].v
      \/ pair_v[y] # None /\ dist[pair_v[y]] # i

\* A row that has a level above the free rows' was reached from the level below.
Parented ==
  \A x \in Left :
    dist[x] > 0 => \E z \in Left : dist[z] = dist[x] - 1 /\ pair_u[x] \in Adjacent(z)

\* The levels that the breadth-first search has done with lead to no other rows
\* than those it has reached.
Broad ==
  step = "bfs" =>
    /\ Parented
    /\ \A x \in Left : dist[x] = 0 <=> x \in FreeLeft
    /\ \A x \in Left : dist[x] <= depth
    /\ \A x \in Left : dist[x] \in 0..(depth - 1) =>
         \A y \in Adjacent(x) : pair_v[y] # None => dist[pair_v[y]] # None

\* A row of the first level, free when the round began, is matched.
Augmented == \E x \in Left : dist[x] = 0 /\ x \notin FreeLeft

\* Until a search succeeds, the rows that gave up have cut off no way out.
Turns ==
  step \in {"sweep", "dfs", "unwind"} =>
    /\ \A x \in turn \intersect FreeLeft : dist[x] = 0
    /\ calls # <<>> => calls[1].u \notin turn
    /\ \/ Augmented \/ step = "unwind"
       \/ /\ Parented /\ Found
          /\ \A x \in FreeLeft \ turn :
               dist[x] = None \/ (calls # <<>> /\ x = calls[1].u)

\* No way out is left when the cover is read off, and what is reached for it was
\* reached by the last breadth-first search.
Closed ==
  step \in {"reach", "done"} =>
    /\ \A x \in Left : dist[x] # None =>
         \A y \in Adjacent(x) : pair_v[y] # None /\ dist[pair_v[y]] # None
    /\ FreeLeft \subseteq z_left
    /\ \A x \in z_left : dist[x] # None /\ (x \in FreeLeft \/ pair_u[x] \in z_right)
    /\ \A y \in z_right : \E x \in Left : dist[x] # None /\ y \in Adjacent(x)
    /\ Partners(z_right) \subseteq z_left
    /\ step = "done" => Crossed \subseteq z_right

CoverInv ==
  CoverTyped /\ IsMatching /\ Stacked /\ Tried /\ Broad /\ Turns /\ Closed

LEMMA CoverInitInv == CoverInit => CoverInv
<1> SUFFICES ASSUME CoverInit PROVE CoverInv
  OBVIOUS
<1>0. \A x \in Left : dist[x] = 0 /\ pair_u[x] = None
  BY DEF CoverInit, Levels
<1>1. CoverTyped
  <2>1. dist \in [Left -> Nat \union {None}]
    BY DEF CoverInit, Levels
  <2>2. edges \in SUBSET (Left \X Right)
    BY GraphAssumption DEF CoverInit
  <2> QED BY <2>1, <2>2 DEF CoverInit, CoverTyped
<1>2. IsMatching
  BY DEF CoverInit, IsMatching, FreeLeft
<1>3. Stacked
  BY DEF CoverInit, Stacked
<1>4. Broad
  BY <1>0 DEF CoverInit, Broad, Parented, FreeLeft
<1>5. Tried /\ Turns /\ Closed
  BY DEF CoverInit, Tried, Turns, Closed
<1> QED BY <1>1, <1>2, <1>3, <1>4, <1>5 DEF CoverInv

\* The breadth-first search goes on by a level.
LEMMA NextLevelInv ==
  ASSUME CoverInv, NextLevel
  PROVE  CoverInv'
<1> DEFINE fresh == Partners(UNION {Adjacent(x) : x \in Level(depth)}) \intersect Level(None)
<1>1. /\ CoverTyped /\ IsMatching /\ Stacked /\ Broad /\ step = "bfs" /\ calls = <<>>
  BY DEF CoverInv, NextLevel, Stacked
<1>2. /\ dist' = [x \in Left |-> IF x \in fresh THEN depth + 1 ELSE dist[x]]
      /\ depth' = depth + 1
      /\ UNCHANGED <<edges, pair_u, pair_v, turn, calls, z_left, z_right, step>>
  BY DEF NextLevel, matching, reached
<1>3. \A w \in Left : w \in fresh <=>
        /\ dist[w] = None
        /\ \E x \in Left : dist[x] = depth /\ \E y \in Adjacent(x) : pair_v[y] = w
  BY DEF Partners, Level
<1> HIDE DEF fresh
<1>4. \A x \in Left : /\ dist[x] \in Nat \/ dist[x] = None
                      /\ x \in fresh => dist'[x] = depth + 1 /\ dist[x] = None
                      /\ x \notin fresh => dist'[x] = dist[x]
  BY <1>1, <1>2, <1>3 DEF CoverTyped
<1>5. CoverTyped'
  BY <1>1, <1>2 DEF CoverTyped, Frame
<1>6. /\ FreeLeft' = FreeLeft /\ Top' = Top
      /\ \A x : Adjacent(x)' = Adjacent(x)
  BY <1>2 DEF FreeLeft, Top, Adjacent
<1>7. IsMatching'
  BY <1>1, <1>2, <1>6 DEF IsMatching
<1>8. Stacked' /\ Tried' /\ Turns' /\ Closed'
  BY <1>1, <1>2 DEF Stacked, Tried, Turns, Closed
<1>9. Parented'
  <2> SUFFICES ASSUME NEW x \in Left, dist'[x] > 0
               PROVE  \E z \in Left : dist'[z] = dist'[x] - 1 /\ pair_u[x] \in Adjacent(z)
    BY <1>2, <1>6 DEF Parented
  <2>1. CASE x \in fresh
    <3>1. PICK z \in Left : dist[z] = depth /\ \E y \in Adjacent(z) : pair_v[y] = x
      BY <2>1, <1>3
    <3>2. pair_u[x] \in Adjacent(z)
      BY <3>1, <1>1, RankFacts DEF IsMatching, Adjacent
    <3>3. dist'[z] = depth /\ dist'[x] = depth + 1
      BY <2>1, <3>1, <1>1, <1>4, RankFacts DEF CoverTyped
    <3> QED BY <3>1, <3>2, <3>3, <1>1 DEF CoverTyped
  <2>2. CASE x \notin fresh
    <3>1. PICK z \in Left : dist[z] = dist[x] - 1 /\ pair_u[x] \in Adjacent(z)
      BY <2>2, <1>1, <1>4 DEF Broad, Parented
    <3>2. dist'[z] = dist[z]
      BY <3>1, <2>2, <1>4, RankFacts
    <3> QED BY <3>1, <3>2, <2>2, <1>4
  <2> QED BY <2>1, <2>2
<1>10. Broad'
  <2>1. \A x \in Left : dist'[x] = 0 <=> x \in FreeLeft
    BY <1>1, <1>4, RankFacts DEF Broad, CoverTyped
  <2>2. \A x \in Left : dist'[x] <= depth'
    BY <1>1, <1>2, <1>4, RankFacts DEF Broad, CoverTyped
  <2>3. ASSUME NEW x \in Left, dist'[x] \in 0..depth, NEW y \in Adjacent(x), pair_v[y] # None
        PROVE  dist'[pair_v[y]] # None
    <3>1. pair_v[y] \in Left /\ dist[x] \in 0..depth
      BY <2>3, <1>1, <1>4, RankFacts DEF CoverTyped, Adjacent
    <3>2. CASE dist[x] = depth
      <4>1. dist[pair_v[y]] = None => pair_v[y] \in fresh
        BY <3>1, <3>2, <1>3
      <4>2. depth + 1 # None
        BY <1>1, RankFacts DEF CoverTyped
      <4> QED BY <4>1, <4>2, <3>1, <1>4
    <3>3. CASE dist[x] # depth
      <4>1. dist[x] \in 0..(depth - 1)
        BY <3>1, <3>3, <1>1 DEF CoverTyped
      <4>2. dist[pair_v[y]] # None
        BY <4>1, <2>3, <1>1 DEF Broad
      <4> QED BY <4>2, <3>1, <1>1, <1>4, RankFacts DEF CoverTyped
    <3> QED BY <3>2, <3>3
  <2>4. depth' - 1 = depth
    BY <1>1, <1>2 DEF CoverTyped
  <2> QED BY <2>1, <2>2, <2>3, <2>4, <1>2, <1>6, <1>9 DEF Broad
<1> QED BY <1>5, <1>7, <1>8, <1>10 DEF CoverInv

\* The breadth-first search has come to an end.
LEMMA EndBfsInv ==
  ASSUME CoverInv, EndBfs
  PROVE  CoverInv'
<1>1. CoverTyped /\ IsMatching /\ Stacked /\ Broad /\ step = "bfs" /\ calls = <<>>
  BY DEF CoverInv, EndBfs, Stacked
<1>2. UNCHANGED <<edges, pair_u, pair_v, dist, depth, calls>> /\ Level(depth) = {}
  BY DEF EndBfs, matching
<1>3. /\ FreeLeft' = FreeLeft /\ Top' = Top
      /\ \A x : Adjacent(x)' = Adjacent(x)
      /\ Found' = Found /\ Parented' = Parented
  BY <1>2 DEF FreeLeft, Top, Adjacent, Found, Parented
<1>4. CASE Found /\ step' = "sweep" /\ turn' = Left /\ UNCHANGED reached
  <2>1. CoverTyped'
    BY <1>1, <1>2, <1>4 DEF CoverTyped, reached, Frame
  <2>2. IsMatching' /\ Stacked' /\ Tried' /\ Broad' /\ Closed'
    BY <1>1, <1>2, <1>3, <1>4 DEF IsMatching, Stacked, Tried, Broad, Closed
  <2>3. Turns'
    <3>1. \A x \in turn' \intersect FreeLeft' : dist'[x] = 0
      BY <1>1, <1>2, <1>3 DEF Broad, FreeLeft
    <3>2. FreeLeft' \ turn' = {} /\ Parented' /\ Found' /\ calls' = <<>>
      BY <1>1, <1>2, <1>3, <1>4 DEF FreeLeft, Broad
    <3> QED BY <3>1, <3>2 DEF Turns
  <2> QED BY <2>1, <2>2, <2>3 DEF CoverInv
<1>5. CASE ~Found /\ step' = "reach" /\ UNCHANGED turn /\ z_left' = FreeLeft /\ z_right' = {}
  <2>1. CoverTyped'
    BY <1>1, <1>2, <1>5 DEF CoverTyped, FreeLeft, Frame
  <2>2. IsMatching' /\ Stacked' /\ Tried' /\ Broad' /\ Turns'
    BY <1>1, <1>2, <1>3, <1>5 DEF IsMatching, Stacked, Tried, Broad, Turns
  <2>3. ASSUME NEW x \in Left, dist[x] # None, NEW y \in Adjacent(x)
        PROVE  pair_v[y] # None /\ dist[pair_v[y]] # None
    <3>1. pair_v[y] # None
      BY <2>3, <1>5 DEF Found
    <3>2. dist[x] \in 0..(depth - 1)
      BY <2>3, <1>1, <1>2 DEF Broad, CoverTyped, Level
    <3> QED BY <3>1, <3>2, <1>1 DEF Broad
  <2>4. \A x \in z_left' : dist[x] # None
    BY <1>1, <1>5, RankFacts DEF Broad, FreeLeft
  <2>5. Partners(z_right)' = {}
    BY <1>2, <1>5 DEF Partners
  <2>6. Closed'
    BY <2>3, <2>4, <2>5, <1>2, <1>3, <1>5 DEF Closed
  <2> QED BY <2>1, <2>2, <2>6 DEF CoverInv
<1> QED BY <1>4, <1>5 DEF EndBfs

\* A search begins at the next row that is free.
LEMMA SearchInv ==
  ASSUME CoverInv, Search
  PROVE  CoverInv'
<1> DEFINE x == Min(turn \intersect FreeLeft)
<1>1. /\ CoverTyped /\ IsMatching /\ Turns /\ step = "sweep" /\ calls = <<>>
  BY DEF CoverInv, Search, Stacked
<1>2. /\ calls' = <<Call(x)>> /\ turn' = {z \in turn : z > x} /\ step' = "dfs"
      /\ UNCHANGED <<edges, pair_u, pair_v, dist, depth, z_left, z_right>>
  BY DEF Search, matching, reached
<1>3. x \in turn \intersect FreeLeft /\ \A z \in turn \intersect FreeLeft : x <= z
  <2>1. turn \intersect FreeLeft \in SUBSET Nat /\ turn \intersect FreeLeft # {}
    BY RankFacts DEF Search, FreeLeft
  <2> QED BY <2>1, LeastNatural
<1> HIDE DEF x
<1>4. /\ x \in Left /\ pair_u[x] = None /\ dist[x] = 0
      /\ Call(x) \in Frame /\ Call(x).u = x /\ Call(x).rest = Adjacent(x)
  <2>1. Adjacent(x) \in SUBSET Right
    BY DEF Adjacent
  <2> QED BY <1>1, <1>3, <2>1 DEF FreeLeft, Turns, Call, Frame
<1>5. Len(calls') = 1 /\ calls'[1] = Call(x) /\ calls' \in Seq(Frame)
  BY <1>2, <1>4
<1>6. /\ FreeLeft' = FreeLeft
      /\ \A z : Adjacent(z)' = Adjacent(z)
      /\ Found' = Found /\ Parented' = Parented /\ Augmented' = Augmented
  BY <1>2 DEF FreeLeft, Adjacent, Found, Parented, Augmented
<1>7. CoverTyped'
  BY <1>1, <1>2, <1>5 DEF CoverTyped, Frame
<1>8. IsMatching' /\ Broad' /\ Closed'
  BY <1>1, <1>2, <1>6 DEF IsMatching, Broad, Closed
<1>9. Stacked' /\ Tried'
  BY <1>2, <1>4, <1>5, <1>6 DEF Stacked, Tried
<1>10. Turns'
  <2>1. x \in Nat /\ turn \subseteq Nat
    BY <1>1, <1>4, RankFacts DEF CoverTyped
  <2>2. ASSUME NEW z \in FreeLeft \ turn'
        PROVE  z \in FreeLeft \ turn \/ z = x
    <3>1. z \in turn => ~ (z > x) /\ x <= z
      BY <2>2, <1>2, <1>3
    <3>2. z \in turn => z \in Nat
      BY <2>1
    <3> QED BY <3>1, <3>2, <2>1, <2>2
  <2>3. calls'[1].u = x /\ x \notin turn' /\ turn' \subseteq turn
    BY <2>1, <1>2, <1>4, <1>5
  <2> QED BY <2>2, <2>3, <1>1, <1>2, <1>5, <1>6 DEF Turns
<1> QED BY <1>7, <1>8, <1>9, <1>10 DEF CoverInv

\* A round ends, and the next one begins.
LEMMA EndRoundInv ==
  ASSUME CoverInv, EndRound
  PROVE  CoverInv'
<1>1. CoverTyped /\ IsMatching /\ step = "sweep" /\ calls = <<>>
  BY DEF CoverInv, EndRound, Stacked
<1>2. /\ dist' = Levels(FreeLeft) /\ depth' = 0 /\ turn' = {} /\ step' = "bfs"
      /\ UNCHANGED <<edges, pair_u, pair_v, calls, z_left, z_right>>
  BY DEF EndRound, matching, reached
<1>3. FreeLeft' = FreeLeft /\ Top' = Top /\ \A z : Adjacent(z)' = Adjacent(z)
  BY <1>2 DEF FreeLeft, Top, Adjacent
<1>4. \A x \in Left : /\ x \in FreeLeft => dist'[x] = 0
                      /\ x \notin FreeLeft => dist'[x] = None
  BY <1>2 DEF Levels
<1>5. CoverTyped'
  <2>1. dist' \in [Left -> Nat \union {None}]
    BY <1>2 DEF Levels
  <2> QED BY <2>1, <1>1, <1>2 DEF CoverTyped, Frame
<1>6. IsMatching' /\ Stacked' /\ Tried' /\ Turns' /\ Closed'
  BY <1>1, <1>2, <1>3 DEF IsMatching, Stacked, Tried, Turns, Closed
<1>7. Broad'
  <2>1. \A x \in Left : ~ (dist'[x] > 0) /\ dist'[x] <= 0 /\ (dist'[x] = 0 <=> x \in FreeLeft)
    BY <1>4, RankFacts
  <2>2. \A x \in Left : dist'[x] \notin 0..(depth' - 1)
    BY <2>1, <1>2
  <2>3. Parented'
    BY <2>1, Zenon DEF Parented
  <2> QED BY <2>1, <2>2, <2>3, <1>2, <1>3 DEF Broad
<1> QED BY <1>5, <1>6, <1>7 DEF CoverInv

\* A call tries a column.
LEMMA TryColumnInv ==
  ASSUME CoverInv, TryColumn
  PROVE  CoverInv'
<1> DEFINE k == Len(calls)
<1>1. /\ CoverTyped /\ IsMatching /\ Stacked /\ Tried /\ Turns
      /\ step = "dfs" /\ calls # <<>> /\ k \in Nat /\ k >= 1 /\ Top \in Frame
      /\ \A i \in 1..k : calls[i] \in Frame
  BY CallFacts DEF CoverInv, TryColumn, Stacked, CoverTyped
<1>2. PICK y \in Top.rest :
        /\ y \in Right
        /\ calls' \in Seq(Frame)
        /\ calls'[k] = [u |-> Top.u, v |-> y, rest |-> Top.rest \ {y}]
        /\ \A i \in 1..(k - 1) : calls'[i] = calls[i]
        /\ \/ pair_v[y] = None /\ step' = "unwind" /\ Len(calls') = k
           \/ /\ pair_v[y] # None /\ step' = "dfs"
              /\ dist[pair_v[y]] = dist[Top.u] + 1
              /\ Len(calls') = k + 1 /\ calls'[k + 1] = Call(pair_v[y])
           \/ /\ pair_v[y] # None /\ step' = "dfs"
              /\ dist[pair_v[y]] # dist[Top.u] + 1
              /\ Len(calls') = k
  BY <1>1, TryFacts, Zenon
<1>3. /\ UNCHANGED <<edges, pair_u, pair_v, dist, depth, turn, z_left, z_right>>
      /\ FreeLeft' = FreeLeft /\ \A z : Adjacent(z)' = Adjacent(z)
      /\ Found' = Found /\ Parented' = Parented /\ Augmented' = Augmented
  BY DEF TryColumn, matching, reached, FreeLeft, Adjacent, Found, Parented, Augmented
<1>4. /\ Top = calls[k] /\ dist[Top.u] = k - 1 /\ Top.rest \subseteq Adjacent(Top.u)
      /\ pair_u[Top.u] = IF k = 1 THEN None ELSE calls[k - 1].v
      /\ y \in Adjacent(Top.u)
  <2>1. Top = calls[k] /\ k \in 1..k
    BY <1>1 DEF Top
  <2>2. /\ dist[calls[k].u] = k - 1
        /\ pair_u[calls[k].u] = IF k = 1 THEN None ELSE calls[k - 1].v
        /\ calls[k].rest \subseteq Adjacent(calls[k].u)
    BY <2>1, <1>1 DEF Stacked
  <2> QED BY <2>1, <2>2
<1>5. /\ calls'[k].u = Top.u /\ calls'[k].v = y /\ calls'[k].rest = Top.rest \ {y}
      /\ step' \in {"dfs", "unwind"}
      /\ calls' # <<>> /\ Len(calls') \in Nat
  BY <1>1, <1>2
<1>6. CoverTyped'
  BY <1>1, <1>2, <1>3, <1>5 DEF CoverTyped, Frame
<1>7. Broad' /\ Closed'
  BY <1>5 DEF Broad, Closed
<1>8. Turns'
  <2>1. calls'[1].u = calls[1].u
    BY <1>1, <1>2, <1>4, <1>5
  <2> QED BY <2>1, <1>1, <1>3, <1>5 DEF Turns
<1>9. \A i \in 1..k :
        /\ dist[calls'[i].u] = i - 1
        /\ pair_u[calls'[i].u] = IF i = 1 THEN None ELSE calls'[i - 1].v
        /\ calls'[i].rest \subseteq Adjacent(calls'[i].u)
        /\ calls'[i].v \in Adjacent(calls'[i].u)
  <2> SUFFICES ASSUME NEW i \in 1..k
               PROVE  /\ dist[calls'[i].u] = i - 1
                      /\ pair_u[calls'[i].u] = IF i = 1 THEN None ELSE calls'[i - 1].v
                      /\ calls'[i].rest \subseteq Adjacent(calls'[i].u)
                      /\ calls'[i].v \in Adjacent(calls'[i].u)
    OBVIOUS
  <2>1. CASE i = k
    BY <2>1, <1>1, <1>2, <1>4, <1>5
  <2>2. CASE i # k
    BY <2>2, <1>1, <1>2 DEF Stacked
  <2> QED BY <2>1, <2>2
<1>10. CASE pair_v[y] = None /\ step' = "unwind" /\ Len(calls') = k
  <2>1. Top' = calls'[k]
    BY <1>10 DEF Top
  <2>2. ASSUME NEW x \in Left, pair_u[x] = y
        PROVE  FALSE
    <3>1. x \in Left \ FreeLeft
      BY <2>2, <1>2, RankFacts DEF FreeLeft
    <3> QED BY <3>1, <2>2, <1>1, <1>10, RankFacts DEF IsMatching
  <2>3. IsMatching'
    BY <1>1, <1>3 DEF IsMatching
  <2>4. Stacked'
    BY <2>1, <2>2, <1>3, <1>5, <1>9, <1>10 DEF Stacked
  <2>5. Tried'
    BY <1>10 DEF Tried
  <2> QED BY <2>3, <2>4, <2>5, <1>6, <1>7, <1>8 DEF CoverInv
<1>11. CASE /\ pair_v[y] # None /\ step' = "dfs" /\ dist[pair_v[y]] = dist[Top.u] + 1
            /\ Len(calls') = k + 1 /\ calls'[k + 1] = Call(pair_v[y])
  <2> DEFINE w == pair_v[y]
  <2>1. w \in Left /\ pair_u[w] = y /\ dist[w] = k
    BY <1>1, <1>2, <1>4, <1>11 DEF IsMatching, CoverTyped
  <2>2. calls'[k + 1].u = w /\ calls'[k + 1].rest = Adjacent(w)
    BY <1>11 DEF Call
  <2>3. IsMatching'
    BY <1>1, <1>3, <1>11 DEF IsMatching
  <2>4. ASSUME NEW i \in 1..(k + 1)
        PROVE  /\ dist[calls'[i].u] = i - 1
               /\ pair_u[calls'[i].u] = IF i = 1 THEN None ELSE calls'[i - 1].v
               /\ calls'[i].rest \subseteq Adjacent(calls'[i].u)
               /\ i < k + 1 => calls'[i].v \in Adjacent(calls'[i].u)
    <3>1. CASE i \in 1..k
      BY <3>1, <1>9, <1>1
    <3>2. CASE i = k + 1
      <4>1. i # 1 /\ i - 1 = k
        BY <3>2, <1>1
      <4> QED BY <3>2, <4>1, <2>1, <2>2, <1>1, <1>5
    <3> QED BY <3>1, <3>2, <1>1
  <2>5. Stacked'
    BY <2>4, <1>3, <1>5, <1>11 DEF Stacked
  <2>6. ASSUME NEW i \in 1..(k + 1), NEW z \in Adjacent(calls'[i].u) \ calls'[i].rest
        PROVE  \/ i < k + 1 /\ z = calls'[i].v
               \/ pair_v[z] # None /\ dist[pair_v[z]] # i
    <3>1. CASE i = k + 1
      BY <3>1, <2>2, <2>6
    <3>2. CASE i = k
      <4>1. z = y \/ z \in Adjacent(calls[k].u) \ calls[k].rest
        BY <3>2, <2>6, <1>4, <1>5
      <4> QED BY <3>2, <4>1, <1>1, <1>5 DEF Tried
    <3>3. CASE i \in 1..(k - 1)
      BY <3>3, <2>6, <1>1, <1>2 DEF Tried
    <3> QED BY <3>1, <3>2, <3>3, <1>1
  <2>7. Tried'
    BY <2>6, <1>3, <1>11 DEF Tried
  <2> QED BY <2>3, <2>5, <2>7, <1>6, <1>7, <1>8 DEF CoverInv
<1>12. CASE /\ pair_v[y] # None /\ step' = "dfs" /\ dist[pair_v[y]] # dist[Top.u] + 1
            /\ Len(calls') = k
  <2>1. IsMatching'
    BY <1>1, <1>3, <1>12 DEF IsMatching
  <2>2. Stacked'
    BY <1>3, <1>5, <1>9, <1>12 DEF Stacked
  <2>3. ASSUME NEW i \in 1..k, NEW z \in Adjacent(calls'[i].u) \ calls'[i].rest
        PROVE  \/ i < k /\ z = calls'[i].v
               \/ pair_v[z] # None /\ dist[pair_v[z]] # i
    <3>1. CASE i = k
      <4>1. z = y \/ z \in Adjacent(calls[k].u) \ calls[k].rest
        BY <3>1, <2>3, <1>4, <1>5
      <4> QED BY <3>1, <4>1, <1>1, <1>4, <1>12 DEF Tried
    <3>2. CASE i \in 1..(k - 1)
      BY <3>2, <2>3, <1>1, <1>2 DEF Tried
    <3> QED BY <3>1, <3>2, <1>1
  <2>4. Tried'
    BY <2>3, <1>3, <1>12 DEF Tried
  <2> QED BY <2>1, <2>2, <2>4, <1>6, <1>7, <1>8 DEF CoverInv
<1> QED BY <1>2, <1>10, <1>11, <1>12

\* What holds of the call on top, and of those below it.
LEMMA TopFacts ==
  ASSUME CoverTyped, Stacked, calls # <<>>
  PROVE  /\ Len(calls) \in Nat /\ Len(calls) >= 1 /\ Top = calls[Len(calls)]
         /\ Len(calls) = 1 \/ Len(calls) > 1
         /\ Top.u \in Left /\ Top.v \in Right \union {None}
         /\ Top.rest \subseteq Adjacent(Top.u)
         /\ dist[Top.u] = Len(calls) - 1
         /\ Len(calls) = 1 => pair_u[Top.u] = None
         /\ Len(calls) > 1 => /\ pair_u[Top.u] = calls[Len(calls) - 1].v
                              /\ pair_u[Top.u] \in Right
         /\ step = "unwind" => Top.v \in Adjacent(Top.u)
         /\ \A i \in 1..(Len(calls) - 1) :
              calls[i] \in Frame /\ calls[i].u \in Left /\ calls[i].u # Top.u
<1> DEFINE k == Len(calls)
<1>1. k \in Nat /\ k >= 1 /\ Top = calls[k] /\ Top \in Frame
  BY CallFacts DEF CoverTyped, Top
<1>2. \A i \in 1..k : calls[i] \in Frame /\ calls[i].u \in Left
  <2>1. \A i \in 1..k : calls[i] \in Frame
    BY DEF CoverTyped
  <2> QED BY <2>1 DEF Frame
<1>3. k \in 1..k
  BY <1>1
<1>4. /\ dist[calls[k].u] = k - 1
      /\ pair_u[calls[k].u] = IF k = 1 THEN None ELSE calls[k - 1].v
      /\ calls[k].rest \subseteq Adjacent(calls[k].u)
      /\ step = "unwind" => calls[k].v \in Adjacent(calls[k].u)
  BY <1>3 DEF Stacked
<1>5. k > 1 => calls[k - 1].v \in Right
  <2>1. k > 1 => k - 1 \in 1..k /\ k - 1 < k
    BY <1>1
  <2> QED BY <2>1 DEF Stacked, Adjacent
<1>6. \A i \in 1..(k - 1) : calls[i].u # Top.u
  <2> SUFFICES ASSUME NEW i \in 1..(k - 1) PROVE calls[i].u # Top.u
    OBVIOUS
  <2>1. i \in 1..k /\ i - 1 # k - 1
    BY <1>1
  <2>2. dist[calls[i].u] = i - 1
    BY <2>1 DEF Stacked
  <2> QED BY <2>1, <2>2, <1>1, <1>4
<1>7. Top.u \in Left /\ Top.v \in Right \union {None}
  BY <1>1 DEF Frame
<1>8. (k = 1 \/ k > 1) /\ (k > 1 => k # 1)
  <2>1. k \in Nat /\ k >= 1
    BY <1>1
  <2>2. \A m \in Nat : m >= 1 => (m = 1 \/ m > 1) /\ (m > 1 => m # 1)
    OBVIOUS
  <2> HIDE DEF k
  <2> QED BY <2>1, <2>2
<1> QED BY <1>1, <1>2, <1>4, <1>5, <1>6, <1>7, <1>8

\* A call gives up.
LEMMA GiveUpInv ==
  ASSUME CoverInv, GiveUp
  PROVE  CoverInv'
<1> DEFINE k == Len(calls)
<1>1. /\ CoverTyped /\ IsMatching /\ Stacked /\ Tried /\ Turns
      /\ step = "dfs" /\ calls # <<>> /\ Top.rest = {}
  BY DEF CoverInv, GiveUp, Stacked
<1>2. /\ k \in Nat /\ k >= 1 /\ (k = 1 \/ k > 1) /\ Top = calls[k]
      /\ Top.u \in Left /\ dist[Top.u] = k - 1
      /\ k = 1 => pair_u[Top.u] = None
      /\ k > 1 => pair_u[Top.u] = calls[k - 1].v /\ pair_u[Top.u] \in Right
      /\ \A i \in 1..(k - 1) : calls[i].u \in Left /\ calls[i].u # Top.u
  BY <1>1, TopFacts
<1>3. /\ dist' = [dist EXCEPT ![Top.u] = None]
      /\ calls' = Return
      /\ step' = IF calls' = <<>> THEN "sweep" ELSE "dfs"
      /\ UNCHANGED <<edges, pair_u, pair_v, depth, turn, z_left, z_right>>
  BY DEF GiveUp, Resume, matching, reached
<1>4. /\ calls' \in Seq(Frame) /\ Len(calls') = k - 1 /\ (calls' = <<>> <=> k = 1)
      /\ \A i \in 1..(k - 1) : calls'[i] = calls[i]
  BY <1>1, <1>3, CallFacts DEF CoverTyped
<1>5. /\ dist'[Top.u] = None
      /\ \A x \in Left : x # Top.u => dist'[x] = dist[x]
      /\ \A x \in Left : dist[x] \in Nat \union {None} /\ dist'[x] \in Nat \union {None}
  BY <1>1, <1>2, <1>3 DEF CoverTyped
<1>6. FreeLeft' = FreeLeft /\ \A z : Adjacent(z)' = Adjacent(z)
  BY <1>3 DEF FreeLeft, Adjacent
<1>7. \A y \in Adjacent(Top.u) : pair_v[y] \in Left /\ dist[pair_v[y]] # k
  <2> SUFFICES ASSUME NEW y \in Adjacent(Top.u)
               PROVE  pair_v[y] \in Left /\ dist[pair_v[y]] # k
    OBVIOUS
  <2>1. k \in 1..k /\ ~ (k < k) /\ y \in Adjacent(calls[k].u) \ calls[k].rest /\ y \in Right
    BY <1>1, <1>2 DEF Adjacent
  <2>2. pair_v[y] # None /\ dist[pair_v[y]] # k
    BY <2>1, <1>1 DEF Tried
  <2> QED BY <2>1, <2>2, <1>1 DEF CoverTyped
<1>8. CoverTyped'
  BY <1>1, <1>3, <1>4 DEF CoverTyped, Frame
<1>9. IsMatching' /\ Broad' /\ Closed'
  BY <1>1, <1>3, <1>6 DEF IsMatching, Broad, Closed
<1>10. Stacked'
  <2>1. \A i \in 1..(k - 1) : i \in 1..k /\ i < k
    BY <1>2
  <2>2. ASSUME NEW i \in 1..(k - 1)
        PROVE  /\ dist'[calls'[i].u] = i - 1
               /\ pair_u[calls'[i].u] = IF i = 1 THEN None ELSE calls'[i - 1].v
               /\ calls'[i].rest \subseteq Adjacent(calls'[i].u)
               /\ calls'[i].v \in Adjacent(calls'[i].u)
    <3>1. i # 1 => i - 1 \in 1..(k - 1)
      BY <1>2
    <3>2. dist'[calls[i].u] = dist[calls[i].u]
      BY <1>2, <1>5
    <3> QED BY <2>1, <3>1, <3>2, <1>1, <1>4 DEF Stacked
  <2> QED BY <2>2, <1>3, <1>4, <1>6 DEF Stacked
<1>11. Tried'
  <2> SUFFICES ASSUME NEW i \in 1..(k - 1),
                      NEW y \in Adjacent(calls[i].u) \ calls[i].rest,
                      ~ (i < k - 1 /\ y = calls[i].v)
               PROVE  pair_v[y] # None /\ dist'[pair_v[y]] # i
    BY <1>3, <1>4, <1>6 DEF Tried
  <2>1. i \in 1..k /\ i < k /\ i # None /\ y \in Right
    BY <1>2, RankFacts DEF Adjacent
  <2>2. CASE y = calls[i].v
    <3>1. i = k - 1 /\ k > 1 /\ y = pair_u[Top.u]
      BY <2>1, <2>2, <1>2
    <3>2. pair_v[y] = Top.u
      BY <3>1, <2>1, <1>1, <1>2, RankFacts DEF IsMatching, FreeLeft
    <3> QED BY <3>2, <2>1, <1>2, <1>5, RankFacts
  <2>3. CASE y # calls[i].v
    <3>1. pair_v[y] # None /\ dist[pair_v[y]] # i
      BY <2>1, <2>3, <1>1 DEF Tried
    <3>2. pair_v[y] \in Left
      BY <3>1, <2>1, <1>1 DEF CoverTyped
    <3> QED BY <3>1, <3>2, <2>1, <1>5
  <2> QED BY <2>2, <2>3
<1>12. Turns'
  <2>1. k > 1 => calls'[1].u = calls[1].u /\ Top.u \notin FreeLeft
    BY <1>2, <1>4, RankFacts DEF FreeLeft
  <2>2. k = 1 => calls[1].u = Top.u /\ Top.u \notin turn /\ Top.u \in FreeLeft
    BY <1>1, <1>2 DEF Turns, FreeLeft
  <2>3. k = 1 \/ k > 1
    BY <1>2
  <2>4. \A x \in turn \intersect FreeLeft : dist'[x] = 0
    BY <2>1, <2>2, <2>3, <1>1, <1>5 DEF Turns, FreeLeft
  <2>5. calls' # <<>> => calls'[1].u \notin turn
    BY <2>1, <2>3, <1>1, <1>4 DEF Turns
  <2>6. CASE Augmented
    <3>1. PICK x \in Left : dist[x] = 0 /\ x \notin FreeLeft
      BY <2>6 DEF Augmented
    <3>2. x # Top.u
      BY <3>1, <2>2, <2>3, <1>2
    <3>3. Augmented'
      BY <3>1, <3>2, <1>5, <1>6 DEF Augmented
    <3> QED BY <3>3, <2>4, <2>5, <1>3, <1>6 DEF Turns
  <2>7. CASE ~Augmented
    <3>1. Parented /\ Found /\ \A x \in FreeLeft \ turn : dist[x] = None \/ x = calls[1].u
      BY <2>7, <1>1 DEF Turns
    <3>2. Parented'
      <4> SUFFICES ASSUME NEW x \in Left, dist'[x] > 0
                   PROVE  \E z \in Left : dist'[z] = dist'[x] - 1 /\ pair_u[x] \in Adjacent(z)
        BY <1>3, <1>6 DEF Parented
      <4>1. x # Top.u /\ dist'[x] = dist[x]
        BY <1>5, RankFacts
      <4>2. PICK z \in Left : dist[z] = dist[x] - 1 /\ pair_u[x] \in Adjacent(z)
        BY <3>1, <4>1 DEF Parented
      <4>3. z # Top.u
        <5> SUFFICES ASSUME z = Top.u PROVE FALSE
          OBVIOUS
        <5>1. pair_u[x] \in Right /\ x \notin FreeLeft
          BY <4>2, RankFacts DEF Adjacent, FreeLeft
        <5>2. pair_v[pair_u[x]] = x
          BY <5>1, <1>1 DEF IsMatching
        <5>3. dist[x] # k
          BY <5>2, <4>2, <1>7
        <5> QED BY <5>3, <4>1, <4>2, <1>2, <1>5, RankFacts
      <4> QED BY <4>1, <4>2, <4>3, <1>5
    <3>3. Found'
      <4>1. PICK x \in Left : dist[x] # None /\ \E y \in Adjacent(x) : pair_v[y] = None
        BY <3>1 DEF Found
      <4>2. x # Top.u
        BY <4>1, <1>7, RankFacts
      <4> QED BY <4>1, <4>2, <1>3, <1>5, <1>6 DEF Found
    <3>4. \A x \in FreeLeft \ turn :
            dist'[x] = None \/ (calls' # <<>> /\ x = calls'[1].u)
      BY <3>1, <2>1, <2>2, <2>3, <1>4, <1>5 DEF FreeLeft
    <3> QED BY <3>2, <3>3, <3>4, <2>4, <2>5, <1>3, <1>6 DEF Turns
  <2> QED BY <2>6, <2>7
<1> QED BY <1>8, <1>9, <1>10, <1>11, <1>12 DEF CoverInv

\* A call that has found a way out pairs its row with the column it tried.
LEMMA UnwindInv ==
  ASSUME CoverInv, Unwind
  PROVE  CoverInv'
<1> DEFINE k == Len(calls)
           u == Top.u
           v == Top.v
<1>1. CoverTyped /\ IsMatching /\ Stacked /\ Turns /\ step = "unwind" /\ calls # <<>>
  BY DEF CoverInv, Unwind, Stacked
<1>2. /\ k \in Nat /\ k >= 1 /\ (k = 1 \/ k > 1) /\ u \in Left /\ v \in Adjacent(u)
      /\ dist[u] = k - 1
      /\ k = 1 => pair_u[u] = None
      /\ k > 1 => pair_u[u] = calls[k - 1].v /\ pair_u[u] \in Right
      /\ \A i \in 1..(k - 1) : calls[i].u \in Left /\ calls[i].u # u
  BY <1>1, TopFacts
<1>3. /\ pair_u' = [pair_u EXCEPT ![u] = v] /\ pair_v' = [pair_v EXCEPT ![v] = u]
      /\ calls' = Return
      /\ step' = IF calls' = <<>> THEN "sweep" ELSE "unwind"
      /\ UNCHANGED <<edges, dist, depth, turn, z_left, z_right>>
  BY DEF Unwind, Repair, Resume, reached
<1>4. /\ calls' \in Seq(Frame) /\ Len(calls') = k - 1 /\ (calls' = <<>> <=> k = 1)
      /\ \A i \in 1..(k - 1) : calls'[i] = calls[i]
  BY <1>1, <1>3, CallFacts DEF CoverTyped
<1>5. v \in Right /\ v # None /\ <<u, v>> \in edges
  BY <1>2, RankFacts DEF Adjacent
<1>6. \A x \in Left : pair_u[x] # v
  BY <1>1 DEF Stacked
<1>7. k > 1 => Top' = calls[k - 1] /\ step' = "unwind"
  BY <1>2, <1>3, <1>4 DEF Top
<1> HIDE DEF u, v
<1>8. /\ pair_u'[u] = v /\ \A x \in Left : x # u => pair_u'[x] = pair_u[x]
      /\ pair_v'[v] = u /\ \A y \in Right : y # v => pair_v'[y] = pair_v[y]
  BY <1>1, <1>2, <1>3, <1>5 DEF CoverTyped
<1>9. \A z : Adjacent(z)' = Adjacent(z)
  BY <1>3 DEF Adjacent
<1>10. \A x \in Left : x \in FreeLeft' <=> x \in FreeLeft /\ x # u
  BY <1>5, <1>8 DEF FreeLeft
<1>11. CoverTyped'
  BY <1>1, <1>2, <1>3, <1>4, <1>5 DEF CoverTyped, Frame
<1>12. \A x \in Left \ FreeLeft : pair_u[x] \in Right /\ <<x, pair_u[x]>> \in edges /\ pair_v[pair_u[x]] = x
  BY <1>1 DEF CoverTyped, IsMatching, FreeLeft
<1>13. IsMatching'
  <2>1. ASSUME NEW x \in Left \ FreeLeft'
        PROVE  <<x, pair_u'[x]>> \in edges' /\ pair_v'[pair_u'[x]] = x
    <3>1. CASE x = u
      BY <3>1, <1>3, <1>5, <1>8
    <3>2. CASE x # u
      BY <3>2, <2>1, <1>3, <1>6, <1>8, <1>10, <1>12
    <3> QED BY <3>1, <3>2
  <2>2. ASSUME NEW y \in Right, pair_v'[y] # None
        PROVE  pair_u'[pair_v'[y]] = y \/ (step' = "unwind" /\ y = Top'.v)
    <3>1. CASE y = v
      BY <3>1, <1>8
    <3>2. CASE y # v
      <4>1. pair_v'[y] = pair_v[y] /\ pair_v[y] \in Left /\ pair_u[pair_v[y]] = y
        BY <3>2, <2>2, <1>1, <1>8 DEF IsMatching, CoverTyped, v
      <4>2. CASE pair_v[y] = u
        <5>1. k > 1 /\ y = calls[k - 1].v
          BY <4>1, <4>2, <2>2, <1>2, RankFacts
        <5> QED BY <5>1, <1>7
      <4>3. CASE pair_v[y] # u
        BY <4>1, <4>3, <1>8
      <4> QED BY <4>2, <4>3
    <3> QED BY <3>1, <3>2
  <2> QED BY <2>1, <2>2 DEF IsMatching
<1>14. Stacked'
  <2>1. \A i \in 1..(k - 1) : i \in 1..k /\ i < k
    BY <1>2
  <2>2. ASSUME NEW i \in 1..(k - 1)
        PROVE  /\ dist'[calls'[i].u] = i - 1
               /\ pair_u'[calls'[i].u] = IF i = 1 THEN None ELSE calls'[i - 1].v
               /\ calls'[i].rest \subseteq Adjacent(calls'[i].u)
               /\ calls'[i].v \in Adjacent(calls'[i].u)
    <3>1. i # 1 => i - 1 \in 1..(k - 1)
      BY <1>2
    <3>2. pair_u'[calls[i].u] = pair_u[calls[i].u]
      BY <1>2, <1>8
    <3> QED BY <2>1, <3>1, <3>2, <1>1, <1>3, <1>4 DEF Stacked
  <2>3. ASSUME k > 1, NEW x \in Left
        PROVE  pair_u'[x] # Top'.v
    <3>1. Top'.v = pair_u[u] /\ u \notin FreeLeft
      BY <2>3, <1>2, <1>7, RankFacts DEF FreeLeft
    <3>2. CASE x = u
      BY <3>1, <3>2, <1>2, <1>6, <1>8
    <3>3. CASE x # u
      <4>1. pair_u[x] = pair_u[u] => x \notin FreeLeft
        BY <2>3, <1>2, RankFacts DEF FreeLeft
      <4>2. pair_u[x] # pair_u[u]
        BY <3>1, <3>3, <4>1, <1>2, <1>12
      <4> QED BY <3>1, <3>3, <4>2, <1>8
    <3> QED BY <3>2, <3>3
  <2>4. k = 1 \/ k > 1
    BY <1>2
  <2> QED BY <2>2, <2>3, <2>4, <1>3, <1>4, <1>9 DEF Stacked
<1>15. Tried' /\ Broad' /\ Closed'
  BY <1>3 DEF Tried, Broad, Closed
<1>16. Turns'
  <2>1. \A x \in turn' \intersect FreeLeft' : dist'[x] = 0
    BY <1>1, <1>3, <1>10 DEF Turns, CoverTyped
  <2>2. CASE k = 1
    <3>1. dist'[u] = 0 /\ u \notin FreeLeft'
      BY <2>2, <1>2, <1>3, <1>10
    <3>2. Augmented'
      BY <3>1, <1>2 DEF Augmented
    <3> QED BY <2>1, <2>2, <3>2, <1>4 DEF Turns
  <2>3. CASE k > 1
    <3>1. calls'[1].u \notin turn'
      BY <2>3, <1>1, <1>2, <1>3, <1>4 DEF Turns
    <3> QED BY <2>1, <2>3, <3>1, <1>7 DEF Turns
  <2> QED BY <2>2, <2>3, <1>2
<1> QED BY <1>11, <1>13, <1>14, <1>15, <1>16 DEF CoverInv

\* What is reached for the cover grows, or is the cover's complement.
LEMMA ReachInv ==
  ASSUME CoverInv, Reach
  PROVE  CoverInv'
<1>1. CoverTyped /\ IsMatching /\ Closed /\ step = "reach" /\ calls = <<>>
  BY DEF CoverInv, Reach, Stacked
<1>2. /\ z_right' = z_right \union Crossed
      /\ z_left' = z_left \union Partners(z_right')
      /\ step' \in {"reach", "done"} /\ (step' = "done" => z_right' = z_right /\ z_left' = z_left)
      /\ UNCHANGED <<edges, pair_u, pair_v, dist, depth, turn, calls>>
  BY DEF Reach, matching, reached
<1>3. /\ FreeLeft' = FreeLeft /\ Top' = Top /\ \A z : Adjacent(z)' = Adjacent(z)
      /\ Partners(z_right)' = Partners(z_right')
  BY <1>2 DEF FreeLeft, Top, Adjacent, Partners
<1>4. Crossed \subseteq Right /\ Partners(z_right') \subseteq Left
  BY DEF Crossed, Adjacent, Partners
<1>5. CoverTyped'
  BY <1>1, <1>2, <1>4 DEF CoverTyped, Frame
<1>6. IsMatching' /\ Stacked' /\ Tried' /\ Broad' /\ Turns'
  BY <1>1, <1>2, <1>3 DEF IsMatching, Stacked, Tried, Broad, Turns
<1>7. \A y \in z_right' : \E x \in Left : dist[x] # None /\ y \in Adjacent(x)
  BY <1>1, <1>2 DEF Closed, Crossed, CoverTyped
<1>8. ASSUME NEW x \in Partners(z_right')
      PROVE  dist[x] # None /\ pair_u[x] \in z_right'
  <2>1. PICK y \in z_right' : pair_v[y] = x
    BY DEF Partners
  <2>2. x \in Left /\ y \in Right
    BY <1>1, <1>2, <1>4 DEF CoverTyped
  <2>3. pair_u[x] = y
    BY <2>1, <2>2, <1>1, RankFacts DEF IsMatching
  <2>4. dist[pair_v[y]] # None
    BY <1>1, <1>7 DEF Closed
  <2> QED BY <2>1, <2>3, <2>4
<1>9. step' = "done" => Crossed' \subseteq z_right'
  BY <1>2, <1>3 DEF Crossed
<1>10. Closed'
  <2>1. \A x \in z_left' : dist'[x] # None /\ (x \in FreeLeft' \/ pair_u'[x] \in z_right')
    BY <1>1, <1>2, <1>3, <1>8 DEF Closed
  <2>2. FreeLeft' \subseteq z_left' /\ Partners(z_right)' \subseteq z_left'
    BY <1>1, <1>2, <1>3 DEF Closed
  <2>3. \A x \in Left : dist'[x] # None =>
          \A y \in Adjacent(x)' : pair_v'[y] # None /\ dist'[pair_v'[y]] # None
    BY <1>1, <1>2, <1>3 DEF Closed
  <2>4. \A y \in z_right' : \E x \in Left : dist'[x] # None /\ y \in Adjacent(x)'
    BY <1>2, <1>3, <1>7
  <2> QED BY <2>1, <2>2, <2>3, <2>4, <1>9 DEF Closed
<1> QED BY <1>5, <1>6, <1>10 DEF CoverInv

LEMMA CoverInvariance == CoverSpec => []CoverInv
<1>1. CoverInv /\ UNCHANGED coverVars => CoverInv'
  <2> SUFFICES ASSUME CoverInv, UNCHANGED coverVars PROVE CoverInv'
    OBVIOUS
  <2>1. UNCHANGED <<edges, pair_u, pair_v, dist, depth, turn, calls, z_left, z_right, step>>
    BY DEF coverVars, matching, reached
  <2>2. /\ FreeLeft' = FreeLeft /\ Top' = Top /\ \A z : Adjacent(z)' = Adjacent(z)
        /\ Partners(z_right)' = Partners(z_right)
    BY <2>1 DEF FreeLeft, Top, Adjacent, Partners
  <2>3. Found' = Found /\ Parented' = Parented /\ Augmented' = Augmented /\ Crossed' = Crossed
    BY <2>1, <2>2 DEF Found, Parented, Augmented, Crossed
  <2>4. CoverTyped' /\ IsMatching' /\ Stacked' /\ Tried'
    BY <2>1, <2>2 DEF CoverInv, CoverTyped, Frame, IsMatching, Stacked, Tried
  <2>5. Broad' /\ Turns' /\ Closed'
    BY <2>1, <2>2, <2>3 DEF CoverInv, Broad, Turns, Closed
  <2> QED BY <2>4, <2>5 DEF CoverInv
<1>2. CoverInv /\ [CoverNext]_coverVars => CoverInv'
  BY <1>1, NextLevelInv, EndBfsInv, SearchInv, EndRoundInv, TryColumnInv, GiveUpInv, UnwindInv,
     ReachInv DEF CoverNext
<1> QED BY <1>2, CoverInitInv, PTL DEF CoverSpec

\* The two directions are one matching made of complaints, however far an augmenting
\* path has been re-paired (the end of dfs in hopcroft_karp).
THEOREM Matching == CoverSpec => []IsMatching
<1>1. CoverInv => IsMatching
  BY DEF CoverInv
<1> QED BY <1>1, CoverInvariance, PTL

\* A row that is re-paired has a new partner in the same step.
LEMMA MatchedStay ==
  ASSUME CoverInv, [CoverNext]_coverVars
  PROVE  FreeLeft' \subseteq FreeLeft
<1>1. CASE Unwind
  <2>1. CoverTyped /\ Stacked /\ calls # <<>> /\ step = "unwind"
    BY <1>1 DEF CoverInv, Stacked, Unwind
  <2>2. Top.v \in Adjacent(Top.u)
    BY <2>1, TopFacts
  <2>3. Top.v # None
    BY <2>2, RankFacts DEF Adjacent
  <2>4. \A x \in Left : pair_u'[x] = IF x = Top.u THEN Top.v ELSE pair_u[x]
    BY <1>1, <2>1 DEF Unwind, Repair, CoverTyped
  <2> QED BY <2>3, <2>4 DEF FreeLeft
<1>2. CASE pair_u' = pair_u
  BY <1>2 DEF FreeLeft
<1>3. Unwind \/ pair_u' = pair_u
  BY DEF CoverNext, NextLevel, EndBfs, Search, EndRound, TryColumn, GiveUp, Reach,
         coverVars, matching
<1> QED BY <1>1, <1>2, <1>3

\* As long as a row is found to have a way out, a row of the first level is left to
\* take it: the path that leads to it begins there.
LEMMA FirstLevel ==
  ASSUME CoverTyped, Parented, Found
  PROVE  \E x \in Left : dist[x] = 0
<1> DEFINE D == {d \in Nat : \E x \in Left : dist[x] = d}
<1>1. PICK x \in Left : dist[x] # None
  BY DEF Found
<1>2. D \in SUBSET Nat /\ dist[x] \in D
  BY <1>1 DEF CoverTyped
<1>3. Min(D) \in D /\ \A d \in D : Min(D) <= d
  BY <1>2, LeastNatural
<1>4. PICK w \in Left : dist[w] = Min(D)
  BY <1>3
<1>5. ASSUME Min(D) # 0
      PROVE  FALSE
  <2>1. dist[w] \in Nat /\ dist[w] > 0
    BY <1>3, <1>4, <1>5
  <2>2. PICK z \in Left : dist[z] = dist[w] - 1
    BY <2>1 DEF Parented
  <2>3. dist[z] \in D /\ dist[z] < dist[w]
    BY <2>1, <2>2
  <2> QED BY <2>1, <2>2, <2>3, <1>3, <1>4
<1> QED BY <1>4, <1>5

\* A round of searches matches at least one row that was free (dfs over all free rows
\* after a bfs that returned True in hopcroft_karp), and no row loses its partner.
THEOREM Progress == CoverSpec => RoundProgress
<1>1. ASSUME CoverInv, EndRound
      PROVE  Augmented
  <2>1. /\ CoverTyped /\ Stacked /\ Turns /\ calls = <<>>
        /\ step = "sweep" /\ turn \intersect FreeLeft = {}
    BY <1>1 DEF CoverInv, Stacked, EndRound
  <2>2. ASSUME ~Augmented
        PROVE  FALSE
    <3>1. Parented /\ Found /\ \A x \in FreeLeft \ turn : dist[x] = None
      BY <2>1, <2>2 DEF Turns
    <3>2. PICK x \in Left : dist[x] = 0
      BY <2>1, <3>1, FirstLevel
    <3>3. x \in FreeLeft \ turn
      BY <2>1, <2>2, <3>2 DEF Augmented
    <3> QED BY <3>1, <3>2, <3>3, RankFacts
  <2> QED BY <2>2
<1>2. CoverInv /\ [CoverNext]_coverVars =>
        [/\ FreeLeft' \subseteq FreeLeft
         /\ EndRound => \E x \in Left \ FreeLeft : dist[x] = 0]_coverVars
  BY <1>1, MatchedStay DEF Augmented
<1> QED BY <1>2, CoverInvariance, PTL DEF CoverSpec, RoundProgress

-----------------------------------------------------------------------------
(* VertexCover.  Koenig's argument.                                        *)

\* The cover accounts for every complaint.
LEMMA CoverCovers ==
  ASSUME CoverInv, step = "done"
  PROVE  IsCover(edges, Cover)
<1>1. CoverTyped /\ IsMatching /\ Closed
  BY DEF CoverInv
<1>2. ASSUME NEW e \in edges, e[1] \in z_left
      PROVE  e[2] \in z_right
  <2>1. e[1] \in Left /\ e[2] \in Right /\ e = <<e[1], e[2]>>
    BY <1>1 DEF CoverTyped
  <2>2. e[2] \in Adjacent(e[1])
    BY <2>1 DEF Adjacent
  <2>3. CASE e[2] = pair_u[e[1]]
    BY <2>1, <2>3, <1>1, <1>2, RankFacts DEF Closed, FreeLeft
  <2>4. CASE e[2] # pair_u[e[1]]
    BY <2>2, <2>4, <1>1, <1>2 DEF Closed, Crossed
  <2> QED BY <2>3, <2>4
<1>3. \A e \in edges : e[1] \in Left
  BY <1>1 DEF CoverTyped
<1> QED BY <1>2, <1>3 DEF IsCover, Cover

\* A row that is left out is matched, to a column that stays; and the other way round.
LEMMA CoverPairs ==
  ASSUME CoverInv, step = "done"
  PROVE  /\ \A x \in Left \ z_left :
              /\ pair_u[x] \in Right \ z_right
              /\ <<x, pair_u[x]>> \in edges /\ pair_v[pair_u[x]] = x
         /\ \A y \in z_right :
              /\ pair_v[y] \in z_left
              /\ <<pair_v[y], y>> \in edges /\ pair_u[pair_v[y]] = y
<1>1. CoverTyped /\ IsMatching /\ Closed
  BY DEF CoverInv
<1>2. ASSUME NEW x \in Left \ z_left
      PROVE  /\ pair_u[x] \in Right \ z_right
             /\ <<x, pair_u[x]>> \in edges /\ pair_v[pair_u[x]] = x
  <2>1. x \in Left \ FreeLeft
    BY <1>1, <1>2 DEF Closed
  <2>2. pair_u[x] \in Right /\ <<x, pair_u[x]>> \in edges /\ pair_v[pair_u[x]] = x
    BY <2>1, <1>1 DEF IsMatching, CoverTyped, FreeLeft
  <2>3. pair_u[x] \notin z_right
    BY <2>1, <2>2, <1>1, <1>2 DEF Closed, Partners
  <2> QED BY <2>2, <2>3
<1>3. ASSUME NEW y \in z_right
      PROVE  /\ pair_v[y] \in z_left
             /\ <<pair_v[y], y>> \in edges /\ pair_u[pair_v[y]] = y
  <2>1. y \in Right /\ pair_v[y] # None
    BY <1>1, <1>3 DEF Closed, CoverTyped
  <2>2. pair_v[y] \in Left /\ pair_u[pair_v[y]] = y
    BY <2>1, <1>1, <1>3 DEF IsMatching, CoverTyped
  <2>3. pair_v[y] \in z_left
    BY <2>2, <1>1, <1>3 DEF Closed, Partners
  <2>4. <<pair_v[y], y>> \in edges
    BY <2>1, <2>2, <1>1, RankFacts DEF IsMatching, FreeLeft
  <2> QED BY <2>2, <2>3, <2>4
<1> QED BY <1>2, <1>3

LEMMA SplitCardinality ==
  ASSUME NEW S, IsFiniteSet(S), NEW T
  PROVE  /\ Cardinality(S) \in Nat /\ Cardinality(S \intersect T) \in Nat
         /\ Cardinality(S \ T) \in Nat
         /\ Cardinality(S) = Cardinality(S \intersect T) + Cardinality(S \ T)
<1>1. IsFiniteSet(S \intersect T) /\ IsFiniteSet(S \ T)
  BY FS_Subset
<1>2. /\ Cardinality(S) \in Nat /\ Cardinality(S \intersect T) \in Nat
      /\ Cardinality(S \ T) \in Nat
  BY <1>1, FS_CardinalityType
<1>3. Cardinality(S \ T) = Cardinality(S) - Cardinality(S \intersect T)
  BY FS_Difference
<1> QED BY <1>2, <1>3

LEMMA PairsCardinality ==
  ASSUME NEW S, NEW T, IsFiniteSet(T), NEW f,
         \A x \in S : f[x] \in T,
         \A x, y \in S : f[x] = f[y] => x = y
  PROVE  Cardinality(S) <= Cardinality(T)
<1> DEFINE g == [x \in S |-> f[x]]
<1>1. g \in Injection(S, T)
  BY DEF Injection, IsInjective
<1> HIDE DEF g
<1> QED BY <1>1, FS_Injection

\* A row and its partner, or a column and its partner, are a complaint that any other
\* cover accounts for too: it is no smaller.
LEMMA CoverIsLeast ==
  ASSUME CoverInv, step = "done",
         NEW c \in [U : SUBSET Left, V : SUBSET Right], IsCover(edges, c)
  PROVE  Size(Cover) <= Size(c)
<1> DEFINE U == Left \ z_left
           V == z_right
<1>1. /\ \A x \in U : pair_u[x] \in Right \ V /\ <<x, pair_u[x]>> \in edges
                       /\ pair_v[pair_u[x]] = x
      /\ \A y \in V : pair_v[y] \in z_left /\ <<pair_v[y], y>> \in edges
                       /\ pair_u[pair_v[y]] = y
  BY CoverPairs
<1>2. IsFiniteSet(U) /\ IsFiniteSet(V) /\ IsFiniteSet(c.U) /\ IsFiniteSet(c.V)
  BY GraphAssumption, FS_Subset DEF CoverInv, CoverTyped
<1>3. \A x, y : <<x, y>> \in edges => x \in c.U \/ y \in c.V
  BY DEF IsCover
<1>4. Cardinality(U \ c.U) <= Cardinality(c.V \ V)
  <2>1. \A x \in U \ c.U : pair_u[x] \in c.V \ V
    BY <1>1, <1>3
  <2>2. ASSUME NEW x \in U \ c.U, NEW y \in U \ c.U, pair_u[x] = pair_u[y]
        PROVE  x = y
    <3>1. x = pair_v[pair_u[x]] /\ y = pair_v[pair_u[y]]
      BY <1>1
    <3> QED BY <2>2, <3>1
  <2>3. IsFiniteSet(c.V \ V)
    BY <1>2, FS_Subset
  <2> QED BY <2>1, <2>2, <2>3, PairsCardinality
<1>5. Cardinality(V \ c.V) <= Cardinality(c.U \ U)
  <2>1. \A y \in V \ c.V : pair_v[y] \in c.U \ U
    BY <1>1, <1>3
  <2>2. ASSUME NEW x \in V \ c.V, NEW y \in V \ c.V, pair_v[x] = pair_v[y]
        PROVE  x = y
    <3>1. x = pair_u[pair_v[x]] /\ y = pair_u[pair_v[y]]
      BY <1>1
    <3> QED BY <2>2, <3>1
  <2>3. IsFiniteSet(c.U \ U)
    BY <1>2, FS_Subset
  <2> QED BY <2>1, <2>2, <2>3, PairsCardinality
<1>6. c.U \intersect U = U \intersect c.U /\ c.V \intersect V = V \intersect c.V
  OBVIOUS
<1> HIDE DEF U, V
<1>7. /\ Cardinality(U) = Cardinality(U \intersect c.U) + Cardinality(U \ c.U)
      /\ Cardinality(V) = Cardinality(V \intersect c.V) + Cardinality(V \ c.V)
      /\ Cardinality(c.U) = Cardinality(U \intersect c.U) + Cardinality(c.U \ U)
      /\ Cardinality(c.V) = Cardinality(V \intersect c.V) + Cardinality(c.V \ V)
      /\ Cardinality(U \ c.U) \in Nat /\ Cardinality(V \ c.V) \in Nat
      /\ Cardinality(c.U \ U) \in Nat /\ Cardinality(c.V \ V) \in Nat
      /\ Cardinality(U \intersect c.U) \in Nat /\ Cardinality(V \intersect c.V) \in Nat
  BY <1>2, <1>6, SplitCardinality
<1>8. Cardinality(U) + Cardinality(V) <= Cardinality(c.U) + Cardinality(c.V)
  BY <1>4, <1>5, <1>7
<1> QED BY <1>8 DEF Size, Cover, U, V

\* What minimum_vertex_cover_from_complaints returns accounts for every complaint, and
\* no cover is smaller.
THEOREM MinimumCover == CoverSpec => []CoverIsMinimum
<1>1. CoverInv => CoverIsMinimum
  BY CoverCovers, CoverIsLeast DEF CoverIsMinimum
<1> QED BY <1>1, CoverInvariance, PTL

\* With a row and a column for each party, what the algorithm returns is what Vss takes
\* CoverOf to return (CoverAssumption), for the complaints it is started with.
THEOREM CoverForVss ==
  ASSUME Left = Party, Right = Party
  PROVE  CoverSpec => [](step = "done" =>
                           /\ Cover \in Covers
                           /\ IsCover(edges, Cover)
                           /\ \A c \in Rivals : IsCover(edges, c) => Size(Cover) <= Size(c))
<1>1. Rivals \subseteq [U : SUBSET Left, V : SUBSET Right]
  BY PartyAssumption DEF Rivals
<1>2. CoverInv /\ step = "done" => Cover \in Covers
  BY DEF CoverInv, CoverTyped, Cover, Covers
<1>3. CoverInv =>
        (step = "done" =>
           /\ Cover \in Covers
           /\ IsCover(edges, Cover)
           /\ \A c \in Rivals : IsCover(edges, c) => Size(Cover) <= Size(c))
  BY <1>1, <1>2, CoverCovers, CoverIsLeast
<1> QED BY <1>3, CoverInvariance, PTL
=============================================================================
