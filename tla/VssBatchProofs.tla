--------------------------- MODULE VssBatchProofs ---------------------------
(***************************************************************************)
(* Theorems about module VssBatch, for every n >= 4t + 1, every set of     *)
(* secrets, any faulty parties and any algorithm for the covers.           *)
(***************************************************************************)
EXTENDS VssBatch, FiniteSetTheorems, TLAPS

-----------------------------------------------------------------------------
(* One(Chosen) and Alone are two names of one instance of Vss.             *)

LEMMA SameBasics ==
  /\ Alone!Party = Party /\ One(Chosen)!Party = Party
  /\ \A c : Alone!GivenUp(c) <=> GivenUp(c)
  /\ \A S : Alone!Cardinality(S) = Cardinality(S)
  /\ \A S : One(Chosen)!Cardinality(S) = Cardinality(S)
  /\ \A m, e : One(Chosen)!Decode(m, e) = Alone!Decode(m, e)
<1>1. Alone!Party = Party /\ One(Chosen)!Party = Party
  BY DEF Alone!Party, One!Party, Party
<1>2. \A S : Alone!Cardinality(S) = Cardinality(S)
  BY Zenon DEF Alone!Cardinality, Cardinality
<1>3. \A S : One(Chosen)!Cardinality(S) = Cardinality(S)
  BY Zenon DEF One!Cardinality, Cardinality
<1>4. \A c : Alone!GivenUp(c) <=> GivenUp(c)
  BY <1>2 DEF Alone!GivenUp, Alone!Size, GivenUp
<1>5. \A m, e : One(Chosen)!Decode(m, e) = Alone!Decode(m, e)
  BY DEF One!Decode, Alone!Decode
<1> QED BY <1>1, <1>2, <1>3, <1>4, <1>5

LEMMA SameComplaints ==
  /\ \A j : One(Chosen)!Complaints(j) = Alone!Complaints(j)
  /\ One(Chosen)!Disagreement = Alone!Disagreement
<1>1. \A j : One(Chosen)!WrongRows(j) = Alone!WrongRows(j)
  BY SameBasics DEF One!WrongRows, Alone!WrongRows
<1>2. \A j : One(Chosen)!Complaints(j) = Alone!Complaints(j)
  BY <1>1, SameBasics DEF One!Complaints, Alone!Complaints
<1>3. One(Chosen)!Disagreement = Alone!Disagreement
  BY SameBasics DEF One!Disagreement, Alone!Disagreement
<1> QED BY <1>2, <1>3

LEMMA SameShares == \A c : Alone!Shares(c) = One(Chosen)!Shares(c)
<1>1. /\ \A i : Alone!RowOutcomes(i) = One(Chosen)!RowOutcomes(i)
      /\ \A c : Alone!Retained(c) = One(Chosen)!Retained(c)
      /\ \A S, m : Alone!First(S, m) = One(Chosen)!First(S, m)
  <2>1. \A i : Alone!RowOutcomes(i) = One(Chosen)!RowOutcomes(i)
    BY SameBasics DEF Alone!RowOutcomes, One!RowOutcomes, Alone!Suspect, One!Suspect
  <2>2. \A c : Alone!Retained(c) = One(Chosen)!Retained(c)
    BY SameBasics DEF Alone!Retained, One!Retained
  <2>3. \A S, m : Alone!First(S, m) = One(Chosen)!First(S, m)
    BY SameBasics DEF Alone!First, One!First
  <2> QED BY <2>1, <2>2, <2>3
<1>2. \A c : Alone!Unsure(c) = One(Chosen)!Unsure(c)
  BY <1>1 DEF Alone!Unsure, One!Unsure
<1>3. \A c : Alone!RightRows(c) = One(Chosen)!RightRows(c)
  BY <1>1, <1>2 DEF Alone!RightRows, One!RightRows
<1>4. \A c : Alone!RowResults(c) = One(Chosen)!RowResults(c)
  <2> SUFFICES ASSUME NEW c PROVE Alone!RowResults(c) = One(Chosen)!RowResults(c)
    OBVIOUS
  <2>1. Alone!RowResults(c)
          = {r \in [right : One(Chosen)!RightRows(c), bad : SUBSET One(Chosen)!Unsure(c)] :
               /\ r.right \intersect r.bad = {}
               /\ \A i \in r.right : "right" \in One(Chosen)!RowOutcomes(i)
               /\ \A i \in r.bad : "wrong" \in One(Chosen)!RowOutcomes(i)
               /\ \A i \in One(Chosen)!Retained(c) \ (r.right \union r.bad) :
                     "none" \in One(Chosen)!RowOutcomes(i)}
    BY Zenon, <1>1, <1>2, <1>3 DEF Alone!RowResults
  <2> QED BY Zenon, <2>1 DEF One!RowResults
<1>5. \A c, right, bad :
        Alone!ShareOutcomes(c, right, bad) = One(Chosen)!ShareOutcomes(c, right, bad)
  <2>1. \A S : Alone!Cardinality(S) = One(Chosen)!Cardinality(S)
    BY SameBasics
  <2>2. \A m, e : Alone!Decode(m, e) = One(Chosen)!Decode(m, e)
    BY SameBasics
  <2> QED BY Zenon, <1>1, <2>1, <2>2 DEF Alone!ShareOutcomes, One!ShareOutcomes
<1> QED BY <1>4, <1>5 DEF Alone!Shares, One!Shares

\* A choice for each secret is one for the chosen secret.
LEMMA EachOne ==
  ASSUME NEW S, NEW f \in Each(S)
  PROVE  f[Chosen] \in S[Chosen] /\ f = [b \in Batch |-> f[b]]
BY BatchAssumption DEF Each

LEMMA NoCoverIsKept == ~GivenUp(NoCover)
BY FS_EmptySet, BatchAssumption DEF GivenUp, NoCover

-----------------------------------------------------------------------------
(* Vectors have a component for each secret, and no node has a cover before *)
(* the stage that computes it.                                             *)

Stage == {"com1", "com2", "scalars", "public", "com3", "done", "failed"}
Early == {"com1", "com2", "scalars", "public"}

Vectors ==
  /\ pc \in [Party -> Stage]
  /\ wrong = [k \in Party |-> wrong[k]]
  /\ accused = [k \in Party |-> accused[k]]
  /\ cover = [k \in Party |-> cover[k]]
  /\ share = [k \in Party |-> share[k]]
  /\ \A k \in Party : pc[k] \in Early => cover[k] = ForAll(NoCover)

LEMMA VectorsInit == Init => Vectors
BY DEF Init, Vectors, Stage

LEMMA VectorsStep == Vectors /\ [Next]_vars => Vectors'
<1> SUFFICES ASSUME Vectors, [Next]_vars PROVE Vectors'
  OBVIOUS
<1> USE DEF Vectors, Stage, Early
<1>1. ASSUME NEW i \in Party, Deal(i) PROVE Vectors'
  BY <1>1 DEF Deal
<1>2. ASSUME NEW k \in Party, Com1ForwardSlice(k) PROVE Vectors'
  BY <1>2 DEF Com1ForwardSlice, Go
<1>3. ASSUME NEW k \in Party, Com2ProcessColumn(k) PROVE Vectors'
  BY <1>3 DEF Com2ProcessColumn, Go
<1>4. ASSUME NEW k \in Party, Com2SendScalars(k) PROVE Vectors'
  BY <1>4 DEF Com2SendScalars, Go
<1>5. ASSUME NEW k \in Party, Public(k) PROVE Vectors'
  BY <1>5 DEF Public, Go
<1>6. ASSUME NEW k \in Party, Com3Reconstruct(k) PROVE Vectors'
  BY <1>6 DEF Com3Reconstruct, Go
<1>7. ASSUME NEW k \in Party, Fail(k) PROVE Vectors'
  BY <1>7 DEF Fail
<1>8. CASE UNCHANGED vars
  BY <1>8 DEF vars
<1> QED BY <1>1, <1>2, <1>3, <1>4, <1>5, <1>6, <1>7, <1>8 DEF Next, Step

-----------------------------------------------------------------------------
(* Every step of the batch is a step of the chosen secret's run, or none.  *)

LEMMA AloneInit == Init => Alone!Init
BY NoCoverIsKept, SameBasics, BatchAssumption
   DEF Init, Alone!Init, Alone!NoCover, NoCover, PcOf, ShareOf, Of, ForAll

AloneStep == [Alone!Next]_(Alone!vars)

LEMMA NotYetGivenUp ==
  ASSUME Vectors, NEW k \in Party, pc[k] \in Early
  PROVE  ~GivenUp(cover[k][Chosen])
BY NoCoverIsKept, BatchAssumption DEF Vectors, ForAll

\* A node for which the chosen secret is not given up goes on.
LEMMA Moves ==
  ASSUME Vectors, NEW k \in Party, NEW to, ~GivenUp(cover[k][Chosen]),
         pc' = [pc EXCEPT ![k] = to], cover' = cover
  PROVE  /\ PcOf(Chosen)[k] = pc[k]
         /\ PcOf(Chosen)' = [PcOf(Chosen) EXCEPT ![k] = to]
BY DEF Vectors, PcOf

\* The components of the chosen secret in a vector that one node sets.
LEMMA SetsOne ==
  ASSUME NEW x, x = [k \in Party |-> x[k]], NEW k \in Party, NEW f
  PROVE  Of([x EXCEPT ![k] = f], Chosen) = [Of(x, Chosen) EXCEPT ![k] = f[Chosen]]
BY DEF Of

LEMMA DealStep ==
  ASSUME Vectors, NEW i \in Party, Deal(i)
  PROVE  AloneStep
<1>1. UNCHANGED <<PcOf(Chosen), ShareOf(Chosen), Of(wrong, Chosen), Of(accused, Chosen),
                  Of(cover, Chosen)>>
  BY DEF Deal, PcOf, ShareOf, Of
<1>2. PcOf(Chosen)[Dealer] # "failed"
  BY BatchAssumption DEF Deal, PcOf
<1>3. Alone!Deal(i)
  BY <1>1, <1>2 DEF Deal, Alone!Deal
<1> QED BY <1>3, SameBasics DEF AloneStep, Alone!Next

LEMMA Com1Step ==
  ASSUME Vectors, NEW k \in Party, Com1ForwardSlice(k)
  PROVE  AloneStep
<1>1. ~GivenUp(cover[k][Chosen])
  BY NotYetGivenUp DEF Com1ForwardSlice, Go, Early
<1>2. Alone!Go(k, "com1", "com2")
  BY <1>1, Moves DEF Com1ForwardSlice, Go, Alone!Go
<1>3. PICK W \in IF k \in ByzRow THEN [Batch -> Lies] ELSE {ForAll({})} :
        wrong' = [wrong EXCEPT ![k] = W]
  BY DEF Com1ForwardSlice
<1>4. W[Chosen] \in IF k \in ByzRow THEN SUBSET Targets ELSE {{}}
  BY <1>3, BatchAssumption DEF ForAll
<1>5. Of(wrong, Chosen)' = [Of(wrong, Chosen) EXCEPT ![k] = W[Chosen]]
  BY <1>3 DEF Vectors, Of
<1>6. UNCHANGED <<ShareOf(Chosen), Of(accused, Chosen), Of(cover, Chosen)>>
  BY DEF Com1ForwardSlice, ShareOf, Of
<1>7. Alone!Com1ForwardSlice(k)
  BY <1>2, <1>4, <1>5, <1>6, SameBasics DEF Com1ForwardSlice, Alone!Com1ForwardSlice
<1> QED BY <1>7, SameBasics DEF AloneStep, Alone!Next, Alone!Step

LEMMA Com2Step ==
  ASSUME Vectors, NEW k \in Party, Com2ProcessColumn(k)
  PROVE  AloneStep
<1>1. ~GivenUp(cover[k][Chosen])
  BY NotYetGivenUp DEF Com2ProcessColumn, Go, Early
<1>2. Alone!Go(k, "com2", "scalars")
  BY <1>1, Moves DEF Com2ProcessColumn, Go, Alone!Go
<1>3. PICK A \in Accusations(k) : accused' = [accused EXCEPT ![k] = A]
  BY DEF Com2ProcessColumn
<1>4. A[Chosen] \in IF k \in ByzCol THEN SUBSET Targets ELSE Alone!Complaints(k)
  <2>1. A[Chosen] \in IF k \in ByzCol THEN SUBSET Targets ELSE One(Chosen)!Complaints(k)
    BY EachOne, BatchAssumption DEF Accusations
  <2> QED BY <2>1, SameComplaints
<1>5. Of(accused, Chosen)' = [Of(accused, Chosen) EXCEPT ![k] = A[Chosen]]
  BY <1>3 DEF Vectors, Of
<1>6. UNCHANGED <<ShareOf(Chosen), Of(wrong, Chosen), Of(cover, Chosen)>>
  BY DEF Com2ProcessColumn, ShareOf, Of
<1>7. Alone!Com2ProcessColumn(k)
  BY <1>2, <1>4, <1>5, <1>6, SameBasics DEF Com2ProcessColumn, Alone!Com2ProcessColumn
<1> QED BY <1>7, SameBasics DEF AloneStep, Alone!Next, Alone!Step

LEMMA ScalarsStep ==
  ASSUME Vectors, NEW k \in Party, Com2SendScalars(k)
  PROVE  AloneStep
<1>1. ~GivenUp(cover[k][Chosen])
  BY NotYetGivenUp DEF Com2SendScalars, Go, Early
<1>2. Alone!Go(k, "scalars", "public")
  BY <1>1, Moves DEF Com2SendScalars, Go, Alone!Go
<1>3. UNCHANGED <<ShareOf(Chosen), Of(wrong, Chosen), Of(accused, Chosen), Of(cover, Chosen)>>
  BY DEF Com2SendScalars, ShareOf, Of
<1>4. Alone!Com2SendScalars(k)
  BY <1>2, <1>3 DEF Com2SendScalars, Alone!Com2SendScalars
<1> QED BY <1>4, SameBasics DEF AloneStep, Alone!Next, Alone!Step

LEMMA PublicStep ==
  ASSUME Vectors, NEW k \in Party, Public(k)
  PROVE  AloneStep
<1> DEFINE c == [b \in Batch |-> CoverOf[One(b)!Disagreement]]
           own == CoverOf[Alone!Disagreement]
<1>1. /\ accusers = Party /\ pc[k] = "public"
      /\ cover' = [cover EXCEPT ![k] = c]
      /\ \/ /\ Needed(c) # {}
            /\ pc' = [pc EXCEPT ![k] = "com3"]
            /\ share' = share
         \/ /\ Needed(c) = {}
            /\ pc' = [pc EXCEPT ![k] = "done"]
            /\ share' = [share EXCEPT ![k] = ForAll("default")]
      /\ UNCHANGED <<slices, lines, wrong, accusers, accused, scalars>>
  BY DEF Public, Go
<1>2. c[Chosen] = own
  BY SameComplaints, BatchAssumption
<1> HIDE DEF c, own
<1>3. ~GivenUp(own) => Needed(c) # {}
  BY <1>2, BatchAssumption DEF Needed
<1>4. PcOf(Chosen)[k] = "public"
  BY <1>1, NotYetGivenUp DEF PcOf, Early
<1>5. Of(cover, Chosen)' = [Of(cover, Chosen) EXCEPT ![k] = own]
  BY <1>1, <1>2 DEF Of, Vectors
<1>6. PcOf(Chosen)' = [PcOf(Chosen) EXCEPT ![k] = IF GivenUp(own) THEN "done" ELSE "com3"]
  BY <1>1, <1>2, <1>3 DEF PcOf, Vectors
<1>7. ShareOf(Chosen)'
        = IF GivenUp(own) THEN [ShareOf(Chosen) EXCEPT ![k] = "default"] ELSE ShareOf(Chosen)
  <2>1. ~GivenUp(cover[k][Chosen])
    BY <1>1, NotYetGivenUp DEF Early
  <2>2. CASE GivenUp(own)
    BY <1>1, <1>2, <2>2 DEF ShareOf, Vectors
  <2>3. CASE ~GivenUp(own)
    BY <1>1, <1>2, <1>3, <2>1, <2>3 DEF ShareOf, Vectors
  <2> QED BY <2>2, <2>3
<1>8. UNCHANGED <<Of(wrong, Chosen), Of(accused, Chosen)>>
  BY <1>1 DEF Of
<1>9. Alone!Public(k)
  <2>1. CASE GivenUp(own)
    BY <1>1, <1>4, <1>5, <1>6, <1>7, <1>8, <2>1, SameBasics
       DEF Alone!Public, Alone!Go, own
  <2>2. CASE ~GivenUp(own)
    BY <1>1, <1>4, <1>5, <1>6, <1>7, <1>8, <2>2, SameBasics
       DEF Alone!Public, Alone!Go, own
  <2> QED BY <2>1, <2>2
<1> QED BY <1>9, SameBasics DEF AloneStep, Alone!Next, Alone!Step

\* The shares of the others are no step of a secret that was given up.
LEMMA Com3Step ==
  ASSUME Vectors, NEW k \in Party, Com3Reconstruct(k)
  PROVE  AloneStep
<1>1. UNCHANGED <<Of(wrong, Chosen), Of(accused, Chosen), Of(cover, Chosen)>>
  BY DEF Com3Reconstruct, Of
<1>2. UNCHANGED <<slices, lines, accusers, scalars>>
  BY DEF Com3Reconstruct
<1>3. PICK s \in Each([b \in Batch |-> IF b \in Needed(cover[k])
                                       THEN One(b)!Shares(cover[k][b]) ELSE {"default"}]) :
        share' = [share EXCEPT ![k] = s]
  BY DEF Com3Reconstruct
<1>4. CASE GivenUp(cover[k][Chosen])
  <2>1. PcOf(Chosen)' = PcOf(Chosen) /\ ShareOf(Chosen)' = ShareOf(Chosen)
    BY <1>3, <1>4 DEF Com3Reconstruct, Go, PcOf, ShareOf, Vectors
  <2> QED BY <1>1, <1>2, <2>1 DEF AloneStep, Alone!vars
<1>5. CASE ~GivenUp(cover[k][Chosen])
  <2>1. Alone!Go(k, "com3", "done")
    BY <1>5, Moves DEF Com3Reconstruct, Go, Alone!Go
  <2>2. s[Chosen] \in Alone!Shares(Of(cover, Chosen)[k])
    <3>1. s[Chosen] \in One(Chosen)!Shares(cover[k][Chosen])
      BY <1>5, EachOne, BatchAssumption DEF Needed
    <3> QED BY <3>1, SameShares DEF Of
  <2>3. ShareOf(Chosen)' = [ShareOf(Chosen) EXCEPT ![k] = s[Chosen]]
    BY <1>3, <1>5 DEF Com3Reconstruct, ShareOf, Vectors
  <2>4. Alone!Com3Reconstruct(k)
    BY <1>1, <1>2, <2>1, <2>2, <2>3, SameBasics DEF Com3Reconstruct, Alone!Com3Reconstruct
  <2> QED BY <2>4, SameBasics DEF AloneStep, Alone!Next, Alone!Step
<1> QED BY <1>4, <1>5

LEMMA FailStep ==
  ASSUME Vectors, NEW k \in Party, Fail(k)
  PROVE  AloneStep
<1>1. UNCHANGED <<ShareOf(Chosen), Of(wrong, Chosen), Of(accused, Chosen), Of(cover, Chosen)>>
  BY DEF Fail, ShareOf, Of
<1>2. UNCHANGED <<slices, lines, accusers, scalars>>
  BY DEF Fail
<1>3. CASE GivenUp(cover[k][Chosen])
  <2>1. PcOf(Chosen)' = PcOf(Chosen)
    BY <1>3 DEF Fail, PcOf, Vectors
  <2> QED BY <1>1, <1>2, <2>1 DEF AloneStep, Alone!vars
<1>4. CASE ~GivenUp(cover[k][Chosen])
  <2>1. /\ PcOf(Chosen)[k] = pc[k]
        /\ PcOf(Chosen)' = [PcOf(Chosen) EXCEPT ![k] = "failed"]
    BY <1>4, Moves DEF Fail
  <2>2. Alone!Fail(k)
    BY <1>1, <1>2, <2>1 DEF Fail, Alone!Fail
  <2> QED BY <2>2, SameBasics DEF AloneStep, Alone!Next
<1> QED BY <1>3, <1>4

LEMMA AloneSteps == Vectors /\ [Next]_vars => AloneStep
<1> SUFFICES ASSUME Vectors, [Next]_vars PROVE AloneStep
  OBVIOUS
<1>1. CASE UNCHANGED vars
  <2>1. UNCHANGED <<PcOf(Chosen), ShareOf(Chosen), Of(wrong, Chosen), Of(accused, Chosen),
                    Of(cover, Chosen)>>
    BY <1>1 DEF vars, PcOf, ShareOf, Of
  <2> QED BY <1>1, <2>1 DEF vars, AloneStep, Alone!vars
<1> QED BY <1>1, DealStep, Com1Step, Com2Step, ScalarsStep, PublicStep, Com3Step, FailStep
        DEF Next, Step

\* What a vector of secrets is for one of them: the run of run_vss_batch that it
\* sees is one of run_vss with the same faulty parties, whatever they lie about the
\* other secrets, and whichever of these are given up.
THEOREM Refinement == Spec => ImplementsVss
<1>1. Init => Alone!Init
  BY AloneInit
<1>2. Vectors /\ [Next]_vars => [Alone!Next]_(Alone!vars)
  BY AloneSteps DEF AloneStep
<1>3. Spec => []Vectors
  BY VectorsInit, VectorsStep, PTL DEF Spec
<1> QED BY <1>1, <1>2, <1>3, PTL DEF Spec, ImplementsVss, Alone!Spec
=============================================================================
