------------------------ MODULE MultiplicationProofs ------------------------
(***************************************************************************)
(* Theorems about module Multiplication, for every n >= 4t + 1, every set  *)
(* of faulty nodes and every number of repeated frames, and, after them,   *)
(* about the decoder its nodes call, module BerlekampWelch, for every      *)
(* prime field, every code and all values.                                 *)
(***************************************************************************)
EXTENDS Multiplication, BerlekampWelch, FiniteSetTheorems, WellFoundedInduction, TLAPS

-----------------------------------------------------------------------------
(* Sets of parties, and what is decoded.                                   *)

LEMMA PartySets ==
  /\ IsFiniteSet(Party) /\ Cardinality(Party) = n
  /\ \A S \in SUBSET Party :
        IsFiniteSet(S) /\ Cardinality(S) \in Nat /\ Cardinality(S) <= n
<1>1. IsFiniteSet(Party) /\ Cardinality(Party) = n
  BY FS_Interval, PartyAssumption DEF Party
<1>2. ASSUME NEW S \in SUBSET Party
      PROVE  IsFiniteSet(S) /\ Cardinality(S) \in Nat /\ Cardinality(S) <= n
  BY <1>1, FS_Subset, FS_CardinalityType
<1> QED BY <1>1, <1>2

\* A receive misses no more senders than frames are repeated; if it misses none
\* it heard everybody.
LEMMA HeardSize ==
  ASSUME TypeOK, NEW m \in Kind, NEW S \in Heard(m)
  PROVE  /\ S \in SUBSET sent[m] /\ S \in SUBSET Party
         /\ Cardinality(S) \in Nat
         /\ n - Repeats <= Cardinality(S) /\ Cardinality(S) <= n
         /\ n - Cardinality(S) \in 0..Repeats
         /\ repeated + (n - Cardinality(S)) \in 0..Repeats
         /\ repeated + n - Cardinality(S) \in 0..Repeats
         /\ Cardinality(S) = n => S = Party
<1>1. S \in SUBSET sent[m] /\ S \in SUBSET Party
  BY DEF Heard, TypeOK
<1>2. /\ Cardinality(S) \in Nat /\ Cardinality(S) <= n
      /\ repeated \in 0..Repeats /\ n - Cardinality(S) <= Repeats - repeated
  BY <1>1, PartySets DEF Heard, TypeOK
<1>3. Cardinality(S) = n => S = Party
  BY <1>1, PartySets, FS_Subset
<1> QED BY <1>1, <1>2, <1>3, PartyAssumption

LEMMA OutcomesRight ==
  ASSUME NEW m \in Nat, NEW deg \in Nat, NEW e \in Nat, NEW errors \in Nat,
         errors <= e, m >= deg + 2 * e + 1
  PROVE  Outcomes(m, deg, e, errors) \subseteq {"right"}
BY DEF Outcomes

\* The errors among the values heard are those of unsure senders.
LEMMA FewErrors ==
  ASSUME FaultBound, NEW S \in SUBSET Party, NEW unsure,
         S \intersect unsure \subseteq Faulty
  PROVE  Cardinality(S \intersect unsure) \in Nat /\ Cardinality(S \intersect unsure) <= t
<1>1. S \intersect unsure \in SUBSET Faulty /\ Faulty \in SUBSET Party
  BY PartyAssumption
<1> QED BY <1>1, PartySets, FS_Subset, PartyAssumption DEF FaultBound

LEMMA MasksRight ==
  ASSUME FaultBound, TypeOK, NEW S \in Heard("mul_mask_eval"),
         n - Cardinality(S) <= n - (3 * t + 1), NEW a \in MaskValues(S)
  PROVE  a = "right"
<1>1. /\ Cardinality(S) \in Nat /\ Cardinality(S) >= 3 * t + 1 /\ S \in SUBSET Party
  BY HeardSize, PartyAssumption DEF Kind
<1>2. PICK e \in 0..Cardinality(S \intersect Faulty) :
        \E o \in Reconstruct(Cardinality(S), e) : a = Value(o)
  BY DEF MaskValues, Errors
<1>6. PICK o : o \in Reconstruct(Cardinality(S), e) /\ a = Value(o)
  BY <1>2
<1>3. e \in Nat /\ e <= t
  <2>1. S \intersect Faulty \subseteq Faulty
    OBVIOUS
  <2>2. /\ Cardinality(S \intersect Faulty) \in Nat
        /\ Cardinality(S \intersect Faulty) <= t
    BY FewErrors, <1>1, <2>1
  <2> QED BY <2>2, <1>2, PartyAssumption
<1>4. o = "right"
  <2>1. CASE t > 0
    <3>1. Outcomes(Cardinality(S), t, t, e) \subseteq {"right"}
      BY <1>1, <1>3, OutcomesRight, PartyAssumption
    <3> QED BY <1>6, <1>1, <2>1, <3>1, PartyAssumption DEF Reconstruct
  <2>2. CASE t = 0
    BY <1>6, <1>1, <1>3, <2>2 DEF Reconstruct
  <2> QED BY <2>1, <2>2, PartyAssumption
<1> QED BY <1>6, <1>4 DEF Value

LEMMA DeltaRight ==
  ASSUME FaultBound, TypeOK, NEW S \in Heard("mul_d"),
         S \intersect UnsureTerms \subseteq Faulty,
         NEW a \in DeltaValues(S)
  PROVE  a = "right" \/ (a = "none" /\ n - Cardinality(S) > n - (4 * t + 1))
<1>1. Cardinality(S) \in Nat /\ S \in SUBSET Party
  BY HeardSize DEF Kind
<1>2. PICK e \in 0..Cardinality(S \intersect UnsureTerms) :
        \E o \in DecodeDelta(Cardinality(S), e) : a = Value(o)
  BY DEF DeltaValues, Errors
<1>6. PICK o : o \in DecodeDelta(Cardinality(S), e) /\ a = Value(o)
  BY <1>2
<1>3. e \in Nat /\ e <= t
  <2>1. /\ Cardinality(S \intersect UnsureTerms) \in Nat
        /\ Cardinality(S \intersect UnsureTerms) <= t
    BY FewErrors, <1>1
  <2> QED BY <2>1, <1>2, PartyAssumption
<1>4. CASE Cardinality(S) < 4 * t + 1
  BY <1>1, <1>6, <1>4, PartyAssumption DEF DecodeDelta, Value
<1>5. CASE Cardinality(S) >= 4 * t + 1
  <2>1. Outcomes(Cardinality(S), 2 * t, t, e) \subseteq {"right"}
    BY <1>1, <1>3, <1>5, OutcomesRight, PartyAssumption
  <2>2. o = "right"
    BY <1>6, <1>1, <1>5, <2>1, PartyAssumption DEF DecodeDelta
  <2> QED BY <1>6, <2>2 DEF Value
<1> QED BY <1>1, <1>4, <1>5, PartyAssumption

LEMMA RowRight ==
  ASSUME FaultBound, TypeOK, NEW S \in Heard("rs_mu"),
         S \intersect UnsureRows \subseteq Faulty,
         NEW a \in RowValues(S)
  PROVE  a = "right" \/ n - Cardinality(S) > 0
<1>1. Cardinality(S) \in Nat /\ S \in SUBSET Party
  BY HeardSize DEF Kind
<1>2. PICK e \in 0..Cardinality(S \intersect UnsureRows) :
        \E o \in DecodeRow(Cardinality(S), e) : a = Value(o)
  BY DEF RowValues, Errors
<1>6. PICK o : o \in DecodeRow(Cardinality(S), e) /\ a = Value(o)
  BY <1>2
<1>3. e \in Nat /\ e <= t
  <2>1. /\ Cardinality(S \intersect UnsureRows) \in Nat
        /\ Cardinality(S \intersect UnsureRows) <= t
    BY FewErrors, <1>1
  <2> QED BY <2>1, <1>2, PartyAssumption
<1>4. CASE Cardinality(S) >= n
  <2>1. Outcomes(Cardinality(S), t, t, e) \subseteq {"right"}
    BY <1>1, <1>3, <1>4, OutcomesRight, PartyAssumption
  <2>2. o = "right"
    BY <1>6, <1>1, <1>4, <2>1, PartyAssumption DEF DecodeRow
  <2> QED BY <1>6, <2>2 DEF Value
<1> QED BY <1>1, <1>4, PartyAssumption

\* Whatever the errors, a decoded value is one of three.
LEMMA ResultTypes ==
  ASSUME NEW S
  PROVE  /\ MaskValues(S) \subseteq {"none", "right", "any"}
         /\ DeltaValues(S) \subseteq {"none", "right", "any"}
         /\ RowValues(S) \subseteq {"none", "right", "any"}
<1>1. \A m, e : Reconstruct(m, e) \subseteq {"none", "right", "wrong"}
  BY DEF Reconstruct, Outcomes
<1>2. \A m, e : DecodeDelta(m, e) \subseteq {"none", "right", "wrong"}
  BY DEF DecodeDelta, Outcomes
<1>3. \A m, e : DecodeRow(m, e) \subseteq {"none", "right", "wrong"}
  BY DEF DecodeRow, Outcomes
<1>4. \A o \in {"none", "right", "wrong"} : Value(o) \in {"none", "right", "any"}
  BY DEF Value
<1>5. MaskValues(S) \subseteq {"none", "right", "any"}
  BY <1>1, <1>4 DEF MaskValues
<1>6. DeltaValues(S) \subseteq {"none", "right", "any"}
  BY <1>2, <1>4 DEF DeltaValues
<1>7. RowValues(S) \subseteq {"none", "right", "any"}
  BY <1>3, <1>4 DEF RowValues
<1> QED BY <1>5, <1>6, <1>7

-----------------------------------------------------------------------------
(* Types.                                                                  *)

\* A node broadcasts in one stage only.
Staged == \A k \in Party : pc[k] \in {"masks", "decode"} => k \notin sent["mul_d"]

\* Every step keeps the stages, the sets of senders, the counters and the
\* values of nodes in their types, and a node that has broadcast has decoded
\* its masks.
LEMMA TypeStep ==
  ASSUME TypeOK, Staged, [Next]_vars
  PROVE  TypeOK' /\ Staged'
<1> USE DEF TypeOK, Staged, Go, Send, Stage, Kind
<1>1. ASSUME NEW k \in Party, SendMasks(k)
      PROVE  TypeOK' /\ Staged'
  BY <1>1 DEF SendMasks
<1>2. ASSUME NEW k \in Party, NEW S \in Heard("mul_mask_eval"),
             NEW a \in MaskValues(S), NEW b \in MaskValues(S), BroadcastProduct(k, S, a, b)
      PROVE  TypeOK' /\ Staged'
  <2>1. {a, b} \subseteq {"none", "right", "any"}
    BY ResultTypes
  <2>2. lost' \in [Party -> [Kind -> 0..Repeats]] /\ repeated' \in 0..Repeats
    BY <1>2, HeardSize DEF BroadcastProduct, Count
  <2>3. /\ pc' \in [Party -> Stage]
        /\ st' \in [Party -> {"none", "right", "any"}]
        /\ s2t' \in [Party -> {"none", "right", "any"}]
        /\ delta' \in [Party -> {"none", "right", "any"}]
    BY <1>2, <2>1 DEF BroadcastProduct
  <2>4. out' \in [Party -> {"none", "right", "any", "zero"}]
    BY <1>2, <2>1 DEF BroadcastProduct
  <2>7. d' \in [Party -> {"none", "right", "any"}]
    BY <1>2, <2>1 DEF BroadcastProduct
  <2>8. sent' \in [Kind -> SUBSET Party]
    BY <1>2 DEF BroadcastProduct
  <2>5. ASSUME NEW i \in sent'["mul_d"]
        PROVE  st'[i] # "none" /\ s2t'[i] # "none" /\ d'[i] # "none"
    <3>1. k \notin sent["mul_d"]
      BY <1>2 DEF BroadcastProduct
    <3>2. CASE sent' = sent
      BY <1>2, <3>1, <3>2 DEF BroadcastProduct
    <3>3. CASE sent' # sent
      <4>1. ~Abort(a, b) /\ Send(k, "mul_d")
        BY <1>2, <3>3 DEF BroadcastProduct
      <4>2. i = k \/ i \in sent["mul_d"]
        BY <4>1
      <4> QED BY <1>2, <2>1, <3>1, <4>1, <4>2 DEF BroadcastProduct, Abort
    <3> QED BY <3>2, <3>3
  <2>6. Staged'
    BY <1>2 DEF BroadcastProduct
  <2> QED BY <2>2, <2>3, <2>4, <2>5, <2>6, <2>7, <2>8
<1>3. ASSUME NEW k \in Party, NEW S \in Heard("mul_d"), NEW a \in DeltaValues(S),
             SendRow(k, S, a)
      PROVE  TypeOK' /\ Staged'
  <2>1. a \in {"none", "right", "any"}
    BY ResultTypes
  <2>2. lost' \in [Party -> [Kind -> 0..Repeats]] /\ repeated' \in 0..Repeats
    BY <1>3, HeardSize DEF SendRow, Count
  <2>3. pc' \in [Party -> Stage]
    BY <1>3 DEF SendRow
  <2>6. delta' \in [Party -> {"none", "right", "any"}]
    BY <1>3, <2>1 DEF SendRow
  <2>7. out' \in [Party -> {"none", "right", "any", "zero"}]
    BY <1>3, <2>1 DEF SendRow
  <2>4. sent' \in [Kind -> SUBSET Party] /\ sent'["mul_d"] = sent["mul_d"]
    BY <1>3 DEF SendRow
  <2>5. UNCHANGED <<st, s2t, d>>
    BY <1>3 DEF SendRow
  <2>8. Staged'
    BY <1>3, <2>4 DEF SendRow
  <2> QED BY <2>2, <2>3, <2>4, <2>5, <2>6, <2>7, <2>8
<1>4. ASSUME NEW k \in Party, NEW S \in Heard("rs_mu"), NEW a \in RowValues(S),
             AddMask(k, S, a)
      PROVE  TypeOK' /\ Staged'
  <2>1. lost' \in [Party -> [Kind -> 0..Repeats]] /\ repeated' \in 0..Repeats
    BY <1>4, HeardSize DEF AddMask, Count
  <2> QED BY <1>4, <2>1 DEF AddMask
<1>5. ASSUME NEW k \in Party, Fail(k)
      PROVE  TypeOK' /\ Staged'
  BY <1>5 DEF Fail
<1>6. CASE UNCHANGED vars
  BY <1>6 DEF vars
<1> QED BY <1>1, <1>2, <1>3, <1>4, <1>5, <1>6 DEF Next, Step

LEMMA Types == Spec => [](TypeOK /\ Staged)
<1>1. Init => TypeOK /\ Staged
  BY PartyAssumption DEF Init, TypeOK, Staged, Nothing, Stage, Kind
<1>2. TypeOK /\ Staged /\ [Next]_vars => TypeOK' /\ Staged'
  BY TypeStep
<1> QED BY <1>1, <1>2, PTL DEF Spec

\* The multiplication is type correct (run_mul, run_resharing), whatever the
\* faults.
THEOREM TypeCorrect == Spec => []TypeOK
<1> QED BY Types, PTL

-----------------------------------------------------------------------------
(* A node without masks stops the others.                                  *)

\* A node opens the difference after having heard everybody, if it missed
\* nobody.
Opened ==
  \A l \in Party :
    delta[l] # "none" /\ lost[l]["mul_d"] = 0 => sent["mul_d"] = Party
\* The difference is opened in one stage only.
OpenedLate ==
  \A l \in Party : pc[l] \in {"masks", "decode", "open"} => delta[l] = "none"

LEMMA OpenedStep ==
  ASSUME TypeOK, OpenedLate, Opened, [Next]_vars
  PROVE  OpenedLate' /\ Opened'
<1> USE DEF OpenedLate, Opened
<1>1. ASSUME NEW k \in Party, SendMasks(k)
      PROVE  OpenedLate' /\ Opened'
  BY <1>1 DEF SendMasks, TypeOK, Go, Send, Kind
<1>2. ASSUME NEW k \in Party, NEW S \in Heard("mul_mask_eval"),
             NEW a \in MaskValues(S), NEW b \in MaskValues(S), BroadcastProduct(k, S, a, b)
      PROVE  OpenedLate' /\ Opened'
  <2>1. pc[k] = "decode" /\ delta' = delta
    BY <1>2 DEF BroadcastProduct, Go
  <2>2. \A l \in Party \ {k} : pc'[l] = pc[l]
    BY <1>2 DEF BroadcastProduct, Go, TypeOK
  <2>3. \A l \in Party : lost'[l]["mul_d"] = lost[l]["mul_d"]
    BY <1>2 DEF BroadcastProduct, Count, TypeOK, Kind
  <2>4. sent["mul_d"] = Party => sent'["mul_d"] = Party
    <3>1. sent' = sent \/ Send(k, "mul_d")
      BY <1>2 DEF BroadcastProduct
    <3>2. sent'["mul_d"] \in {sent["mul_d"], sent["mul_d"] \union {k}}
      BY <3>1 DEF Send, TypeOK, Kind
    <3> QED BY <3>2
  <2>5. delta[k] = "none"
    BY <2>1
  <2> QED BY <2>1, <2>2, <2>3, <2>4, <2>5
<1>3. ASSUME NEW k \in Party, NEW S \in Heard("mul_d"), NEW a \in DeltaValues(S),
             SendRow(k, S, a)
      PROVE  OpenedLate' /\ Opened'
  <2>1. Count(k, "mul_d", S)
    BY <1>3 DEF SendRow
  <2>2. /\ S \subseteq sent["mul_d"] /\ sent["mul_d"] \subseteq Party
        /\ Cardinality(S) \in Nat /\ (Cardinality(S) = n => S = Party)
    BY HeardSize DEF Kind, TypeOK
  <2>3. lost'[k]["mul_d"] = n - Cardinality(S)
    BY <2>1 DEF Count, TypeOK, Kind
  <2>4. \A l \in Party \ {k} : lost'[l]["mul_d"] = lost[l]["mul_d"] /\ pc'[l] = pc[l]
                               /\ delta'[l] = delta[l]
    BY <1>3, <2>1 DEF SendRow, Go, Count, TypeOK, Kind
  <2>5. sent'["mul_d"] = sent["mul_d"]
    BY <1>3 DEF SendRow, Send, TypeOK, Kind
  <2>6. pc'[k] \in {"done", "reshare"}
    BY <1>3 DEF SendRow, Go, TypeOK
  <2>7. lost'[k]["mul_d"] = 0 => sent["mul_d"] = Party
    <3>1. lost'[k]["mul_d"] = 0 => Cardinality(S) = n
      BY <2>2, <2>3, PartyAssumption
    <3> QED BY <2>2, <3>1
  <2> QED BY <2>4, <2>5, <2>6, <2>7
<1>4. ASSUME NEW k \in Party, NEW S \in Heard("rs_mu"), NEW a \in RowValues(S),
             AddMask(k, S, a)
      PROVE  OpenedLate' /\ Opened'
  BY <1>4 DEF AddMask, Go, Count, TypeOK, Kind
<1>5. ASSUME NEW k \in Party, Fail(k)
      PROVE  OpenedLate' /\ Opened'
  BY <1>5 DEF Fail, TypeOK
<1>6. CASE UNCHANGED vars
  BY <1>6 DEF vars
<1> QED BY <1>1, <1>2, <1>3, <1>4, <1>5, <1>6 DEF Next, Step

\* Unless it takes a frame received twice for the missing one, no node opens the
\* difference when another could not decode its masks (run_mul, "return 0"
\* before the broadcast), however many nodes are faulty.
THEOREM AbortIsCollective == Spec => []AbortStopsAll
<1>1. Init => OpenedLate /\ Opened
  BY DEF Init, OpenedLate, Opened, Nothing
<1>2. TypeOK /\ OpenedLate /\ Opened /\ [Next]_vars => OpenedLate' /\ Opened'
  BY OpenedStep
<1>3. TypeOK /\ Opened => AbortStopsAll
  <2> SUFFICES ASSUME TypeOK, Opened, NEW k \in Party, NEW l \in Party,
                      Aborted(k), delta[l] # "none"
               PROVE  lost[l]["mul_d"] > 0
    BY DEF AbortStopsAll
  <2>1. k \notin sent["mul_d"]
    BY DEF Aborted, TypeOK
  <2>2. lost[l]["mul_d"] # 0
    BY <2>1 DEF Opened
  <2> QED BY <2>2, PartyAssumption DEF TypeOK, Kind
<1> QED BY <1>1, <1>2, <1>3, TypeCorrect, PTL DEF Spec

-----------------------------------------------------------------------------
(* Shares are right.                                                       *)

\* What a node has done when it is in a stage.
Ladder ==
  /\ \A k \in Party : pc[k] \in {"open", "reshare"} => k \in sent["mul_d"]
  /\ \A k \in Party : pc[k] = "reshare" => delta[k] # "none"
  /\ sent["rs_mu"] \subseteq sent["mul_d"]

\* Nothing an honest node holds is wrong.
Clean ==
  \A k \in Party :
    /\ st[k] # "any" /\ s2t[k] # "any" /\ delta[k] # "any"
    /\ k \notin Faulty => d[k] # "any"

\* What a receive of masks has missed is counted when it ends.
Uncounted ==
  \A k \in Party : pc[k] \in {"masks", "decode"} => lost[k]["mul_mask_eval"] = 0

Sound ==
  TypeOK /\ Staged /\ Uncounted /\ (MasksHeard => Ladder /\ Clean) /\ SharesRight

\* No step makes masks decodable again that were not.
LEMMA MasksHeardStep ==
  ASSUME TypeOK, Uncounted, [Next]_vars
  PROVE  Uncounted' /\ (MasksHeard' => MasksHeard)
<1> USE DEF TypeOK, Uncounted, MasksHeard, Kind
<1>1. ASSUME NEW k \in Party, SendMasks(k)
      PROVE  Uncounted' /\ (MasksHeard' => MasksHeard)
  BY <1>1 DEF SendMasks, Go
<1>2. ASSUME NEW k \in Party, NEW S, NEW a, NEW b, BroadcastProduct(k, S, a, b),
             S \in Heard("mul_mask_eval")
      PROVE  Uncounted' /\ (MasksHeard' => MasksHeard)
  <2>1. /\ pc[k] = "decode" /\ pc'[k] \in {"open", "done"}
        /\ Count(k, "mul_mask_eval", S)
    BY <1>2 DEF BroadcastProduct, Go
  <2>2. \A l \in Party \ {k} : pc'[l] = pc[l] /\ lost'[l] = lost[l]
    BY <1>2 DEF BroadcastProduct, Go, Count
  <2>3. lost[k]["mul_mask_eval"] = 0 /\ lost'[k]["mul_mask_eval"] = n - Cardinality(S)
    BY <2>1 DEF Count
  <2>4. n - Cardinality(S) \in 0..Repeats
    BY <1>2, HeardSize
  <2> QED BY <2>1, <2>2, <2>3, <2>4, PartyAssumption
<1>3. ASSUME NEW k \in Party, NEW S, NEW a, SendRow(k, S, a)
      PROVE  Uncounted' /\ (MasksHeard' => MasksHeard)
  BY <1>3 DEF SendRow, Go, Count
<1>4. ASSUME NEW k \in Party, NEW S, NEW a, AddMask(k, S, a)
      PROVE  Uncounted' /\ (MasksHeard' => MasksHeard)
  BY <1>4 DEF AddMask, Go, Count
<1>5. ASSUME NEW k \in Party, Fail(k)
      PROVE  Uncounted' /\ (MasksHeard' => MasksHeard)
  BY <1>5 DEF Fail
<1>6. CASE UNCHANGED vars
  BY <1>6 DEF vars
<1> QED BY <1>1, <1>2, <1>3, <1>4, <1>5, <1>6 DEF Next, Step

LEMMA SoundStep ==
  ASSUME FaultBound, Sound, [Next]_vars, MasksHeard'
  PROVE  Ladder' /\ Clean' /\ SharesRight'
<1> USE DEF Sound
<1>0. MasksHeard
  BY MasksHeardStep
<1> USE <1>0
<1>1. ASSUME NEW k \in Party, SendMasks(k)
      PROVE  Ladder' /\ Clean' /\ SharesRight'
  BY <1>1 DEF SendMasks, Go, Send, Ladder, Clean, SharesRight, TypeOK, Kind
<1>2. ASSUME NEW k \in Party, NEW S \in Heard("mul_mask_eval"),
             NEW a \in MaskValues(S), NEW b \in MaskValues(S), BroadcastProduct(k, S, a, b)
      PROVE  Ladder' /\ Clean' /\ SharesRight'
  <2>1. a = "right" /\ b = "right"
    <3>1. lost'[k]["mul_mask_eval"] = n - Cardinality(S)
      BY <1>2 DEF BroadcastProduct, Count, TypeOK, Kind
    <3>2. n - Cardinality(S) <= n - (3 * t + 1)
      BY <3>1 DEF MasksHeard
    <3> QED BY <3>2, MasksRight
  <2>2. /\ Count(k, "mul_mask_eval", S)
        /\ st' = [st EXCEPT ![k] = a] /\ s2t' = [s2t EXCEPT ![k] = b]
        /\ pc[k] = "decode" /\ pc' = [pc EXCEPT ![k] = "open"]
        /\ d' = [d EXCEPT ![k] = IF k \in Faulty THEN "any" ELSE b]
        /\ sent' = [sent EXCEPT !["mul_d"] = @ \union {k}]
        /\ out' = out /\ delta' = delta
    BY <1>2, <2>1 DEF BroadcastProduct, Abort, Go, Send
  <2>3. Ladder'
    BY <2>2 DEF Ladder, TypeOK, Kind
  <2>4. Clean'
    BY <2>1, <2>2 DEF Clean, TypeOK
  <2>5. SharesRight'
    BY <2>2 DEF SharesRight, Count, TypeOK, Kind
  <2> QED BY <2>3, <2>4, <2>5
<1>3. ASSUME NEW k \in Party, NEW S \in Heard("mul_d"), NEW a \in DeltaValues(S),
             SendRow(k, S, a)
      PROVE  Ladder' /\ Clean' /\ SharesRight'
  <2>1. S \subseteq sent["mul_d"]
    BY HeardSize DEF Kind
  <2>2. S \intersect UnsureTerms \subseteq Faulty
    BY <2>1 DEF UnsureTerms, Clean, TypeOK, Kind
  <2>3. a = "right" \/ (a = "none" /\ n - Cardinality(S) > n - (4 * t + 1))
    BY <2>2, DeltaRight
  <2>4. /\ pc[k] = "open" /\ UNCHANGED <<st, s2t, d>> /\ Count(k, "mul_d", S)
    BY <1>3 DEF SendRow, Go
  <2>5. CASE a = "none"
    <3>1. /\ pc' = [pc EXCEPT ![k] = "done"] /\ out' = [out EXCEPT ![k] = "zero"]
          /\ UNCHANGED <<sent, delta>>
      BY <1>3, <2>5 DEF SendRow, Go
    <3>2. lost'[k]["mul_d"] > n - (4 * t + 1)
      BY <2>3, <2>4, <2>5 DEF Count, TypeOK, Kind
    <3>3. Ladder' /\ Clean'
      BY <2>4, <3>1 DEF Ladder, Clean, TypeOK
    <3>4. SharesRight'
      BY <2>4, <3>1, <3>2 DEF SharesRight, Count, TypeOK, Kind
    <3> QED BY <3>3, <3>4
  <2>6. CASE a = "right"
    <3>1. /\ pc' = [pc EXCEPT ![k] = "reshare"] /\ delta' = [delta EXCEPT ![k] = "right"]
          /\ sent' = [sent EXCEPT !["rs_mu"] = @ \union {k}] /\ UNCHANGED out
      BY <1>3, <2>6 DEF SendRow, Go, Send
    <3>2. Ladder'
      BY <2>4, <3>1 DEF Ladder, TypeOK, Kind
    <3>3. Clean'
      BY <2>4, <3>1 DEF Clean, TypeOK
    <3>4. SharesRight'
      BY <2>4, <3>1 DEF SharesRight, Count, TypeOK, Kind
    <3> QED BY <3>2, <3>3, <3>4
  <2> QED BY <2>3, <2>5, <2>6
<1>4. ASSUME NEW k \in Party, NEW S \in Heard("rs_mu"), NEW a \in RowValues(S),
             AddMask(k, S, a)
      PROVE  Ladder' /\ Clean' /\ SharesRight'
  <2>1. S \subseteq sent["rs_mu"]
    BY HeardSize DEF Kind
  <2>2. S \intersect UnsureRows \subseteq Faulty
    <3>1. \A i \in S : i \in Party /\ st[i] = "right"
      BY <2>1 DEF Ladder, Clean, TypeOK, Kind
    <3> QED BY <3>1 DEF UnsureRows
  <2>3. a = "right" \/ n - Cardinality(S) > 0
    BY <2>2, RowRight
  <2>4. /\ pc[k] = "reshare" /\ pc' = [pc EXCEPT ![k] = "done"]
        /\ UNCHANGED <<sent, st, s2t, d, delta>> /\ Count(k, "rs_mu", S)
        /\ out' = [out EXCEPT ![k] =
                     IF a = "right" /\ delta[k] = "right" THEN "right" ELSE "any"]
    BY <1>4 DEF AddMask, Go
  <2>5. delta[k] = "right"
    BY <2>4 DEF Ladder, Clean, TypeOK
  <2>6. Ladder' /\ Clean'
    BY <2>4 DEF Ladder, Clean, TypeOK
  <2>7. lost'[k]["rs_mu"] = n - Cardinality(S)
    BY <2>4 DEF Count, TypeOK, Kind
  <2>8. SharesRight'
    BY <2>3, <2>4, <2>5, <2>7 DEF SharesRight, Count, TypeOK, Kind
  <2> QED BY <2>6, <2>8
<1>5. ASSUME NEW k \in Party, Fail(k)
      PROVE  Ladder' /\ Clean' /\ SharesRight'
  BY <1>5 DEF Fail, Ladder, Clean, SharesRight, TypeOK
<1>6. CASE UNCHANGED vars
  BY <1>6 DEF vars, Ladder, Clean, SharesRight
<1> QED BY <1>1, <1>2, <1>3, <1>4, <1>5, <1>6 DEF Next, Step

\* Within the fault bound, while masks are decodable, every honest node that ends
\* (run_mul) holds the right share, except where it missed a sender: more than
\* the opening can spare, and its result is the default; or any in the resharing.
THEOREM Soundness == FaultBound => (Spec => []SharesRight)
<1> SUFFICES ASSUME FaultBound
             PROVE  Spec => []SharesRight
  OBVIOUS
<1>1. Init => Sound
  BY PartyAssumption DEF Init, Sound, TypeOK, Staged, Uncounted, Ladder, Clean, SharesRight,
     Nothing, Stage, Kind
<1>2. Sound /\ [Next]_vars => Sound'
  <2> SUFFICES ASSUME Sound, [Next]_vars
               PROVE  Sound'
    OBVIOUS
  <2>1. TypeOK' /\ Staged' /\ Uncounted'
    BY TypeStep, MasksHeardStep DEF Sound
  <2>2. MasksHeard' => Ladder' /\ Clean' /\ SharesRight'
    BY SoundStep
  <2>3. SharesRight'
    BY <2>2 DEF SharesRight
  <2> QED BY <2>1, <2>2, <2>3 DEF Sound
<1>3. Sound => SharesRight
  BY DEF Sound
<1> QED BY <1>1, <1>2, <1>3, PTL DEF Spec

-----------------------------------------------------------------------------
(* BerlekampWelch.  Arithmetic modulo p.                                   *)

Cong(a, b) == \E z \in Int : a - b = p * z

\* The field is the numbers from 0 to p - 1.
LEMMA FieldFacts ==
  /\ p \in Nat /\ p > 1 /\ 0 \in Field /\ 1 \in Field
  /\ \A a \in Field : a \in Int /\ 0 <= a /\ a < p
  /\ \A a \in Int : 0 <= a /\ a < p => a \in Field
BY FieldAssumption DEF Field

\* A remainder is in the field, and congruent to the number.
LEMMA Remainder ==
  ASSUME NEW a \in Int
  PROVE  a % p \in Field /\ Cong(a % p, a)
<1>1. a % p \in 0..(p - 1) /\ a = p * (a \div p) + (a % p) /\ a \div p \in Int
  BY FieldFacts
<1>2. -(a \div p) \in Int /\ (a % p) - a = p * (-(a \div p))
  BY <1>1, FieldFacts
<1> QED BY <1>1, <1>2 DEF Field, Cong

\* Congruence is an equivalence that sums and products respect.
LEMMA CongReflexive ==
  ASSUME NEW a \in Int
  PROVE  Cong(a, a)
<1>1. a - a = p * 0
  BY FieldFacts
<1> QED BY <1>1 DEF Cong

LEMMA CongSymmetric ==
  ASSUME NEW a \in Int, NEW b \in Int, Cong(a, b)
  PROVE  Cong(b, a)
<1>1. PICK z \in Int : a - b = p * z
  BY DEF Cong
<1>2. -z \in Int /\ b - a = p * (-z)
  BY <1>1, FieldFacts
<1> QED BY <1>2 DEF Cong

LEMMA CongTransitive ==
  ASSUME NEW a \in Int, NEW b \in Int, NEW c \in Int, Cong(a, b), Cong(b, c)
  PROVE  Cong(a, c)
<1>1. PICK y \in Int : a - b = p * y
  BY DEF Cong
<1>2. PICK z \in Int : b - c = p * z
  BY DEF Cong
<1>3. y + z \in Int /\ a - c = p * (y + z)
  BY <1>1, <1>2, FieldFacts
<1> QED BY <1>3 DEF Cong

LEMMA CongPlus ==
  ASSUME NEW a \in Int, NEW b \in Int, NEW x \in Int, NEW y \in Int, Cong(a, b), Cong(x, y)
  PROVE  Cong(a + x, b + y) /\ Cong(a - x, b - y)
<1>1. PICK u \in Int : a - b = p * u
  BY DEF Cong
<1>2. PICK v \in Int : x - y = p * v
  BY DEF Cong
<1>3. /\ u + v \in Int /\ (a + x) - (b + y) = p * (u + v)
      /\ u - v \in Int /\ (a - x) - (b - y) = p * (u - v)
  BY <1>1, <1>2, FieldFacts
<1> QED BY <1>3 DEF Cong

LEMMA CongTimes ==
  ASSUME NEW a \in Int, NEW b \in Int, NEW x \in Int, NEW y \in Int, Cong(a, b), Cong(x, y)
  PROVE  Cong(a * x, b * y)
<1>1. PICK u \in Int : a - b = p * u
  BY DEF Cong
<1>2. PICK v \in Int : x - y = p * v
  BY DEF Cong
<1>3. a * x - b * y = (a - b) * x + b * (x - y)
  OBVIOUS
<1>4. a * x - b * y = (p * u) * x + b * (p * v)
  BY <1>1, <1>2, <1>3
<1>5. u * x + b * v \in Int /\ (p * u) * x + b * (p * v) = p * (u * x + b * v)
  BY <1>1, <1>2, FieldFacts
<1> QED BY <1>4, <1>5 DEF Cong

\* Elements of the field that are congruent are equal.
LEMMA CongInField ==
  ASSUME NEW a \in Field, NEW b \in Field, Cong(a, b)
  PROVE  a = b
<1>1. PICK z \in Int : a - b = p * z
  BY DEF Cong
<1>2. a \in Int /\ b \in Int /\ 0 <= a /\ a < p /\ 0 <= b /\ b < p /\ p \in Nat /\ p > 1
  BY FieldFacts
<1>3. CASE z >= 1
  <2>1. p * z >= p
    BY <1>2, <1>3
  <2> QED BY <1>1, <1>2, <2>1
<1>4. CASE z <= -1
  <2>1. p * z <= -p
    BY <1>2, <1>4
  <2> QED BY <1>1, <1>2, <2>1
<1>5. CASE z = 0
  BY <1>1, <1>2, <1>5
<1> QED BY <1>3, <1>4, <1>5

\* Two remainders are equal when the numbers are congruent, and the other way round.
LEMMA SameRemainder ==
  ASSUME NEW a \in Int, NEW b \in Int
  PROVE  /\ Cong(a, b) <=> a % p = b % p
         /\ b \in Field => (a % p = b <=> Cong(a, b))
<1>1. /\ a % p \in Field /\ Cong(a % p, a) /\ b % p \in Field /\ Cong(b % p, b)
      /\ a % p \in Int /\ b % p \in Int
  BY Remainder, FieldFacts
<1>2. ASSUME Cong(a, b) PROVE a % p = b % p
  <2>1. Cong(a % p, b)
    BY <1>1, <1>2, CongTransitive
  <2>2. Cong(b, b % p)
    BY <1>1, CongSymmetric
  <2>3. Cong(a % p, b % p)
    BY <1>1, <2>1, <2>2, CongTransitive
  <2> QED BY <1>1, <2>3, CongInField
<1>3. ASSUME a % p = b % p PROVE Cong(a, b)
  <2>1. Cong(a, a % p)
    BY <1>1, CongSymmetric
  <2> QED BY <1>1, <1>3, <2>1, CongTransitive
<1>4. ASSUME b \in Field PROVE b % p = b
  BY <1>1, <1>4, CongInField
<1> QED BY <1>2, <1>3, <1>4

\* Factors of a product of 0: the field has no other divisors of 0.
LEMMA NoZeroDivisors ==
  ASSUME NEW a \in Int, NEW b \in Int, Cong(a * b, 0), ~Cong(a, 0)
  PROVE  Cong(b, 0)
<1> DEFINE r == a % p
           i == Inv(r)
<1>1. r \in Field /\ Cong(r, a) /\ r \in Int
  BY Remainder, FieldFacts
<1>2. r # 0
  BY <1>1, CongSymmetric
<1>3. i \in Int /\ (r * i) % p = 1
  BY <1>1, <1>2, FieldAssumption, FieldFacts DEF Field
<1> HIDE DEF r, i
<1>4. Cong(r * i, 1)
  BY <1>1, <1>3, FieldFacts, SameRemainder
<1>5. Cong(r * b, a * b)
  BY <1>1, CongReflexive, CongTimes
<1>6. Cong(r * b, 0)
  BY <1>1, <1>5, CongTransitive
<1>7. Cong((r * b) * i, 0 * i)
  <2>1. r * b \in Int /\ Cong(i, i)
    BY <1>1, <1>3, CongReflexive
  <2> QED BY <1>3, <1>6, <2>1, CongTimes
<1>8. Cong((r * i) * b, 1 * b)
  BY <1>1, <1>3, <1>4, CongReflexive, CongTimes
<1>9. (r * b) * i = (r * i) * b /\ 0 * i = 0 /\ 1 * b = b
  BY <1>1, <1>3
<1>10. (r * i) * b \in Int
  BY <1>1, <1>3
<1>11. Cong(b, (r * i) * b)
  BY <1>8, <1>9, <1>10, CongSymmetric
<1> QED BY <1>7, <1>9, <1>10, <1>11, CongTransitive

-----------------------------------------------------------------------------
(* BerlekampWelch.  Induction over exponents, definitions by recursion.    *)

LessThan == {ss \in Nat \X Nat : ss[1] < ss[2]}

\* Every non-empty set of natural numbers has a least member.
LEMMA LeastNatural ==
  ASSUME NEW S \in SUBSET Nat, S # {}
  PROVE  \E x \in S : \A y \in S : x <= y
<1>1. IsWellFoundedOn(LessThan, Nat)
  BY NatLessThanWellFounded DEF OpToRel, LessThan
<1>2. PICK x \in S : \A y \in S : ~ (<<y, x>> \in LessThan)
  BY <1>1, WFMin, Zenon
<1>3. ASSUME NEW y \in S
      PROVE  x <= y
  <2>1. x \in Nat /\ y \in Nat /\ <<y, x>> \notin LessThan
    BY <1>2
  <2>2. ~ (y < x)
    BY <2>1 DEF LessThan
  <2> QED BY <2>1, <2>2
<1> QED BY <1>3

\* A set stands for what is proved of its members.
LEMMA UpTo ==
  ASSUME NEW N \in Nat, NEW S, 0 \in S, \A k \in 0..(N - 1) : k \in S => k + 1 \in S
  PROVE  \A k \in 0..N : k \in S
<1> DEFINE bad == {k \in 0..N : k \notin S}
<1>1. bad \in SUBSET Nat
  OBVIOUS
<1>2. ASSUME bad # {}
      PROVE  FALSE
  <2> HIDE DEF bad
  <2>1. PICK x \in bad : \A y \in bad : x <= y
    BY <1>1, <1>2, LeastNatural
  <2>2. x \in 0..N /\ x \notin S
    BY <2>1 DEF bad
  <2>3. x - 1 \in 0..(N - 1) /\ ~ (x <= x - 1) /\ x - 1 + 1 = x /\ x - 1 \in 0..N
    BY <2>2
  <2>4. x - 1 \in S
    BY <2>1, <2>3 DEF bad
  <2> QED BY <2>2, <2>3, <2>4
<1> QED BY <1>2

\* The same from N down.
LEMMA DownTo ==
  ASSUME NEW N \in Nat, NEW S, N \in S, \A k \in 1..N : k \in S => k - 1 \in S
  PROVE  \A k \in 0..N : k \in S
<1> DEFINE T == {i \in 0..N : N - i \in S}
<1>1. 0 \in T
  OBVIOUS
<1>2. ASSUME NEW i \in 0..(N - 1), i \in T
      PROVE  i + 1 \in T
  <2>1. N - i \in 1..N /\ (N - i) - 1 = N - (i + 1) /\ i + 1 \in 0..N
    BY <1>2
  <2> QED BY <1>2, <2>1
<1> HIDE DEF T
<1>3. \A i \in 0..N : i \in T
  BY <1>1, <1>2, UpTo
<1>4. ASSUME NEW k \in 0..N
      PROVE  k \in S
  <2>1. N - k \in 0..N /\ N - (N - k) = k
    BY <1>4
  <2> QED BY <1>3, <2>1 DEF T
<1> QED BY <1>4

\* And without an end.
LEMMA AllNaturals ==
  ASSUME NEW S, 0 \in S, \A k \in Nat : k \in S => k + 1 \in S
  PROVE  \A k \in Nat : k \in S
<1> SUFFICES ASSUME NEW k \in Nat PROVE k \in S
  OBVIOUS
<1>1. \A i \in 0..k : i \in S
  BY UpTo
<1> QED BY <1>1

\* A function defined by recursion from 0 up, or from N down, by steps inside T.
StepsIn(T, K, G) == \A k \in K : \A v \in T : G[k][v] \in T
GoesUp(h, N, T, a, G) == h \in [0..N -> T] /\ h[0] = a /\ \A k \in 1..N : h[k] = G[k][h[k - 1]]
GoesDown(h, N, T, a, G) == h \in [0..N -> T] /\ h[N] = a /\ \A k \in 1..N : h[k - 1] = G[k][h[k]]

\* There is such a function.
LEMMA Upward ==
  ASSUME NEW N \in Nat, NEW T, NEW a \in T, NEW G, StepsIn(T, 1..N, G)
  PROVE  \E h : GoesUp(h, N, T, a, G)
<1> DEFINE Fits(h, m) == /\ h \in [0..m -> T] /\ h[0] = a
                         /\ \A k \in 1..m : h[k] = G[k][h[k - 1]]
           S == {m \in 0..N : \E h : Fits(h, m)}
<1>1. 0 \in S
  <2>1. Fits([k \in 0..0 |-> a], 0)
    OBVIOUS
  <2>2. 0 \in 0..N
    OBVIOUS
  <2> HIDE DEF Fits
  <2> QED BY <2>1, <2>2
<1>2. ASSUME NEW m \in 0..(N - 1), m \in S
      PROVE  m + 1 \in S
  <2>1. PICK h : Fits(h, m)
    BY <1>2
  <2> DEFINE g == [k \in 0..(m + 1) |-> IF k = m + 1 THEN G[m + 1][h[m]] ELSE h[k]]
  <2>2. m \in 0..m /\ m + 1 \in 1..N /\ m + 1 \in 0..N /\ h[m] \in T
    BY <2>1
  <2>3. G[m + 1][h[m]] \in T
    BY <2>2 DEF StepsIn
  <2>4. \A k \in 0..(m + 1) : k # m + 1 => k \in 0..m
    OBVIOUS
  <2>5. g \in [0..(m + 1) -> T]
    BY <2>1, <2>3, <2>4
  <2>6. g[m + 1] = G[m + 1][h[m]] /\ \A k \in 0..m : g[k] = h[k]
    OBVIOUS
  <2> HIDE DEF g
  <2>7. g[0] = a
    BY <2>1, <2>6
  <2>8. ASSUME NEW k \in 1..(m + 1)
        PROVE  g[k] = G[k][g[k - 1]]
    <3>1. CASE k = m + 1
      <4>1. k - 1 = m
        BY <3>1
      <4> QED BY <3>1, <4>1, <2>2, <2>6
    <3>2. CASE k # m + 1
      <4>1. k \in 1..m /\ k \in 0..m /\ k - 1 \in 0..m
        BY <2>8, <3>2
      <4> QED BY <4>1, <2>1, <2>6
    <3> QED BY <3>1, <3>2
  <2>9. Fits(g, m + 1)
    BY <2>5, <2>7, <2>8
  <2> HIDE DEF Fits
  <2> QED BY <2>2, <2>9
<1> HIDE DEF S
<1>3. N \in S
  <2>1. \A k \in 0..N : k \in S
    BY <1>1, <1>2, UpTo
  <2> QED BY <2>1
<1>4. PICK h : Fits(h, N)
  BY <1>3 DEF S
<1> QED BY <1>4 DEF GoesUp

\* The same with the exponents in the other order.
LEMMA Downward ==
  ASSUME NEW N \in Nat, NEW T, NEW a \in T, NEW G, StepsIn(T, 1..N, G)
  PROVE  \E h : GoesDown(h, N, T, a, G)
<1> DEFINE H == [i \in 1..N |-> G[N - i + 1]]
<1>1. \A i \in 1..N : N - i + 1 \in 1..N
  OBVIOUS
<1>2. StepsIn(T, 1..N, H) /\ \A i \in 1..N : H[i] = G[N - i + 1]
  BY <1>1 DEF StepsIn
<1> HIDE DEF H
<1>3. PICK g : GoesUp(g, N, T, a, H)
  BY <1>2, Upward
<1> DEFINE h == [k \in 0..N |-> g[N - k]]
<1>4. \A k \in 0..N : N - k \in 0..N
  OBVIOUS
<1>5. h \in [0..N -> T] /\ \A k \in 0..N : h[k] = g[N - k]
  BY <1>3, <1>4 DEF GoesUp
<1> HIDE DEF h
<1>6. h[N] = a
  BY <1>3, <1>5 DEF GoesUp
<1>7. ASSUME NEW k \in 1..N
      PROVE  h[k - 1] = G[k][h[k]]
  <2>1. /\ N - (k - 1) \in 1..N /\ N - (N - (k - 1)) + 1 = k /\ k \in 0..N /\ k - 1 \in 0..N
        /\ (N - (k - 1)) - 1 = N - k
    OBVIOUS
  <2>2. g[N - (k - 1)] = H[N - (k - 1)][g[(N - (k - 1)) - 1]]
    BY <1>3, <2>1 DEF GoesUp
  <2>3. H[N - (k - 1)] = G[k] /\ h[k] = g[N - k] /\ h[k - 1] = g[N - (k - 1)]
    BY <1>2, <1>5, <2>1
  <2>4. g[(N - (k - 1)) - 1] = g[N - k]
    BY <2>1
  <2> QED BY <2>2, <2>3, <2>4
<1> QED BY <1>5, <1>6, <1>7 DEF GoesDown

-----------------------------------------------------------------------------
(* BerlekampWelch.  Polynomials.                                           *)

\* Coefficients are integers.
LEMMA Coefficients ==
  ASSUME NEW N \in Nat, NEW f \in Poly(N)
  PROVE  \A k \in 0..N : f[k] \in Field /\ f[k] \in Int
BY FieldFacts DEF Poly

\* Horner's rule, a coefficient at a time.
LEMMA HornerUnfolds ==
  ASSUME NEW N \in Nat, NEW f \in Poly(N), NEW x \in Int
  PROVE  /\ Horner(N, f, x) \in Poly(N)
         /\ Horner(N, f, x)[N] = f[N]
         /\ \A k \in 1..N :
              /\ Horner(N, f, x)[k - 1] = (Horner(N, f, x)[k] * x + f[k - 1]) % p
              /\ Cong(Horner(N, f, x)[k - 1], Horner(N, f, x)[k] * x + f[k - 1])
<1> DEFINE G == [k \in 1..N |-> [v \in Field |-> (v * x + f[k - 1]) % p]]
<1>1. \A k \in 0..N : f[k] \in Field /\ f[k] \in Int
  BY FieldFacts DEF Poly
<1>2. ASSUME NEW k \in 1..N, NEW v \in Field
      PROVE  v * x + f[k - 1] \in Int /\ (v * x + f[k - 1]) % p \in Field
  <2>1. v \in Int /\ f[k - 1] \in Int
    BY <1>1, FieldFacts
  <2>2. v * x + f[k - 1] \in Int
    BY <2>1
  <2> QED BY <2>2, Remainder
<1>3. StepsIn(Field, 1..N, G)
  BY <1>2 DEF StepsIn
<1>4. \A k \in 1..N, v \in Field : G[k][v] = (v * x + f[k - 1]) % p
  OBVIOUS
<1> HIDE DEF G
<1>5. f[N] \in Field
  BY <1>1
<1>6. PICK h \in [0..N -> Field] : h[N] = f[N] /\ \A k \in 1..N : h[k - 1] = G[k][h[k]]
  BY <1>3, <1>5, Downward DEF GoesDown
<1>7. ASSUME NEW k \in 0..N
      PROVE  h[k] = IF k = N THEN f[k] ELSE (h[k + 1] * x + f[k]) % p
  <2>1. k # N => k + 1 \in 1..N /\ k + 1 \in 0..N /\ (k + 1) - 1 = k
    OBVIOUS
  <2>2. k # N => h[(k + 1) - 1] = G[k + 1][h[k + 1]] /\ h[k + 1] \in Field
    BY <1>6, <2>1
  <2> QED BY <1>4, <1>6, <2>1, <2>2
<1>8. h = [k \in 0..N |-> IF k = N THEN f[k] ELSE (h[k + 1] * x + f[k]) % p]
  BY <1>6, <1>7
<1> DEFINE H == Horner(N, f, x)
<1>9. H = [k \in 0..N |-> IF k = N THEN f[k] ELSE (H[k + 1] * x + f[k]) % p]
  BY <1>8 DEF Horner
<1> HIDE DEF H
<1>10. H[N] = f[N] /\ \A k \in 1..N : H[k - 1] = (H[k] * x + f[k - 1]) % p
  <2>1. N \in 0..N /\ \A k \in 1..N : k - 1 \in 0..N /\ k - 1 # N /\ (k - 1) + 1 = k
    OBVIOUS
  <2> QED BY <1>9, <2>1
<1> DEFINE S == {k \in 0..N : H[k] \in Field}
<1>11. \A k \in 0..N : k \in S
  <2>1. N \in S
    BY <1>5, <1>10
  <2>2. ASSUME NEW k \in 1..N, k \in S
        PROVE  k - 1 \in S
    <3>1. H[k] \in Field /\ k - 1 \in 0..N
      BY <2>2
    <3> QED BY <1>2, <1>10, <3>1
  <2> HIDE DEF S
  <2> QED BY <2>1, <2>2, DownTo
<1>12. H \in Poly(N)
  BY <1>9, <1>11 DEF Poly
<1>13. ASSUME NEW k \in 1..N
       PROVE  Cong(H[k - 1], H[k] * x + f[k - 1])
  <2>1. H[k] \in Field
    BY <1>11
  <2>2. H[k] * x + f[k - 1] \in Int
    BY <1>2, <2>1
  <2> QED BY <1>10, <2>2, Remainder
<1> QED BY <1>10, <1>12, <1>13 DEF H

\* A value is in the field.
LEMMA EvalType ==
  ASSUME NEW N \in Nat, NEW f \in Poly(N), NEW x \in Int
  PROVE  Eval(N, f, x) \in Field /\ Eval(N, f, x) \in Int
BY HornerUnfolds, FieldFacts DEF Eval, Poly

\* A polynomial has the coefficients and the values that are combined.
LEMMA Combination ==
  ASSUME NEW N \in Nat, NEW f \in Poly(N), NEW g \in Poly(N), NEW h \in Poly(N),
         NEW c \in Int, NEW x \in Int, \A k \in 0..N : Cong(h[k], f[k] + c * g[k])
  PROVE  Cong(Eval(N, h, x), Eval(N, f, x) + c * Eval(N, g, x))
<1> DEFINE F == Horner(N, f, x)
           G == Horner(N, g, x)
           H == Horner(N, h, x)
           S == {k \in 0..N : Cong(H[k], F[k] + c * G[k])}
<1>1. \A k \in 0..N : /\ F[k] \in Int /\ G[k] \in Int /\ H[k] \in Int
                      /\ f[k] \in Int /\ g[k] \in Int /\ h[k] \in Int
  <2>1. F \in Poly(N) /\ G \in Poly(N) /\ H \in Poly(N)
    BY HornerUnfolds
  <2> HIDE DEF F, G, H
  <2> QED BY <2>1, Coefficients
<1>2. /\ F[N] = f[N] /\ G[N] = g[N] /\ H[N] = h[N]
      /\ \A k \in 1..N : /\ Cong(F[k - 1], F[k] * x + f[k - 1])
                         /\ Cong(G[k - 1], G[k] * x + g[k - 1])
                         /\ Cong(H[k - 1], H[k] * x + h[k - 1])
  BY HornerUnfolds
<1> HIDE DEF F, G, H
<1>3. N \in S
  BY <1>2
<1>4. ASSUME NEW k \in 1..N, k \in S
      PROVE  k - 1 \in S
  <2>1. k \in 0..N /\ k - 1 \in 0..N
    OBVIOUS
  <2>2. /\ F[k] \in Int /\ G[k] \in Int /\ H[k] \in Int
        /\ F[k - 1] \in Int /\ G[k - 1] \in Int /\ H[k - 1] \in Int
        /\ f[k - 1] \in Int /\ g[k - 1] \in Int /\ h[k - 1] \in Int
    BY <1>1, <2>1
  <2> DEFINE u == F[k] + c * G[k]
             v == G[k] * x + g[k - 1]
             w == F[k] * x + f[k - 1]
             y == f[k - 1] + c * g[k - 1]
  <2>3. u \in Int /\ v \in Int /\ w \in Int /\ y \in Int /\ u * x + y = w + c * v
    BY <2>2
  <2>4. Cong(H[k], u) /\ Cong(G[k - 1], v) /\ Cong(F[k - 1], w) /\ Cong(h[k - 1], y)
    BY <1>2, <1>4, <2>1
  <2>5. Cong(H[k - 1], H[k] * x + h[k - 1])
    BY <1>2
  <2> HIDE DEF u, v, w, y
  <2>6. Cong(H[k] * x, u * x) /\ Cong(c * G[k - 1], c * v)
    BY <2>2, <2>3, <2>4, CongReflexive, CongTimes
  <2>7. H[k] * x \in Int /\ u * x \in Int /\ c * G[k - 1] \in Int /\ c * v \in Int
    BY <2>2, <2>3
  <2>8. Cong(H[k] * x + h[k - 1], u * x + y) /\ Cong(F[k - 1] + c * G[k - 1], w + c * v)
    BY <2>2, <2>3, <2>4, <2>6, <2>7, CongPlus
  <2>9. Cong(H[k - 1], u * x + y) /\ Cong(w + c * v, F[k - 1] + c * G[k - 1])
    BY <2>2, <2>3, <2>5, <2>7, <2>8, CongTransitive, CongSymmetric
  <2>10. Cong(H[k - 1], F[k - 1] + c * G[k - 1])
    BY <2>2, <2>3, <2>7, <2>9, CongTransitive
  <2> QED BY <2>1, <2>10
<1> HIDE DEF S
<1>5. 0 \in S
  <2>1. \A k \in 0..N : k \in S
    BY <1>3, <1>4, DownTo
  <2> QED BY <2>1
<1> QED BY <1>5 DEF S, F, G, H, Eval

\* Dividing f by X - a: the values of Horner's rule are the quotient's coefficients.
LEMMA Quotient ==
  ASSUME NEW N \in Nat, NEW f \in Poly(N + 1), NEW a \in Int, NEW x \in Int,
         NEW g \in Poly(N), \A k \in 0..N : g[k] = Horner(N + 1, f, a)[k + 1]
  PROVE  Cong(Eval(N + 1, f, x) - Eval(N + 1, f, a), (x - a) * Eval(N, g, x))
<1> DEFINE A == Horner(N + 1, f, a)
           F == Horner(N + 1, f, x)
           G == Horner(N, g, x)
           S == {k \in 0..N : Cong(F[k] - A[k], (x - a) * G[k])}
<1>1. N + 1 \in Nat /\ N + 1 \in 0..(N + 1)
  OBVIOUS
<1>2. /\ A \in Poly(N + 1) /\ A[N + 1] = f[N + 1] /\ F \in Poly(N + 1) /\ F[N + 1] = f[N + 1]
      /\ \A k \in 1..(N + 1) : /\ Cong(F[k - 1], F[k] * x + f[k - 1])
                               /\ Cong(A[k - 1], A[k] * a + f[k - 1])
  BY <1>1, HornerUnfolds
<1>3. G \in Poly(N) /\ G[N] = g[N] /\ \A k \in 1..N : Cong(G[k - 1], G[k] * x + g[k - 1])
  BY HornerUnfolds
<1>4. \A k \in 0..(N + 1) : A[k] \in Int /\ F[k] \in Int /\ f[k] \in Int
  BY <1>2, FieldFacts DEF Poly
<1>5. \A k \in 0..N : G[k] \in Int /\ g[k] \in Int
  BY <1>3, FieldFacts DEF Poly
<1>6. \A k \in 0..N : g[k] = A[k + 1]
  OBVIOUS
<1> HIDE DEF A, F, G
\* One step of both.
<1>7. ASSUME NEW k \in 1..(N + 1)
      PROVE  Cong(F[k - 1] - A[k - 1], (F[k] - A[k]) * x + (x - a) * A[k])
  <2>1. k \in 0..(N + 1) /\ k - 1 \in 0..(N + 1)
    OBVIOUS
  <2>2. /\ A[k] \in Int /\ F[k] \in Int /\ A[k - 1] \in Int /\ F[k - 1] \in Int
        /\ f[k - 1] \in Int
    BY <1>4, <2>1
  <2>3. Cong(F[k - 1] - A[k - 1], (F[k] * x + f[k - 1]) - (A[k] * a + f[k - 1]))
    BY <1>2, <2>2, CongPlus
  <2>4. (F[k] * x + f[k - 1]) - (A[k] * a + f[k - 1]) = (F[k] - A[k]) * x + (x - a) * A[k]
    BY <2>2
  <2> QED BY <2>3, <2>4
<1>8. N \in S
  <2>1. N + 1 \in 1..(N + 1) /\ (N + 1) - 1 = N /\ N \in 0..N
    OBVIOUS
  <2>2. Cong(F[N] - A[N], (F[N + 1] - A[N + 1]) * x + (x - a) * A[N + 1])
    BY <1>7, <2>1
  <2>3. F[N + 1] = A[N + 1] /\ F[N + 1] \in Int /\ A[N + 1] = G[N]
    BY <1>1, <1>2, <1>3, <1>4, <1>6, <2>1
  <2>4. (F[N + 1] - A[N + 1]) * x + (x - a) * A[N + 1] = (x - a) * G[N]
    BY <2>3
  <2> QED BY <2>1, <2>2, <2>4
<1>9. ASSUME NEW k \in 1..N, k \in S
      PROVE  k - 1 \in S
  <2>1. k \in 0..N /\ k - 1 \in 0..N /\ k \in 1..(N + 1) /\ k \in 0..(N + 1)
        /\ k - 1 \in 0..(N + 1) /\ (k - 1) + 1 = k
    OBVIOUS
  <2>2. /\ A[k] \in Int /\ F[k] \in Int /\ A[k - 1] \in Int /\ F[k - 1] \in Int
        /\ G[k] \in Int /\ G[k - 1] \in Int /\ g[k - 1] = A[k]
    BY <1>4, <1>5, <1>6, <2>1
  <2> DEFINE u == F[k] - A[k]
             v == (x - a) * G[k]
             w == G[k] * x + A[k]
             y == x - a
  <2>3. /\ u \in Int /\ v \in Int /\ w \in Int /\ y \in Int
        /\ v * x + y * A[k] = y * w
    BY <2>2
  <2>4. Cong(u, v) /\ Cong(G[k - 1], w)
    BY <1>3, <1>9, <2>2
  <2>5. Cong(F[k - 1] - A[k - 1], u * x + y * A[k])
    BY <1>7, <2>1
  <2>6. u * x \in Int /\ v * x \in Int /\ y * A[k] \in Int /\ y * w \in Int /\ y * G[k - 1] \in Int
    BY <2>2, <2>3
  <2> HIDE DEF u, v, w
  <2> HIDE DEF y
  <2>7. Cong(u * x, v * x) /\ Cong(y * G[k - 1], y * w) /\ Cong(y * A[k], y * A[k])
    BY <2>2, <2>3, <2>4, <2>6, CongReflexive, CongTimes
  <2>8. Cong(u * x + y * A[k], v * x + y * A[k]) /\ Cong(y * w, y * G[k - 1])
    BY <2>2, <2>3, <2>6, <2>7, CongPlus, CongSymmetric
  <2>9. Cong(F[k - 1] - A[k - 1], y * w)
    BY <2>2, <2>3, <2>5, <2>6, <2>8, CongTransitive
  <2>10. Cong(F[k - 1] - A[k - 1], (x - a) * G[k - 1])
    BY <2>2, <2>6, <2>8, <2>9, CongTransitive DEF y
  <2> QED BY <2>1, <2>10
<1> HIDE DEF S
<1>10. 0 \in S
  <2>1. \A k \in 0..N : k \in S
    BY <1>8, <1>9, DownTo
  <2> QED BY <2>1
<1> QED BY <1>10 DEF S, A, F, G, Eval

-----------------------------------------------------------------------------
(* BerlekampWelch.  Roots and interpolation.                                *)

\* Sets of points are finite.
LEMMA FieldSets ==
  /\ IsFiniteSet(Field)
  /\ \A S \in SUBSET Field : IsFiniteSet(S) /\ Cardinality(S) \in Nat
<1>1. IsFiniteSet(Field)
  BY FieldFacts, FS_Interval DEF Field
<1> QED BY <1>1, FS_Subset, FS_CardinalityType

\* Different indices stand for as many points.
Image(a, I) == {a[x] : x \in I}

LEMMA ImageSize ==
  ASSUME NEW I, IsFiniteSet(I), NEW a, \A x \in I : a[x] \in Field,
         \A x, y \in I : a[x] = a[y] => x = y
  PROVE  Image(a, I) \in SUBSET Field /\ Cardinality(Image(a, I)) = Cardinality(I)
<1> DEFINE T == {a[x] : x \in I}
           f == [x \in I |-> a[x]]
<1>1. f \in Bijection(I, T)
  BY DEF Bijection, Injection, Surjection, IsInjective
<1>2. ExistsBijection(I, T)
  BY <1>1 DEF ExistsBijection
<1>3. T \in SUBSET Field
  OBVIOUS
<1> HIDE DEF T
<1>4. Cardinality(T) = Cardinality(I)
  BY <1>2, FS_Bijection
<1> QED BY <1>3, <1>4 DEF T, Image

\* A polynomial of degree N with more than N roots in the field is 0.
HasFewRoots(N) ==
  \A f \in Poly(N) : \A S \in SUBSET Field :
    Cardinality(S) > N /\ (\A x \in S : Eval(N, f, x) = 0) => \A k \in 0..N : f[k] = 0

LEMMA Roots ==
  \A N \in Nat : HasFewRoots(N)
<1> DEFINE R == {N \in Nat : HasFewRoots(N)}
<1>1. HasFewRoots(0)
  <2> SUFFICES ASSUME NEW f \in Poly(0), NEW S \in SUBSET Field,
                      Cardinality(S) > 0, \A x \in S : Eval(0, f, x) = 0
               PROVE  \A k \in 0..0 : f[k] = 0
    BY DEF HasFewRoots
  <2>1. S # {}
    BY FS_EmptySet
  <2>2. PICK x \in S : TRUE
    BY <2>1
  <2>3. x \in Int /\ Eval(0, f, x) = 0
    BY FieldFacts
  <2>4. Eval(0, f, x) = f[0]
    BY <2>3, HornerUnfolds DEF Eval
  <2> QED BY <2>3, <2>4
<1>2. ASSUME NEW N \in Nat, HasFewRoots(N)
      PROVE  HasFewRoots(N + 1)
  <2> SUFFICES ASSUME NEW f \in Poly(N + 1), NEW S \in SUBSET Field,
                      Cardinality(S) > N + 1, \A x \in S : Eval(N + 1, f, x) = 0
               PROVE  \A k \in 0..(N + 1) : f[k] = 0
    BY DEF HasFewRoots
  <2>1. IsFiniteSet(S) /\ S # {}
    BY FieldSets, FS_EmptySet
  <2>2. PICK a \in S : TRUE
    BY <2>1
  <2>3. a \in Field /\ a \in Int /\ Eval(N + 1, f, a) = 0 /\ N + 1 \in Nat
    BY FieldFacts
  <2> DEFINE T == S \ {a}
             A == Horner(N + 1, f, a)
             g == [k \in 0..N |-> A[k + 1]]
  <2>4. T \in SUBSET Field /\ Cardinality(T) > N
    BY <2>1, FS_RemoveElement, FieldSets
  <2>5. A \in Poly(N + 1) /\ \A k \in 1..(N + 1) : Cong(A[k - 1], A[k] * a + f[k - 1])
    BY <2>3, HornerUnfolds
  <2>6. g \in Poly(N) /\ \A k \in 0..N : g[k] = A[k + 1]
    BY <2>5 DEF Poly
  <2> HIDE DEF g
  <2>7. ASSUME NEW x \in T
        PROVE  Eval(N, g, x) = 0
    <3>1. x \in Field /\ x \in Int /\ x # a /\ Eval(N + 1, f, x) = 0
      BY FieldFacts
    <3>2. Eval(N, g, x) \in Field /\ Eval(N, g, x) \in Int
      BY <2>6, <3>1, EvalType
    <3>3. Cong(0 - 0, (x - a) * Eval(N, g, x))
      BY <2>3, <2>6, <3>1, Quotient
    <3>4. ~Cong(x - a, 0)
      <4>1. ASSUME Cong(x - a, 0) PROVE FALSE
        <5>1. Cong((x - a) + a, 0 + a)
          BY <2>3, <3>1, <4>1, CongReflexive, CongPlus
        <5>2. (x - a) + a = x /\ 0 + a = a
          BY <2>3, <3>1
        <5> QED BY <2>3, <3>1, <5>1, <5>2, CongInField
      <4> QED BY <4>1
    <3>5. (x - a) * Eval(N, g, x) \in Int /\ 0 - 0 = 0
      BY <2>3, <3>1, <3>2
    <3>6. Cong((x - a) * Eval(N, g, x), 0)
      BY <3>3, <3>5, CongSymmetric
    <3>7. Cong(Eval(N, g, x), 0)
      BY <2>3, <3>1, <3>2, <3>4, <3>6, NoZeroDivisors
    <3> QED BY <3>2, <3>7, CongInField, FieldFacts
  <2>8. \A k \in 0..N : g[k] = 0
    BY <1>2, <2>4, <2>6, <2>7 DEF HasFewRoots
  <2>9. \A k \in 0..(N + 1) : A[k] = 0
    <3> SUFFICES ASSUME NEW k \in 0..(N + 1) PROVE A[k] = 0
      OBVIOUS
    <3>1. CASE k = 0
      BY <2>3, <3>1 DEF Eval
    <3>2. CASE k # 0
      <4>1. k - 1 \in 0..N /\ (k - 1) + 1 = k
        BY <3>2
      <4> QED BY <2>6, <2>8, <4>1
    <3> QED BY <3>1, <3>2
  <2> HIDE DEF A
  <2>10. ASSUME NEW k \in 0..(N + 1)
         PROVE  f[k] = 0
    <3>1. f[k] \in Field /\ f[k] \in Int
      BY <2>3, Coefficients
    <3>2. CASE k = N + 1
      BY <2>3, <2>9, <3>2, HornerUnfolds DEF A
    <3>3. CASE k # N + 1
      <4>1. k + 1 \in 1..(N + 1) /\ (k + 1) - 1 = k /\ k + 1 \in 0..(N + 1)
        BY <3>3
      <4>2. Cong(A[k], A[k + 1] * a + f[k]) /\ A[k] = 0 /\ A[k + 1] = 0
        BY <2>5, <2>9, <4>1
      <4>3. A[k + 1] * a + f[k] = f[k]
        BY <2>3, <3>1, <4>2
      <4> QED BY <3>1, <4>2, <4>3, CongInField, FieldFacts
    <3> QED BY <3>2, <3>3
  <2> QED BY <2>10
<1> HIDE DEF R
<1>3. 0 \in R /\ \A N \in Nat : N \in R => N + 1 \in R
  BY <1>1, <1>2 DEF R
<1>4. \A N \in Nat : N \in R
  BY <1>3, AllNaturals
<1> QED BY <1>4 DEF R

\* Polynomials of degree N that agree at more than N points are equal.
LEMMA Agree ==
  ASSUME NEW N \in Nat, NEW f \in Poly(N), NEW g \in Poly(N), NEW S \in SUBSET Field,
         Cardinality(S) > N, \A x \in S : Eval(N, f, x) = Eval(N, g, x)
  PROVE  f = g
<1> DEFINE h == [k \in 0..N |-> (f[k] - g[k]) % p]
<1>1. \A k \in 0..N : /\ f[k] \in Field /\ g[k] \in Field /\ f[k] \in Int /\ g[k] \in Int
                      /\ f[k] - g[k] \in Int
  BY Coefficients
<1>2. \A k \in 0..N : (f[k] - g[k]) % p \in Field /\ Cong((f[k] - g[k]) % p, f[k] - g[k])
  BY <1>1, Remainder
<1>3. h \in Poly(N) /\ \A k \in 0..N : Cong(h[k], f[k] - g[k])
  BY <1>2 DEF Poly
<1> HIDE DEF h
<1>4. \A k \in 0..N : f[k] + (-1) * g[k] = f[k] - g[k]
  BY <1>1
<1>5. \A k \in 0..N : Cong(h[k], f[k] + (-1) * g[k])
  BY <1>3, <1>4
<1>6. ASSUME NEW x \in S
      PROVE  Eval(N, h, x) = 0
  <2>1. x \in Int
    BY FieldFacts
  <2>2. /\ Eval(N, f, x) \in Int /\ Eval(N, g, x) \in Int /\ Eval(N, h, x) \in Field
        /\ Eval(N, f, x) = Eval(N, g, x)
    BY <1>3, <2>1, EvalType
  <2>3. Cong(Eval(N, h, x), Eval(N, f, x) + (-1) * Eval(N, g, x))
    BY <1>3, <1>5, <2>1, Combination
  <2>4. Eval(N, f, x) + (-1) * Eval(N, g, x) = 0
    BY <2>2
  <2> QED BY <2>2, <2>3, <2>4, CongInField, FieldFacts
<1>7. \A k \in 0..N : h[k] = 0
  BY <1>3, <1>6, Roots DEF HasFewRoots
<1>8. ASSUME NEW k \in 0..N
      PROVE  f[k] = g[k]
  <2> DEFINE u == f[k] - g[k]
  <2>1. Cong(0, u) /\ f[k] \in Int /\ g[k] \in Int /\ u \in Int
        /\ 0 + g[k] = g[k] /\ u + g[k] = f[k]
    BY <1>1, <1>3, <1>7
  <2> HIDE DEF u
  <2>2. Cong(0 + g[k], u + g[k])
    <3>1. 0 \in Int /\ Cong(g[k], g[k])
      BY <2>1, CongReflexive
    <3> QED BY <2>1, <3>1, CongPlus, Zenon
  <2>3. Cong(g[k], f[k])
    BY <2>1, <2>2
  <2> QED BY <1>1, <2>2, <2>3, CongInField
<1> QED BY <1>8 DEF Poly

\* Coefficients of 0 above the degree change nothing.
LEMMA Padded ==
  ASSUME NEW N \in Nat, NEW M \in Nat, N <= M, NEW f \in Poly(N), NEW g \in Poly(M),
         \A k \in 0..M : g[k] = IF k <= N THEN f[k] ELSE 0,
         NEW x \in Int
  PROVE  Eval(M, g, x) = Eval(N, f, x)
<1> DEFINE F == Horner(N, f, x)
           G == Horner(M, g, x)
           S == {k \in 0..M : G[k] = IF k <= N THEN F[k] ELSE 0}
<1>1. /\ F[N] = f[N] /\ G[M] = g[M]
      /\ \A k \in 1..N : F[k - 1] = (F[k] * x + f[k - 1]) % p
      /\ \A k \in 1..M : G[k - 1] = (G[k] * x + g[k - 1]) % p
  BY HornerUnfolds
<1>2. \A k \in 0..N : f[k] \in Field
  BY Coefficients
<1> HIDE DEF F, G
<1>3. M \in S
  BY <1>1
<1>4. ASSUME NEW k \in 1..M, k \in S
      PROVE  k - 1 \in S
  <2>1. G[k - 1] = (G[k] * x + g[k - 1]) % p /\ k - 1 \in 0..M
    BY <1>1
  <2>2. CASE k <= N
    <3>1. k \in 1..N /\ k - 1 <= N /\ G[k] = F[k] /\ g[k - 1] = f[k - 1]
      BY <1>4, <2>1, <2>2
    <3> QED BY <1>1, <2>1, <3>1
  <2>3. CASE k = N + 1
    <3>1. k - 1 = N /\ G[k] = 0 /\ g[k - 1] = f[N] /\ f[N] \in Field /\ f[N] \in Int
      BY <1>2, <1>4, <2>1, <2>3, FieldFacts
    <3>2. G[k] * x + g[k - 1] = f[N]
      BY <3>1
    <3>3. f[N] % p = f[N]
      BY <3>1, SameRemainder, CongReflexive
    <3> QED BY <1>1, <2>1, <3>1, <3>2, <3>3
  <2>4. CASE k > N + 1
    <3>1. ~(k - 1 <= N) /\ G[k] = 0 /\ g[k - 1] = 0
      BY <1>4, <2>1, <2>4
    <3>2. G[k] * x + g[k - 1] = 0
      BY <3>1
    <3>3. 0 % p = 0
      BY FieldFacts
    <3> QED BY <2>1, <3>1, <3>2, <3>3
  <2> QED BY <2>2, <2>3, <2>4
<1> HIDE DEF S
<1>5. 0 \in S
  <2>1. \A k \in 0..M : k \in S
    BY <1>3, <1>4, DownTo
  <2> QED BY <2>1
<1> QED BY <1>5 DEF S, F, G, Eval

\* A coefficient up is a factor of the argument.
LEMMA Shifted ==
  ASSUME NEW N \in Nat, NEW f \in Poly(N), NEW g \in Poly(N), f[N] = 0, g[0] = 0,
         \A k \in 1..N : g[k] = f[k - 1],
         NEW x \in Int
  PROVE  Cong(Eval(N, g, x), Eval(N, f, x) * x)
<1> DEFINE F == Horner(N, f, x)
           G == Horner(N, g, x)
           S == {k \in 0..N : k > 0 => G[k] = F[k - 1]}
<1>1. /\ F[N] = f[N] /\ G[N] = g[N]
      /\ \A k \in 1..N : F[k - 1] = (F[k] * x + f[k - 1]) % p
      /\ \A k \in 1..N : G[k - 1] = (G[k] * x + g[k - 1]) % p
      /\ \A k \in 1..N : Cong(G[k - 1], G[k] * x + g[k - 1])
  BY HornerUnfolds
<1>2. \A k \in 0..N : f[k] \in Field /\ f[k] \in Int
  BY Coefficients
<1>3. \A k \in 0..N : F[k] \in Int
  <2>1. F \in Poly(N)
    BY HornerUnfolds
  <2> HIDE DEF F
  <2> QED BY <2>1, Coefficients
<1> HIDE DEF F, G
<1>4. N \in S
  <2> SUFFICES ASSUME N > 0 PROVE G[N] = F[N - 1]
    OBVIOUS
  <2>1. N \in 1..N /\ N - 1 \in 0..N
    OBVIOUS
  <2>2. F[N - 1] = (F[N] * x + f[N - 1]) % p /\ F[N] = 0 /\ f[N - 1] \in Field /\ f[N - 1] \in Int
    BY <1>1, <1>2, <2>1
  <2>3. F[N] * x + f[N - 1] = f[N - 1]
    BY <2>2
  <2>4. f[N - 1] % p = f[N - 1]
    BY <2>2, SameRemainder, CongReflexive
  <2> QED BY <1>1, <2>1, <2>2, <2>3, <2>4
<1>5. ASSUME NEW k \in 1..N, k \in S
      PROVE  k - 1 \in S
  <2> SUFFICES ASSUME k > 1 PROVE k - 1 \in S
    BY <1>5
  <2>1. k - 1 \in 1..N /\ (k - 1) - 1 \in 0..N /\ k - 1 \in 0..N
    OBVIOUS
  <2>2. G[k] = F[k - 1] /\ g[k - 1] = f[(k - 1) - 1]
    BY <1>5, <2>1
  <2>3. F[(k - 1) - 1] = (F[k - 1] * x + f[(k - 1) - 1]) % p
    BY <1>1, <2>1
  <2>4. G[k - 1] = (G[k] * x + g[k - 1]) % p
    BY <1>1
  <2> QED BY <2>1, <2>2, <2>3, <2>4
<1> HIDE DEF S
<1>6. \A k \in 0..N : k \in S
  BY <1>4, <1>5, DownTo
<1>7. CASE N = 0
  <2>1. F[0] = 0 /\ G[0] = 0 /\ F[0] * x = 0
    BY <1>1, <1>7
  <2>2. Cong(0, 0)
    BY CongReflexive
  <2> QED BY <2>1, <2>2 DEF Eval, F, G
<1>8. CASE N > 0
  <2>1. 1 \in 0..N /\ 1 \in 1..N /\ 1 - 1 = 0 /\ 0 \in 0..N
    BY <1>8
  <2>2. G[1] = F[0] /\ F[0] \in Int
    BY <1>3, <1>6, <2>1 DEF S
  <2>3. Cong(G[0], G[1] * x + g[0])
    BY <1>1, <2>1
  <2>4. G[1] * x + g[0] = F[0] * x
    BY <2>2
  <2> QED BY <2>3, <2>4 DEF Eval, F, G
<1> QED BY <1>7, <1>8

\* For any N points of the field there is a monic polynomial of degree N that is
\* 0 there.
HasVanishing(N) ==
  \A S \in SUBSET Field :
    Cardinality(S) <= N => \E f \in Poly(N) : f[N] = 1 /\ \A x \in S : Eval(N, f, x) = 0

LEMMA Vanishing ==
  \A N \in Nat : HasVanishing(N)
<1> DEFINE R == {N \in Nat : HasVanishing(N)}
<1>1. HasVanishing(0)
  <2> SUFFICES ASSUME NEW S \in SUBSET Field, Cardinality(S) <= 0
               PROVE  \E f \in Poly(0) : f[0] = 1 /\ \A x \in S : Eval(0, f, x) = 0
    BY DEF HasVanishing
  <2>1. S = {}
    BY FieldSets, FS_EmptySet
  <2>2. [k \in 0..0 |-> 1] \in Poly(0) /\ [k \in 0..0 |-> 1][0] = 1
    BY FieldFacts DEF Poly
  <2> QED BY <2>1, <2>2
<1>2. ASSUME NEW N \in Nat, HasVanishing(N)
      PROVE  HasVanishing(N + 1)
  <2> SUFFICES ASSUME NEW S \in SUBSET Field, Cardinality(S) <= N + 1
               PROVE  \E f \in Poly(N + 1) :
                        f[N + 1] = 1 /\ \A x \in S : Eval(N + 1, f, x) = 0
    BY DEF HasVanishing
  <2>1. PICK a \in Field : S # {} => a \in S
    BY FieldFacts
  <2> DEFINE T == S \ {a}
  <2>2. T \in SUBSET Field /\ Cardinality(T) <= N
    <3>1. CASE S = {}
      <4>1. T = {}
        BY <3>1
      <4> QED BY <4>1, FS_EmptySet
    <3>2. CASE S # {}
      BY <2>1, <3>2, FieldSets, FS_RemoveElement
    <3> QED BY <3>1, <3>2
  <2>3. PICK v \in Poly(N) : v[N] = 1 /\ \A x \in T : Eval(N, v, x) = 0
    BY <1>2, <2>2 DEF HasVanishing
  <2> HIDE DEF T
  <2>4. \A k \in 0..N : v[k] \in Field
    BY Coefficients
  \* v with a coefficient of 0 on top, and shifted by one.
  <2> DEFINE w == [k \in 0..(N + 1) |-> IF k <= N THEN v[k] ELSE 0]
             u == [k \in 0..(N + 1) |-> IF k = 0 THEN 0 ELSE v[k - 1]]
             f == [k \in 0..(N + 1) |-> (u[k] + (-a) * w[k]) % p]
  <2>5. a \in Int /\ -a \in Int /\ N + 1 \in Nat /\ N + 1 \in 0..(N + 1) /\ 0 \in 0..(N + 1)
    BY FieldFacts
  <2>6. \A k \in 0..(N + 1) : w[k] = (IF k <= N THEN v[k] ELSE 0) /\ w[k] \in Field
    BY <2>4, FieldFacts
  <2>7. \A k \in 0..(N + 1) : u[k] = (IF k = 0 THEN 0 ELSE v[k - 1]) /\ u[k] \in Field
    BY <2>4, FieldFacts
  <2>8. w \in Poly(N + 1) /\ u \in Poly(N + 1)
    BY <2>6, <2>7 DEF Poly
  <2> HIDE DEF w, u
  <2>9. ASSUME NEW k \in 0..(N + 1)
        PROVE  /\ u[k] + (-a) * w[k] \in Int /\ (u[k] + (-a) * w[k]) % p \in Field
               /\ Cong((u[k] + (-a) * w[k]) % p, u[k] + (-a) * w[k])
    <3>1. u[k] \in Int /\ w[k] \in Int
      BY <2>6, <2>7, FieldFacts
    <3>2. u[k] + (-a) * w[k] \in Int
      BY <2>5, <3>1
    <3> QED BY <3>2, Remainder
  <2>10. /\ f \in Poly(N + 1)
         /\ \A k \in 0..(N + 1) : f[k] = (u[k] + (-a) * w[k]) % p
         /\ \A k \in 0..(N + 1) : Cong(f[k], u[k] + (-a) * w[k])
    BY <2>9 DEF Poly
  <2> HIDE DEF f
  <2>11. f[N + 1] = 1
    <3>1. u[N + 1] = 1 /\ w[N + 1] = 0
      BY <2>3, <2>5, <2>6, <2>7
    <3>2. u[N + 1] + (-a) * w[N + 1] = 1 /\ f[N + 1] \in Field
      BY <2>5, <2>10, <3>1, Coefficients
    <3>3. Cong(f[N + 1], 1)
      BY <2>5, <2>10, <3>2
    <3> QED BY <3>2, <3>3, CongInField, FieldFacts
  <2>12. ASSUME NEW x \in S
         PROVE  Eval(N + 1, f, x) = 0
    <3> DEFINE V == Eval(N, v, x)
    <3>1. x \in Int /\ x \in Field
      BY FieldFacts
    <3>2. /\ V \in Int /\ Eval(N + 1, u, x) \in Int /\ Eval(N + 1, w, x) \in Int
          /\ Eval(N + 1, f, x) \in Field /\ Eval(N + 1, f, x) \in Int
      BY <2>5, <2>8, <2>10, <3>1, EvalType
    <3>3. Eval(N + 1, w, x) = V
      BY <2>5, <2>6, <2>8, <3>1, Padded
    <3>4. Cong(Eval(N + 1, u, x), Eval(N + 1, w, x) * x)
      <4>1. w[N + 1] = 0 /\ u[0] = 0
        BY <2>5, <2>6, <2>7
      <4>2. \A k \in 1..(N + 1) : u[k] = w[k - 1]
        BY <2>6, <2>7
      <4> QED BY <2>5, <2>8, <3>1, <4>1, <4>2, Shifted
    <3>5. Cong(Eval(N + 1, f, x), Eval(N + 1, u, x) + (-a) * Eval(N + 1, w, x))
      BY <2>5, <2>8, <2>10, <3>1, Combination
    <3> HIDE DEF V
    <3>6. V * x \in Int /\ (-a) * V \in Int /\ Cong((-a) * V, (-a) * V)
      <4>1. V * x \in Int /\ (-a) * V \in Int
        BY <2>5, <3>1, <3>2
      <4> QED BY <4>1, CongReflexive
    <3>7. Cong(Eval(N + 1, u, x) + (-a) * V, V * x + (-a) * V)
      BY <3>2, <3>3, <3>4, <3>6, CongPlus
    <3>8. Cong(Eval(N + 1, f, x), V * x + (-a) * V)
      BY <3>2, <3>3, <3>5, <3>6, <3>7, CongTransitive
    <3>9. V * x + (-a) * V = 0
      <4>1. CASE x = a
        BY <2>5, <3>2, <4>1
      <4>2. CASE x # a
        <5>1. V = 0
          BY <2>3, <4>2 DEF T, V
        <5> QED BY <2>5, <3>1, <5>1
      <4> QED BY <4>1, <4>2
    <3> QED BY <3>2, <3>8, <3>9, CongInField, FieldFacts
  <2> QED BY <2>10, <2>11, <2>12
<1> HIDE DEF R
<1>3. 0 \in R /\ \A N \in Nat : N \in R => N + 1 \in R
  BY <1>1, <1>2 DEF R
<1>4. \A N \in Nat : N \in R
  BY <1>3, AllNaturals
<1> QED BY <1>4 DEF R

\* A polynomial of degree N through N + 1 points: one point more, and as much of
\* a polynomial that is 0 at the earlier points as it takes.
CanInterpolate(N) ==
  \A a, w \in [1..(N + 1) -> Field] :
    (\A x, y \in 1..(N + 1) : a[x] = a[y] => x = y) =>
      \E f \in Poly(N) : \A x \in 1..(N + 1) : Eval(N, f, a[x]) = w[x]

LEMMA Interpolation ==
  \A N \in Nat : CanInterpolate(N)
<1> DEFINE R == {N \in Nat : CanInterpolate(N)}
<1>1. CanInterpolate(0)
  <2> SUFFICES ASSUME NEW a \in [1..1 -> Field], NEW w \in [1..1 -> Field]
               PROVE  \E f \in Poly(0) : \A x \in 1..1 : Eval(0, f, a[x]) = w[x]
    BY DEF CanInterpolate
  <2> DEFINE f == [k \in 0..0 |-> w[1]]
  <2>1. f \in Poly(0) /\ f[0] = w[1] /\ a[1] \in Int
    BY FieldFacts DEF Poly
  <2> HIDE DEF f
  <2>2. Eval(0, f, a[1]) = f[0]
    BY <2>1, HornerUnfolds DEF Eval
  <2>3. \A x \in 1..1 : x = 1
    OBVIOUS
  <2> QED BY <2>1, <2>2, <2>3
<1>2. ASSUME NEW N \in Nat, CanInterpolate(N)
      PROVE  CanInterpolate(N + 1)
  <2> SUFFICES ASSUME NEW a \in [1..((N + 1) + 1) -> Field],
                      NEW w \in [1..((N + 1) + 1) -> Field],
                      \A x, y \in 1..((N + 1) + 1) : a[x] = a[y] => x = y
               PROVE  \E f \in Poly(N + 1) :
                        \A x \in 1..((N + 1) + 1) : Eval(N + 1, f, a[x]) = w[x]
    BY DEF CanInterpolate
  <2> DEFINE end == (N + 1) + 1
             last == a[end]
             points == [x \in 1..(N + 1) |-> a[x]]
             before == [x \in 1..(N + 1) |-> w[x]]
             S == Image(a, 1..(N + 1))
             T == Image(a, 1..((N + 1) + 1))
  <2>1. /\ end \in 1..((N + 1) + 1) /\ last \in Field /\ last \in Int
        /\ N + 1 \in Nat /\ N <= N + 1
        /\ \A x \in 1..(N + 1) : x \in 1..((N + 1) + 1)
        /\ \A x \in 1..((N + 1) + 1) : x = end \/ x \in 1..(N + 1)
    BY FieldFacts
  <2>2. /\ S \in SUBSET Field /\ Cardinality(S) = N + 1
        /\ T \in SUBSET Field /\ Cardinality(T) = (N + 1) + 1
    <3>1. /\ IsFiniteSet(1..(N + 1)) /\ Cardinality(1..(N + 1)) = N + 1
          /\ IsFiniteSet(1..((N + 1) + 1)) /\ Cardinality(1..((N + 1) + 1)) = (N + 1) + 1
      <4>1. /\ 1 \in Int /\ N + 1 \in Int /\ ~(1 > N + 1) /\ (N + 1) - 1 + 1 = N + 1
            /\ (N + 1) + 1 \in Int /\ ~(1 > (N + 1) + 1) /\ ((N + 1) + 1) - 1 + 1 = (N + 1) + 1
        OBVIOUS
      <4> QED BY <4>1, FS_Interval
    <3>2. /\ \A x \in 1..(N + 1) : a[x] \in Field
          /\ \A x, y \in 1..(N + 1) : a[x] = a[y] => x = y
          /\ \A x \in 1..((N + 1) + 1) : a[x] \in Field
      BY <2>1
    <3>3. S \in SUBSET Field /\ Cardinality(S) = N + 1
      BY <3>1, <3>2, ImageSize
    <3>4. T \in SUBSET Field /\ Cardinality(T) = (N + 1) + 1
      BY <3>1, <3>2, ImageSize
    <3> QED BY <3>3, <3>4
  <2>3. /\ before \in [1..(N + 1) -> Field] /\ points \in [1..(N + 1) -> Field]
        /\ \A x \in 1..(N + 1) : before[x] = w[x] /\ points[x] = a[x]
        /\ \A x, y \in 1..(N + 1) : points[x] = points[y] => x = y
    BY <2>1
  <2>4. PICK g \in Poly(N) : \A x \in 1..(N + 1) : Eval(N, g, a[x]) = w[x]
    <3> HIDE DEF before, points
    <3>1. PICK g \in Poly(N) : \A x \in 1..(N + 1) : Eval(N, g, points[x]) = before[x]
      BY <1>2, <2>3 DEF CanInterpolate
    <3> QED BY <2>3, <3>1
  <2>5. PICK v \in Poly(N + 1) : v[N + 1] = 1 /\ \A x \in S : Eval(N + 1, v, x) = 0
    <3> HIDE DEF S
    <3>1. HasVanishing(N + 1) /\ Cardinality(S) <= N + 1
      BY <2>1, <2>2, Vanishing
    <3> QED BY <2>2, <3>1 DEF HasVanishing
  <2> DEFINE h == [k \in 0..(N + 1) |-> IF k <= N THEN g[k] ELSE 0]
             b == Eval(N + 1, v, last)
             c == (w[end] - Eval(N + 1, h, last)) * Inv(b)
             f == [k \in 0..(N + 1) |-> (h[k] + c * v[k]) % p]
  <2>6. \A k \in 0..N : g[k] \in Field
    BY Coefficients
  <2>7. h \in Poly(N + 1) /\ \A k \in 0..(N + 1) : h[k] = IF k <= N THEN g[k] ELSE 0
    BY <2>6, FieldFacts DEF Poly
  <2>60. \A x \in T : x = last \/ x \in S
    BY <2>1 DEF Image
  <2> HIDE DEF last, end, S, T, h, before, points
  \* v is not 0 at the last point: it would have too many roots.
  <2>8. b # 0
    <3> SUFFICES ASSUME b = 0 PROVE FALSE
      OBVIOUS
    <3>1. \A x \in T : Eval(N + 1, v, x) = 0
      BY <2>5, <2>60
    <3>2. Cardinality(T) > N + 1
      BY <2>1, <2>2
    <3>3. \A k \in 0..(N + 1) : v[k] = 0
      BY <2>1, <2>2, <3>1, <3>2, Roots DEF HasFewRoots
    <3> QED BY <2>1, <2>5, <3>3
  <2>9. /\ b \in Int /\ Eval(N + 1, h, last) \in Int /\ w[end] \in Int /\ w[end] \in Field
        /\ b \in 1..(p - 1)
    <3>1. b \in Field /\ b \in Int /\ Eval(N + 1, h, last) \in Int
      BY <2>1, <2>5, <2>7, EvalType
    <3>2. w[end] \in Field
      BY <2>1
    <3> QED BY <2>8, <3>1, <3>2, FieldFacts DEF Field
  <2>10. Inv(b) \in Int /\ Cong(b * Inv(b), 1)
    <3>1. Inv(b) \in Field /\ (b * Inv(b)) % p = 1
      BY <2>9, FieldAssumption
    <3>2. Inv(b) \in Int /\ b * Inv(b) \in Int
      BY <2>9, <3>1, FieldFacts
    <3> QED BY <3>1, <3>2, SameRemainder, FieldFacts
  <2>11. c \in Int
    BY <2>9, <2>10
  <2>12. Cong(c * b, w[end] - Eval(N + 1, h, last))
    <3> DEFINE y == w[end] - Eval(N + 1, h, last)
               i == Inv(b)
    <3>1. y \in Int /\ i \in Int /\ Cong(b * i, 1) /\ b * i \in Int /\ b \in Int
      BY <2>9, <2>10
    <3> HIDE DEF y, i
    <3> HIDE DEF b
    <3>2. Cong(y * (b * i), y * 1)
      <4> DEFINE z == b * i
      <4>1. z \in Int /\ Cong(z, 1)
        BY <3>1
      <4> HIDE DEF z
      <4>2. Cong(y * z, y * 1)
        BY <3>1, <4>1, CongReflexive, CongTimes
      <4> QED BY <4>2 DEF z
    <3>3. y * (b * i) = (y * i) * b /\ y * 1 = y
      BY <3>1
    <3>4. Cong((y * i) * b, y)
      BY <3>2, <3>3
    <3> QED BY <3>4 DEF y, i
  <2> HIDE DEF b, c
  <2>13. ASSUME NEW k \in 0..(N + 1)
         PROVE  /\ (h[k] + c * v[k]) % p \in Field
                /\ Cong((h[k] + c * v[k]) % p, h[k] + c * v[k])
    <3>1. h[k] \in Int /\ v[k] \in Int
      BY <2>1, <2>5, <2>7, Coefficients
    <3>2. h[k] + c * v[k] \in Int
      BY <2>11, <3>1
    <3> QED BY <3>2, Remainder
  <2>14. f \in Poly(N + 1) /\ \A k \in 0..(N + 1) : Cong(f[k], h[k] + c * v[k])
    BY <2>13 DEF Poly
  <2> HIDE DEF f
  <2>15. ASSUME NEW i \in 1..((N + 1) + 1)
         PROVE  Eval(N + 1, f, a[i]) = w[i]
    <3> DEFINE x == a[i]
    <3>1. x \in Int /\ w[i] \in Field /\ w[i] \in Int
      BY FieldFacts
    <3>2. /\ Eval(N + 1, f, x) \in Field /\ Eval(N + 1, f, x) \in Int
          /\ Eval(N + 1, h, x) \in Int /\ Eval(N + 1, v, x) \in Int
      BY <2>1, <2>5, <2>7, <2>14, <3>1, EvalType
    <3>3. Cong(Eval(N + 1, f, x), Eval(N + 1, h, x) + c * Eval(N + 1, v, x))
      BY <2>1, <2>5, <2>7, <2>11, <2>14, <3>1, Combination
    <3>4. CASE i \in 1..(N + 1)
      <4>1. Eval(N + 1, h, x) = Eval(N, g, x)
        BY <2>1, <2>4, <2>7, <3>1, Padded
      <4>2. Eval(N + 1, h, x) = w[i] /\ Eval(N + 1, v, x) = 0
        BY <2>4, <2>5, <3>4, <4>1 DEF S, Image
      <4>3. Eval(N + 1, h, x) + c * Eval(N + 1, v, x) = w[i]
        BY <2>11, <3>1, <4>2
      <4> QED BY <3>1, <3>2, <3>3, <4>3, CongInField
    <3>5. CASE i = end
      <4> DEFINE y == Eval(N + 1, h, last)
                 z == w[end] - y
      <4>1. Cong(c * b, z) /\ y \in Int /\ z \in Int /\ c * b \in Int /\ y + z = w[end]
        BY <2>9, <2>11, <2>12
      <4>0. x = last
        BY <3>5 DEF last
      <4>2. Cong(Eval(N + 1, f, x), y + c * b)
        BY <3>3, <4>0 DEF b
      <4> HIDE DEF y, z
      <4>3. Cong(y + c * b, y + z)
        BY <4>1, CongReflexive, CongPlus
      <4>4. Cong(Eval(N + 1, f, x), y + z)
        BY <3>2, <4>1, <4>2, <4>3, CongTransitive
      <4> QED BY <3>1, <3>2, <3>5, <4>1, <4>4, CongInField
    <3> QED BY <2>1, <3>4, <3>5
  <2> QED BY <2>14, <2>15
<1> HIDE DEF R
<1>3. 0 \in R /\ \A N \in Nat : N \in R => N + 1 \in R
  BY <1>1, <1>2 DEF R
<1>4. \A N \in Nat : N \in R
  BY <1>3, AllNaturals
<1> QED BY <1>4 DEF R

-----------------------------------------------------------------------------
(* BerlekampWelch.  Products.                                               *)

\* Multiplying by E, a coefficient of f at a time.
IsProduct(W, N, f, E) ==
  /\ W \in [0..N -> Poly(N + code.e)]
  /\ \A k \in 0..N : \A j \in 0..(N + code.e) :
       W[k][j] = ((IF j <= code.e THEN f[k] * E[j] ELSE 0)
                    + (IF k < N /\ j > 0 THEN W[k + 1][j - 1] ELSE 0)) % p

\* Product does so.
LEMMA ProductUnfolds ==
  ASSUME NEW N \in Nat, code.e \in Nat, NEW f \in Poly(N), NEW E \in Poly(code.e)
  PROVE  \E W : IsProduct(W, N, f, E) /\ Product(N, f, E) = W[0]
<1> DEFINE e == code.e
           Term(k, j) == IF j <= e THEN f[k] * E[j] ELSE 0
           G == [k \in 1..N |-> [v \in Poly(N + e) |->
                   [j \in 0..(N + e) |-> (Term(k - 1, j) + (IF j > 0 THEN v[j - 1] ELSE 0)) % p]]]
           a == [j \in 0..(N + e) |-> (Term(N, j) + 0) % p]
<1>1. e \in Nat /\ N + e \in Nat
  OBVIOUS
<1>2. ASSUME NEW k \in 0..N, NEW j \in 0..(N + e)
      PROVE  Term(k, j) \in Int
  <2>1. f[k] \in Int
    BY Coefficients
  <2>2. j <= e => E[j] \in Int
    BY <1>1, Coefficients
  <2>3. j <= e => f[k] * E[j] \in Int
    BY <2>1, <2>2
  <2> QED BY <2>3
<1> HIDE DEF e, Term
<1>3. ASSUME NEW k \in 0..N, NEW v \in Poly(N + e), NEW j \in 0..(N + e)
      PROVE  (Term(k, j) + (IF j > 0 THEN v[j - 1] ELSE 0)) % p \in Field
  <2>1. j > 0 => j - 1 \in 0..(N + e)
    BY <1>1
  <2>2. (IF j > 0 THEN v[j - 1] ELSE 0) \in Int
    BY <1>1, <2>1, Coefficients
  <2>3. Term(k, j) + (IF j > 0 THEN v[j - 1] ELSE 0) \in Int
    BY <1>2, <2>2
  <2> QED BY <2>3, Remainder
<1>4. ASSUME NEW j \in 0..(N + e)
      PROVE  (Term(N, j) + 0) % p \in Field
  <2>1. Term(N, j) + 0 \in Int
    BY <1>2
  <2> QED BY <2>1, Remainder
<1>5. a \in Poly(N + e)
  BY <1>4 DEF Poly
<1>6. StepsIn(Poly(N + e), 1..N, G)
  <2> SUFFICES ASSUME NEW k \in 1..N, NEW v \in Poly(N + e)
               PROVE  G[k][v] \in Poly(N + e)
    BY DEF StepsIn
  <2>1. k - 1 \in 0..N
    OBVIOUS
  <2>2. \A j \in 0..(N + e) : (Term(k - 1, j) + (IF j > 0 THEN v[j - 1] ELSE 0)) % p \in Field
    BY <1>3, <2>1
  <2> QED BY <2>2 DEF Poly
<1>7. \A k \in 1..N, v \in Poly(N + e) :
        G[k][v] = [j \in 0..(N + e) |-> (Term(k - 1, j) + (IF j > 0 THEN v[j - 1] ELSE 0)) % p]
  OBVIOUS
<1> HIDE DEF G
<1>8. PICK h \in [0..N -> Poly(N + e)] : h[N] = a /\ \A k \in 1..N : h[k - 1] = G[k][h[k]]
  <2> HIDE DEF a
  <2> QED BY <1>5, <1>6, Downward DEF GoesDown
<1>9. ASSUME NEW k \in 0..N
      PROVE  h[k] = [j \in 0..(N + e) |->
                       (Term(k, j) + (IF k < N /\ j > 0 THEN h[k + 1][j - 1] ELSE 0)) % p]
  <2>1. CASE k = N
    BY <1>8, <2>1
  <2>2. CASE k # N
    <3>1. k < N /\ k + 1 \in 1..N /\ k + 1 \in 0..N /\ (k + 1) - 1 = k
      BY <2>2
    <3>2. h[(k + 1) - 1] = G[k + 1][h[k + 1]] /\ h[k + 1] \in Poly(N + e)
      BY <1>8, <3>1
    <3>3. h[k] = [j \in 0..(N + e) |->
                    (Term(k, j) + (IF j > 0 THEN h[k + 1][j - 1] ELSE 0)) % p]
      <4> DEFINE i == k + 1
      <4>1. i \in 1..N /\ i - 1 = k /\ h[i] \in Poly(N + e) /\ h[k] = G[i][h[i]]
        BY <3>1, <3>2
      <4> HIDE DEF i
      <4>2. h[k] = [j \in 0..(N + e) |->
                      (Term(i - 1, j) + (IF j > 0 THEN h[i][j - 1] ELSE 0)) % p]
        BY <1>7, <4>1
      <4>3. h[k] = [j \in 0..(N + e) |->
                      (Term(k, j) + (IF j > 0 THEN h[i][j - 1] ELSE 0)) % p]
        BY <4>1, <4>2, Zenon
      <4> QED BY <4>3 DEF i
    <3> QED BY <3>1, <3>3
  <2> QED BY <2>1, <2>2
<1>10. h = [k \in 0..N |-> [j \in 0..(N + e) |->
              (Term(k, j) + (IF k < N /\ j > 0 THEN h[k + 1][j - 1] ELSE 0)) % p]]
  BY <1>8, <1>9
<1>11. PICK W : /\ W = [k \in 0..N |-> [j \in 0..(N + e) |->
                     (Term(k, j) + (IF k < N /\ j > 0 THEN W[k + 1][j - 1] ELSE 0)) % p]]
                /\ Product(N, f, E) = W[0]
  BY <1>10 DEF Product, e, Term
<1>12. ASSUME NEW k \in 0..N
       PROVE  W[k] = [j \in 0..(N + e) |->
                        (Term(k, j) + (IF k < N /\ j > 0 THEN W[k + 1][j - 1] ELSE 0)) % p]
  BY <1>11
<1> DEFINE S == {k \in 0..N : W[k] \in Poly(N + e)}
<1>13. N \in S
  <2>1. N \in 0..N /\ ~(N < N)
    OBVIOUS
  <2>2. W[N] = a
    BY <1>12, <2>1
  <2> QED BY <1>5, <2>1, <2>2
<1>14. ASSUME NEW k \in 1..N, k \in S
       PROVE  k - 1 \in S
  <2>1. k - 1 \in 0..N /\ k - 1 < N /\ (k - 1) + 1 = k /\ W[k] \in Poly(N + e)
    BY <1>14
  <2>2. W[k - 1] = [j \in 0..(N + e) |->
                      (Term(k - 1, j) + (IF j > 0 THEN W[k][j - 1] ELSE 0)) % p]
    BY <1>12, <2>1
  <2>3. \A j \in 0..(N + e) : (Term(k - 1, j) + (IF j > 0 THEN W[k][j - 1] ELSE 0)) % p \in Field
    BY <1>3, <2>1
  <2> QED BY <2>1, <2>2, <2>3 DEF Poly
<1>15. \A k \in 0..N : k \in S
  <2> HIDE DEF S
  <2> QED BY <1>13, <1>14, DownTo
<1>16. W \in [0..N -> Poly(N + e)]
  <2>1. \A k \in 0..N : W[k] \in Poly(N + e)
    BY <1>15
  <2> QED BY <1>11, <2>1
<1>17. ASSUME NEW k \in 0..N, NEW j \in 0..(N + e)
       PROVE  W[k][j] = (Term(k, j) + (IF k < N /\ j > 0 THEN W[k + 1][j - 1] ELSE 0)) % p
  BY <1>12
<1>18. IsProduct(W, N, f, E)
  BY <1>16, <1>17 DEF IsProduct, e, Term
<1> QED BY <1>11, <1>18

\* What comes of f's coefficients from k up, when those above the c-th are 0, and
\* E is monic: nothing above c - k + e, and f's coefficient c there.
LEMMA ProductDegree ==
  ASSUME NEW N \in Nat, code.e \in Nat, NEW f \in Poly(N), NEW E \in Poly(code.e),
         NEW W, IsProduct(W, N, f, E), NEW c \in 0..N,
         \A k \in 0..N : k > c => f[k] = 0
  PROVE  /\ \A k \in 0..N : \A j \in 0..(N + code.e) :
              k > c \/ j > c - k + code.e => W[k][j] = 0
         /\ E[code.e] = 1 => W[0][c + code.e] = f[c]
<1> DEFINE e == code.e
           Term(k, j) == IF j <= e THEN f[k] * E[j] ELSE 0
           Above(k) == \A j \in 0..(N + e) : k > c \/ j > c - k + e => W[k][j] = 0
           Top(k) == E[e] = 1 /\ k <= c => W[k][c - k + e] = f[c]
           S == {k \in 0..N : Above(k) /\ Top(k)}
<1>1. e \in Nat /\ N + e \in Nat /\ 0 % p = 0
  BY FieldFacts
<1>2. /\ \A k \in 0..N : f[k] \in Int /\ f[k] \in Field
      /\ \A j \in 0..e : E[j] \in Int
  BY <1>1, Coefficients
<1>3. /\ \A k \in 0..N : W[k] \in Poly(N + e)
      /\ \A k \in 0..N : \A j \in 0..(N + e) :
           W[k][j] = (Term(k, j) + (IF k < N /\ j > 0 THEN W[k + 1][j - 1] ELSE 0)) % p
  BY DEF IsProduct
<1>4. ASSUME NEW k \in 0..N, NEW j \in 0..(N + e), k > c \/ j > e
      PROVE  Term(k, j) = 0
  <2>1. CASE ~(j <= e)
    BY <2>1
  <2>2. CASE j <= e
    <3>1. k > c /\ j \in 0..e
      BY <1>1, <1>4, <2>2
    <3>2. f[k] = 0 /\ E[j] \in Int
      BY <1>2, <3>1
    <3>3. f[k] * E[j] = 0
      BY <3>2
    <3> QED BY <3>3
  <2> QED BY <2>1, <2>2
<1>5. E[e] = 1 => Term(c, e) = f[c]
  <2>1. f[c] \in Int
    BY <1>2
  <2> QED BY <2>1
<1>6. f[c] % p = f[c] /\ f[c] \in Int
  BY <1>2, SameRemainder, CongReflexive
<1> HIDE DEF Term, e
\* A step adds the terms of one coefficient; what it takes from above is 0.
<1>7. ASSUME NEW k \in 0..N, k < N => k + 1 \in S
      PROVE  k \in S
  <2>1. ASSUME k < N
        PROVE  k + 1 \in 0..N /\ Above(k + 1) /\ Top(k + 1)
    BY <1>7, <2>1
  <2> DEFINE Rest(j) == IF k < N /\ j > 0 THEN W[k + 1][j - 1] ELSE 0
  <2>2. \A j \in 0..(N + e) : W[k][j] = (Term(k, j) + Rest(j)) % p
    BY <1>3
  <2>3. ASSUME NEW j \in 0..(N + e), k >= c \/ j > c - k + e
        PROVE  Rest(j) = 0
    <3> SUFFICES ASSUME k < N, j > 0
                 PROVE  W[k + 1][j - 1] = 0
      OBVIOUS
    <3>1. j - 1 \in 0..(N + e) /\ (k + 1 > c \/ j - 1 > c - (k + 1) + e)
      BY <1>1, <2>3
    <3> QED BY <2>1, <3>1
  <2> HIDE DEF Rest
  <2>4. Above(k)
    <3> SUFFICES ASSUME NEW j \in 0..(N + e), k > c \/ j > c - k + e
                 PROVE  W[k][j] = 0
      OBVIOUS
    <3>1. k > c \/ j > e
      BY <1>1
    <3>2. Term(k, j) = 0 /\ Rest(j) = 0
      BY <1>4, <2>3, <3>1
    <3> QED BY <1>1, <2>2, <3>2
  <2>5. Top(k)
    <3> SUFFICES ASSUME E[e] = 1, k <= c
                 PROVE  W[k][c - k + e] = f[c]
      OBVIOUS
    <3>1. c - k + e \in 0..(N + e)
      BY <1>1
    <3>2. CASE k = c
      <4>1. c - k + e = e /\ e \in 0..(N + e)
        BY <1>1, <3>2
      <4>2. Rest(e) = 0 /\ Term(k, e) = f[c]
        BY <1>5, <2>3, <3>2, <4>1
      <4> QED BY <1>6, <2>2, <4>1, <4>2
    <3>3. CASE k # c
      <4>1. k < N /\ c - k + e > 0 /\ c - k + e > e /\ k + 1 <= c
            /\ (c - k + e) - 1 = c - (k + 1) + e
        BY <1>1, <3>3
      <4>2. Rest(c - k + e) = f[c]
        BY <2>1, <4>1 DEF Rest
      <4>3. Term(k, c - k + e) = 0
        BY <1>4, <3>1, <4>1
      <4> QED BY <1>6, <2>2, <3>1, <4>2, <4>3
    <3> QED BY <3>2, <3>3
  <2> HIDE DEF Above, Top
  <2> QED BY <2>4, <2>5
<1>8. N \in S
  BY <1>7
<1>9. ASSUME NEW k \in 1..N, k \in S
      PROVE  k - 1 \in S
  <2>1. k - 1 \in 0..N /\ (k - 1) + 1 = k
    OBVIOUS
  <2> HIDE DEF S
  <2> QED BY <1>7, <1>9, <2>1
<1>10. \A k \in 0..N : k \in S
  <2> HIDE DEF S
  <2> QED BY <1>8, <1>9, DownTo
<1>11. Above(0) /\ Top(0) /\ \A k \in 0..N : Above(k)
  <2>1. 0 \in 0..N
    OBVIOUS
  <2> HIDE DEF Above, Top
  <2> QED BY <1>10, <2>1
<1>12. E[e] = 1 => W[0][c + e] = f[c]
  <2>1. c - 0 + e = c + e /\ 0 <= c
    BY <1>1
  <2> QED BY <1>11, <2>1
<1> QED BY <1>11, <1>12 DEF e

\* The polynomial without coefficients is 0 everywhere.
LEMMA EvalOfZero ==
  ASSUME NEW N \in Nat, NEW f \in Poly(N), \A k \in 0..N : f[k] = 0, NEW x \in Int
  PROVE  Eval(N, f, x) = 0
<1> DEFINE H == Horner(N, f, x)
           S == {k \in 0..N : H[k] = 0}
<1>1. H[N] = f[N] /\ \A k \in 1..N : H[k - 1] = (H[k] * x + f[k - 1]) % p
  BY HornerUnfolds
<1> HIDE DEF H
<1>2. N \in S
  BY <1>1
<1>3. ASSUME NEW k \in 1..N, k \in S
      PROVE  k - 1 \in S
  <2>1. k - 1 \in 0..N
    OBVIOUS
  <2>2. f[k - 1] = 0 /\ H[k] = 0
    BY <1>3, <2>1
  <2>3. H[k] * x + f[k - 1] = 0 /\ 0 % p = 0
    BY <2>2, FieldFacts
  <2> QED BY <1>1, <2>1, <2>3
<1>4. \A k \in 0..N : k \in S
  <2> HIDE DEF S
  <2> QED BY <1>2, <1>3, DownTo
<1> QED BY <1>4 DEF H, Eval

\* The product's values are the products of the values.
LEMMA ProductEval ==
  ASSUME NEW N \in Nat, code.e \in Nat, NEW f \in Poly(N), NEW E \in Poly(code.e),
         NEW x \in Int
  PROVE  /\ Product(N, f, E) \in Poly(N + code.e)
         /\ Cong(Eval(N + code.e, Product(N, f, E), x), Eval(N, f, x) * Eval(code.e, E, x))
<1> DEFINE e == code.e
           F == Horner(N, f, x)
           y == Eval(e, E, x)
           padded == [j \in 0..(N + e) |-> IF j <= e THEN E[j] ELSE 0]
           zero == [j \in 0..(N + e) |-> 0]
<1>1. PICK W : IsProduct(W, N, f, E) /\ Product(N, f, E) = W[0]
  BY ProductUnfolds
<1>2. /\ e \in Nat /\ N + e \in Nat /\ E \in Poly(e) /\ e <= N + e
      /\ 0 \in 0..N /\ N \in 0..N /\ 0 \in 0..(N + e) /\ N + e \in 0..(N + e)
  OBVIOUS
<1>3. /\ \A k \in 0..N : W[k] \in Poly(N + e)
      /\ \A k \in 0..N : \A j \in 0..(N + e) :
           W[k][j] = ((IF j <= e THEN f[k] * E[j] ELSE 0)
                        + (IF k < N /\ j > 0 THEN W[k + 1][j - 1] ELSE 0)) % p
  BY <1>1 DEF IsProduct
<1>4. \A k \in 1..N : W[k][N + e] = 0
  <2>1. \A k \in 0..N : ~(k > N)
    OBVIOUS
  <2>2. \A k \in 0..N : \A j \in 0..(N + e) : k > N \/ j > N - k + e => W[k][j] = 0
    BY <1>1, <1>2, <2>1, ProductDegree
  <2>3. \A k \in 1..N : k \in 0..N /\ N + e > N - k + e
    BY <1>2
  <2> HIDE DEF e
  <2> QED BY <1>2, <2>2, <2>3
<1> HIDE DEF e
<1>5. /\ \A k \in 0..N : f[k] \in Int
      /\ \A j \in 0..e : E[j] \in Field
  BY <1>2, Coefficients
<1>6. padded \in Poly(N + e) /\ \A j \in 0..(N + e) : padded[j] = IF j <= e THEN E[j] ELSE 0
  <2>1. \A j \in 0..(N + e) : j <= e => j \in 0..e
    BY <1>2
  <2> QED BY <1>5, <2>1, FieldFacts DEF Poly
<1>7. zero \in Poly(N + e) /\ \A j \in 0..(N + e) : zero[j] = 0
  BY FieldFacts DEF Poly
<1> HIDE DEF padded, zero
<1>8. Eval(N + e, padded, x) = y
  BY <1>2, <1>6, Padded
<1>9. y \in Int
  BY <1>2, EvalType
<1>10. /\ \A k \in 0..N : F[k] \in Int
       /\ F[N] = f[N]
       /\ \A k \in 1..N : Cong(F[k - 1], F[k] * x + f[k - 1])
  <2>1. F \in Poly(N) /\ F[N] = f[N] /\ \A k \in 1..N : Cong(F[k - 1], F[k] * x + f[k - 1])
    BY HornerUnfolds
  <2> HIDE DEF F
  <2> QED BY <2>1, Coefficients
<1> HIDE DEF y, F
<1>11. \A k \in 0..N : Eval(N + e, W[k], x) \in Int
  BY <1>2, <1>3, EvalType
\* What one step adds to a polynomial of what has been found so far.
<1>12. ASSUME NEW k \in 0..N, NEW s \in Poly(N + e),
              \A j \in 0..(N + e) :
                s[j] = IF k < N /\ j > 0 THEN W[k + 1][j - 1] ELSE 0
       PROVE  Cong(Eval(N + e, W[k], x), Eval(N + e, s, x) + f[k] * y)
  <2>1. ASSUME NEW j \in 0..(N + e)
        PROVE  Cong(W[k][j], s[j] + f[k] * padded[j])
    <3>1. s[j] \in Int /\ padded[j] \in Int /\ f[k] \in Int
      BY <1>2, <1>5, <1>6, Coefficients
    <3>2. s[j] + f[k] * padded[j] \in Int
      BY <3>1
    <3>3. W[k][j] = (s[j] + f[k] * padded[j]) % p
      <4>1. W[k][j] = ((IF j <= e THEN f[k] * E[j] ELSE 0) + s[j]) % p
        BY <1>3, <1>12
      <4>2. (IF j <= e THEN f[k] * E[j] ELSE 0) = f[k] * padded[j]
        BY <1>6, <3>1
      <4>3. f[k] * padded[j] + s[j] = s[j] + f[k] * padded[j]
        BY <3>1
      <4> QED BY <4>1, <4>2, <4>3
    <3> QED BY <3>2, <3>3, Remainder
  <2>2. f[k] \in Int /\ W[k] \in Poly(N + e)
    BY <1>3, <1>5
  <2> QED BY <1>2, <1>6, <1>8, <2>1, <2>2, Combination
<1> DEFINE S == {k \in 0..N : Cong(Eval(N + e, W[k], x), F[k] * y)}
<1>13. N \in S
  <2>1. \A j \in 0..(N + e) : zero[j] = IF N < N /\ j > 0 THEN W[N + 1][j - 1] ELSE 0
    BY <1>7
  <2>2. Cong(Eval(N + e, W[N], x), Eval(N + e, zero, x) + f[N] * y)
    BY <1>2, <1>7, <1>12, <2>1
  <2>3. Eval(N + e, zero, x) = 0
    BY <1>2, <1>7, EvalOfZero
  <2>4. 0 + f[N] * y = F[N] * y
    BY <1>2, <1>5, <1>9, <1>10
  <2> QED BY <1>2, <2>2, <2>3, <2>4
<1>14. ASSUME NEW k \in 1..N, k \in S
       PROVE  k - 1 \in S
  <2> DEFINE s == [j \in 0..(N + e) |-> IF j > 0 THEN W[k][j - 1] ELSE 0]
             u == Eval(N + e, s, x)
             v == Eval(N + e, W[k], x)
  <2>1. k \in 0..N /\ k - 1 \in 0..N /\ k - 1 < N /\ (k - 1) + 1 = k
    OBVIOUS
  <2>2. W[k] \in Poly(N + e) /\ W[k][N + e] = 0
    BY <1>3, <1>4, <2>1
  <2>3. s \in Poly(N + e) /\ \A j \in 0..(N + e) : s[j] = IF j > 0 THEN W[k][j - 1] ELSE 0
    <3>1. \A j \in 0..(N + e) : j > 0 => j - 1 \in 0..(N + e)
      BY <1>2
    <3>2. \A j \in 0..(N + e) : j > 0 => W[k][j - 1] \in Field
      BY <1>2, <2>2, <3>1, Coefficients
    <3> QED BY <3>2, FieldFacts DEF Poly
  <2> HIDE DEF s
  <2>4. Cong(Eval(N + e, W[k - 1], x), u + f[k - 1] * y)
    BY <1>12, <2>1, <2>3
  <2>5. Cong(u, v * x)
    <3>1. s[0] = 0 /\ \A j \in 1..(N + e) : s[j] = W[k][j - 1]
      BY <1>2, <2>3
    <3> QED BY <1>2, <2>2, <2>3, <3>1, Shifted
  <2>6. /\ u \in Int /\ v \in Int /\ f[k - 1] \in Int /\ F[k] \in Int /\ F[k - 1] \in Int
        /\ Eval(N + e, W[k - 1], x) \in Int
    BY <1>2, <1>5, <1>10, <1>11, <2>1, <2>3, EvalType
  <2>7. Cong(v, F[k] * y)
    BY <1>14
  <2>8. Cong(F[k - 1], F[k] * x + f[k - 1])
    BY <1>10
  <2> HIDE DEF u, v
  <2> DEFINE a == F[k] * y
             b == F[k] * x + f[k - 1]
             c == f[k - 1] * y
  <2>9. a \in Int /\ b \in Int /\ c \in Int /\ a * x + c = b * y /\ Cong(c, c)
        /\ v * x \in Int /\ a * x \in Int /\ b * y \in Int /\ F[k - 1] * y \in Int
    BY <1>9, <2>6, CongReflexive
  <2>10. Cong(v, a) /\ Cong(F[k - 1], b) /\ Cong(Eval(N + e, W[k - 1], x), u + c)
    BY <2>4, <2>7, <2>8
  <2> HIDE DEF a, b, c
  <2>11. Cong(v * x, a * x) /\ Cong(F[k - 1] * y, b * y)
    BY <1>9, <2>6, <2>9, <2>10, CongReflexive, CongTimes
  <2>12. Cong(u, a * x)
    BY <2>5, <2>6, <2>9, <2>11, CongTransitive
  <2>13. Cong(u + c, a * x + c)
    BY <2>6, <2>9, <2>12, CongPlus
  <2>14. Cong(Eval(N + e, W[k - 1], x), b * y)
    BY <2>6, <2>9, <2>10, <2>13, CongTransitive
  <2>15. Cong(b * y, F[k - 1] * y)
    BY <2>9, <2>11, CongSymmetric
  <2>16. Cong(Eval(N + e, W[k - 1], x), F[k - 1] * y)
    BY <2>6, <2>9, <2>14, <2>15, CongTransitive
  <2> QED BY <2>1, <2>16
<1>15. 0 \in S
  <2> HIDE DEF S
  <2>1. \A k \in 0..N : k \in S
    BY <1>13, <1>14, DownTo
  <2> QED BY <1>2, <2>1
<1>16. Product(N, f, E) \in Poly(N + e)
       /\ Cong(Eval(N + e, Product(N, f, E), x), F[0] * y)
  BY <1>1, <1>2, <1>3, <1>15
<1> QED BY <1>16 DEF e, F, y, Eval

\* A multiple of a monic polynomial of degree e that has no coefficient from the
\* e-th on is 0: division leaves one remainder only.
LEMMA NoSmallMultiple ==
  ASSUME NEW N \in Nat, code.e \in Nat, NEW f \in Poly(N), NEW E \in Poly(code.e),
         E[code.e] = 1,
         NEW R \in Poly(N + code.e), \A k \in 0..(N + code.e) : k >= code.e => R[k] = 0,
         NEW S \in SUBSET Field, Cardinality(S) > N + code.e,
         \A x \in S : Cong(Eval(N + code.e, R, x), Eval(N, f, x) * Eval(code.e, E, x))
  PROVE  /\ \A k \in 0..N : f[k] = 0
         /\ \A k \in 0..(N + code.e) : R[k] = 0
<1> DEFINE e == code.e
           M == N + e
           P == Product(N, f, E)
<1>1. e \in Nat /\ M \in Nat
  OBVIOUS
<1>2. PICK W : IsProduct(W, N, f, E) /\ P = W[0]
  BY ProductUnfolds
<1>3. ASSUME NEW x \in S
      PROVE  Eval(M, P, x) = Eval(M, R, x) /\ x \in Int
  <2> DEFINE y == Eval(N, f, x) * Eval(e, E, x)
  <2>1. x \in Int
    BY FieldFacts
  <2>2. y \in Int
    <3>1. Eval(N, f, x) \in Int /\ Eval(e, E, x) \in Int
      BY <1>1, <2>1, EvalType
    <3> QED BY <3>1
  <2>3. P \in Poly(M) /\ Cong(Eval(M, P, x), y) /\ Cong(Eval(M, R, x), y)
    BY <2>1, ProductEval
  <2> HIDE DEF y, P
  <2>4. /\ Eval(M, P, x) \in Field /\ Eval(M, P, x) \in Int
        /\ Eval(M, R, x) \in Field /\ Eval(M, R, x) \in Int
    BY <1>1, <2>1, <2>3, EvalType
  <2>5. Cong(y, Eval(M, R, x))
    BY <2>2, <2>3, <2>4, CongSymmetric
  <2>6. Cong(Eval(M, P, x), Eval(M, R, x))
    BY <2>2, <2>3, <2>4, <2>5, CongTransitive
  <2> QED BY <2>1, <2>4, <2>6, CongInField
<1>4. P \in Poly(M)
  <2>1. 0 \in Int
    OBVIOUS
  <2> QED BY <2>1, ProductEval
<1>5. P = R
  <2> HIDE DEF P, M
  <2>1. Cardinality(S) > M
    BY DEF M
  <2>2. R \in Poly(M)
    BY DEF M
  <2> QED BY <1>1, <1>3, <1>4, <2>1, <2>2, Agree
<1> HIDE DEF P
<1>6. ASSUME NEW c \in 0..N, \A k \in 0..N : k > c => f[k] = 0
      PROVE  f[c] = 0
  <2>1. W[0][c + e] = f[c]
    BY <1>2, <1>6, ProductDegree
  <2>2. c + e \in 0..M /\ c + e >= e
    BY <1>1
  <2>3. R[c + e] = 0
    BY <2>2
  <2> QED BY <1>2, <1>5, <2>1, <2>3
<1> DEFINE Z == {c \in 0..N : \A k \in 0..N : k >= c => f[k] = 0}
<1>7. N \in Z
  <2>1. \A k \in 0..N : ~(k > N) /\ (k >= N => k = N)
    OBVIOUS
  <2>2. N \in 0..N
    OBVIOUS
  <2> QED BY <1>6, <2>1, <2>2
<1>8. ASSUME NEW c \in 1..N, c \in Z
      PROVE  c - 1 \in Z
  <2>1. c - 1 \in 0..N /\ \A k \in 0..N : (k > c - 1 => k >= c) /\ (k >= c - 1 => k = c - 1 \/ k >= c)
    OBVIOUS
  <2>2. f[c - 1] = 0
    BY <1>6, <1>8, <2>1
  <2> QED BY <1>8, <2>1, <2>2
<1>9. \A c \in 0..N : c \in Z
  <2> HIDE DEF Z
  <2> QED BY <1>7, <1>8, DownTo
<1>10. \A k \in 0..N : f[k] = 0
  <2>1. 0 \in 0..N /\ \A k \in 0..N : k >= 0
    OBVIOUS
  <2> QED BY <1>9, <2>1
<1>11. \A k \in 0..M : R[k] = 0
  <2>1. ASSUME NEW x \in S
        PROVE  Eval(M, R, x) = 0
    <3>1. x \in Int
      BY <1>3
    <3>2. Eval(N, f, x) = 0 /\ Eval(e, E, x) \in Int /\ Eval(M, R, x) \in Field
      BY <1>1, <1>10, <3>1, EvalOfZero, EvalType
    <3>3. Eval(N, f, x) * Eval(e, E, x) = 0
      BY <3>2
    <3>4. Cong(Eval(M, R, x), 0)
      BY <3>3
    <3> QED BY <3>2, <3>4, CongInField, FieldFacts
  <2>2. Cardinality(S) > M /\ R \in Poly(M)
    OBVIOUS
  <2> HIDE DEF M
  <2> QED BY <1>1, <2>1, <2>2, Roots DEF HasFewRoots
<1> QED BY <1>10, <1>11

-----------------------------------------------------------------------------
(* BerlekampWelch.  Division by a monic polynomial.                         *)

\* Division, one term of the quotient at a time.
Partial == [quot : Poly(code.d), rem : Poly(code.d + code.e)]

OneTerm(v, s, E) ==
  [quot |-> [v.quot EXCEPT ![s] = v.rem[s + code.e]],
   rem  |-> [k \in 0..(code.d + code.e) |->
               IF k \in s..(s + code.e)
               THEN (v.rem[k] + (p - v.rem[s + code.e]) * E[k - s]) % p
               ELSE v.rem[k]]]

\* What a term of the quotient changes.
LEMMA OneTermType ==
  ASSUME code.d \in Nat, code.e \in Nat, NEW E \in Poly(code.e),
         NEW v \in Partial, NEW s \in 0..code.d
  PROVE  /\ OneTerm(v, s, E) \in Partial
         /\ v.rem[s + code.e] \in Field
         /\ \A k \in 0..code.d :
              OneTerm(v, s, E).quot[k] = IF k = s THEN v.rem[s + code.e] ELSE v.quot[k]
         /\ \A k \in 0..(code.d + code.e) :
              OneTerm(v, s, E).rem[k] = IF k \in s..(s + code.e)
                                        THEN (v.rem[k] + (p - v.rem[s + code.e]) * E[k - s]) % p
                                        ELSE v.rem[k]
<1> DEFINE M == code.d + code.e
           c == v.rem[s + code.e]
<1>1. v.quot \in Poly(code.d) /\ v.rem \in Poly(M) /\ M \in Nat /\ s + code.e \in 0..M
  BY DEF Partial
<1>2. c \in Field /\ c \in Int
  BY <1>1, Coefficients
<1> HIDE DEF c
<1>3. ASSUME NEW k \in 0..M
      PROVE  /\ v.rem[k] \in Field
             /\ k \in s..(s + code.e) => (v.rem[k] + (p - c) * E[k - s]) % p \in Field
  <2>1. v.rem[k] \in Field /\ v.rem[k] \in Int
    BY <1>1, Coefficients
  <2>2. ASSUME k \in s..(s + code.e)
        PROVE  (v.rem[k] + (p - c) * E[k - s]) % p \in Field
    <3>1. k - s \in 0..code.e
      BY <2>2
    <3>2. E[k - s] \in Int
      BY <3>1, Coefficients
    <3>3. v.rem[k] + (p - c) * E[k - s] \in Int
      BY <1>2, <2>1, <3>2, FieldFacts
    <3> QED BY <3>3, Remainder
  <2> QED BY <2>1, <2>2
<1> DEFINE quot == [v.quot EXCEPT ![s] = c]
           rem == [k \in 0..M |->
                     IF k \in s..(s + code.e) THEN (v.rem[k] + (p - c) * E[k - s]) % p
                     ELSE v.rem[k]]
<1>4. quot \in Poly(code.d) /\ \A k \in 0..code.d : quot[k] = IF k = s THEN c ELSE v.quot[k]
  BY <1>1, <1>2 DEF Poly
<1>5. rem \in Poly(M)
  BY <1>3 DEF Poly
<1>6. \A k \in 0..M : rem[k] = IF k \in s..(s + code.e)
                               THEN (v.rem[k] + (p - c) * E[k - s]) % p
                               ELSE v.rem[k]
  OBVIOUS
<1>7. OneTerm(v, s, E) = [quot |-> quot, rem |-> rem]
  BY DEF OneTerm, c
<1> HIDE DEF quot, rem
<1>8. OneTerm(v, s, E) \in Partial /\ OneTerm(v, s, E).quot = quot /\ OneTerm(v, s, E).rem = rem
  BY <1>4, <1>5, <1>7 DEF Partial
<1> QED BY <1>2, <1>4, <1>6, <1>8 DEF c

\* Division takes one term after the other.
LEMMA DivisionUnfolds ==
  ASSUME code.d \in Nat, code.e \in Nat, NEW Q \in Poly(code.d + code.e), NEW E \in Poly(code.e)
  PROVE  /\ Division(Q, E) \in [0..(code.d + 1) -> Partial]
         /\ Division(Q, E)[code.d + 1] = [quot |-> [k \in 0..code.d |-> 0], rem |-> Q]
         /\ \A s \in 1..(code.d + 1) :
              Division(Q, E)[s - 1] = OneTerm(Division(Q, E)[s], s - 1, E)
<1>0. PICK N \in Nat : N = code.d + 1
  OBVIOUS
<1> DEFINE a == [quot |-> [k \in 0..code.d |-> 0], rem |-> Q]
           G == [s \in 1..N |-> [v \in Partial |-> OneTerm(v, s - 1, E)]]
           D == Division(Q, E)
<1>1. \A s \in 1..N : s - 1 \in 0..code.d
  BY <1>0
<1>2. a \in Partial
  <2>1. [k \in 0..code.d |-> 0] \in Poly(code.d)
    BY FieldFacts DEF Poly
  <2> QED BY <2>1 DEF Partial
<1>3. StepsIn(Partial, 1..N, G) /\ \A s \in 1..N, v \in Partial : G[s][v] = OneTerm(v, s - 1, E)
  <2>1. \A s \in 1..N, v \in Partial : OneTerm(v, s - 1, E) \in Partial
    BY <1>1, OneTermType
  <2> QED BY <2>1 DEF StepsIn
<1> HIDE DEF G, a
<1>4. PICK h \in [0..N -> Partial] : h[N] = a /\ \A s \in 1..N : h[s - 1] = G[s][h[s]]
  BY <1>2, <1>3, Downward DEF GoesDown
<1>5. ASSUME NEW s \in 0..N
      PROVE  h[s] = IF s = N THEN a ELSE OneTerm(h[s + 1], s, E)
  <2>1. CASE s = N
    BY <1>4, <2>1
  <2>2. CASE s # N
    <3> DEFINE i == s + 1
    <3>1. i \in 1..N /\ i \in 0..N /\ i - 1 = s
      BY <1>1, <2>2
    <3> HIDE DEF i
    <3>2. h[s] = G[i][h[i]] /\ h[i] \in Partial
      BY <1>4, <3>1
    <3>3. h[s] = OneTerm(h[i], s, E)
      BY <1>3, <3>1, <3>2
    <3> QED BY <2>2, <3>3 DEF i
  <2> QED BY <2>1, <2>2
<1>6. h = [s \in 0..N |-> IF s = N THEN a ELSE OneTerm(h[s + 1], s, E)]
  BY <1>4, <1>5
<1>7. D = [s \in 0..N |-> IF s = N THEN a ELSE OneTerm(D[s + 1], s, E)]
  <2>1. h = [s \in 0..(code.d + 1) |->
               IF s = code.d + 1 THEN a ELSE OneTerm(h[s + 1], s, E)]
    BY <1>0, <1>6
  <2>2. D = [s \in 0..(code.d + 1) |->
               IF s = code.d + 1 THEN a ELSE OneTerm(D[s + 1], s, E)]
    BY <2>1 DEF Division, OneTerm, a
  <2> HIDE DEF D
  <2> QED BY <1>0, <2>2
<1> HIDE DEF D
<1>8. D[N] = a /\ \A s \in 1..N : D[s - 1] = OneTerm(D[s], s - 1, E)
  <2>1. N \in 0..N /\ \A s \in 1..N : s - 1 \in 0..N /\ s - 1 # N /\ (s - 1) + 1 = s
    BY <1>1
  <2> QED BY <1>7, <2>1
<1> DEFINE S == {s \in 0..N : D[s] \in Partial}
<1>9. N \in S
  BY <1>1, <1>2, <1>8
<1>10. ASSUME NEW s \in 1..N, s \in S
       PROVE  s - 1 \in S
  <2>1. s - 1 \in 0..code.d /\ s - 1 \in 0..N /\ D[s] \in Partial
    BY <1>1, <1>10
  <2> QED BY <1>8, <2>1, OneTermType
<1>11. \A s \in 0..N : s \in S
  <2> HIDE DEF S
  <2> QED BY <1>1, <1>9, <1>10, DownTo
<1>12. D \in [0..N -> Partial]
  BY <1>7, <1>11
<1> QED BY <1>0, <1>8, <1>12 DEF D, a

\* A monic polynomial times a power of the variable.
Power(r) == [k \in 0..code.d |-> IF k = r THEN 1 ELSE 0]
Times(E, r) ==
  [k \in 0..(code.d + code.e) |-> IF k \in r..(r + code.e) THEN E[k - r] ELSE 0]

\* It is the product of the two, at every argument.
LEMMA TimesPower ==
  ASSUME code.d \in Nat, code.e \in Nat, NEW E \in Poly(code.e), NEW x \in Int
  PROVE  \A r \in 0..code.d :
           /\ Power(r) \in Poly(code.d)
           /\ \A k \in 0..code.d : Power(r)[k] = IF k = r THEN 1 ELSE 0
           /\ Times(E, r) \in Poly(code.d + code.e)
           /\ \A k \in 0..(code.d + code.e) :
                Times(E, r)[k] = IF k \in r..(r + code.e) THEN E[k - r] ELSE 0
           /\ Cong(Eval(code.d + code.e, Times(E, r), x),
                   Eval(code.d, Power(r), x) * Eval(code.e, E, x))
<1> DEFINE N == code.d
           e == code.e
           M == N + e
           y == Eval(e, E, x)
<1>1. N \in Nat /\ e \in Nat /\ M \in Nat /\ e <= M /\ M \in 0..M /\ 0 \in 0..M /\ 0 <= N
  OBVIOUS
<1>2. \A k \in 0..e : E[k] \in Field
  BY <1>1, Coefficients
<1>3. ASSUME NEW r \in 0..N
      PROVE  /\ Power(r) \in Poly(N)
             /\ \A k \in 0..N : Power(r)[k] = IF k = r THEN 1 ELSE 0
             /\ Times(E, r) \in Poly(M)
             /\ \A k \in 0..M : Times(E, r)[k] = IF k \in r..(r + e) THEN E[k - r] ELSE 0
  <2>1. \A k \in 0..M : k \in r..(r + e) => k - r \in 0..e
    BY <1>1
  <2> QED BY <1>2, <2>1, FieldFacts DEF Power, Times, Poly
<1>4. y \in Int
  BY <1>1, EvalType
<1> HIDE DEF N, e, M, y
<1> DEFINE S == {r \in 0..N : Cong(Eval(M, Times(E, r), x), Eval(N, Power(r), x) * y)}
<1>5. 0 \in S
  <2> DEFINE one == [k \in 0..0 |-> 1]
  <2>1. 0 \in 0..N /\ one \in Poly(0) /\ one[0] = 1 /\ \A k \in 0..0 : one[k] = 1
    BY <1>1, FieldFacts DEF Poly
  <2> HIDE DEF one
  <2>2. Eval(0, one, x) = 1
    BY <2>1, HornerUnfolds DEF Eval
  <2>3. \A k \in 0..N : Power(0)[k] = IF k <= 0 THEN one[k] ELSE 0
    BY <1>3, <2>1
  <2>4. Eval(N, Power(0), x) = 1
    BY <1>1, <1>3, <2>1, <2>2, <2>3, Padded
  <2>5. \A k \in 0..M : Times(E, 0)[k] = IF k <= e THEN E[k] ELSE 0
    <3>1. \A k \in 0..M : (k \in 0..(0 + e) <=> k <= e) /\ k - 0 = k
      BY <1>1
    <3> QED BY <1>3, <2>1, <3>1
  <2>6. Eval(M, Times(E, 0), x) = y
    <3>1. E \in Poly(e) /\ Times(E, 0) \in Poly(M) /\ e \in Nat /\ M \in Nat /\ e <= M
      BY <1>1, <1>3, <2>1 DEF e
    <3>2. Eval(M, Times(E, 0), x) = Eval(e, E, x)
      BY <2>5, <3>1, Padded
    <3> QED BY <3>2 DEF y
  <2>7. 1 * y = y /\ Cong(y, y)
    BY <1>4, CongReflexive
  <2> QED BY <2>1, <2>4, <2>6, <2>7
<1>6. ASSUME NEW r \in 0..(N - 1), r \in S
      PROVE  r + 1 \in S
  <2> DEFINE u == Eval(M, Times(E, r), x)
             v == Eval(N, Power(r), x)
             w == Eval(M, Times(E, r + 1), x)
             z == Eval(N, Power(r + 1), x)
  <2>1. r \in 0..N /\ r + 1 \in 0..N /\ N \in 0..N /\ r # N
    BY <1>1
  <2>2. /\ Power(r) \in Poly(N) /\ Power(r + 1) \in Poly(N)
        /\ Times(E, r) \in Poly(M) /\ Times(E, r + 1) \in Poly(M)
    BY <1>3, <2>1
  <2>3. u \in Int /\ v \in Int /\ w \in Int /\ z \in Int
    BY <1>1, <2>2, EvalType
  <2>4. Cong(z, v * x)
    <3>1. \A k \in 1..N : k - 1 \in 0..N /\ k \in 0..N /\ (k = r + 1 <=> k - 1 = r)
      BY <2>1
    <3>2. Power(r)[N] = 0 /\ Power(r + 1)[0] = 0
      BY <1>1, <1>3, <2>1
    <3>3. \A k \in 1..N : Power(r + 1)[k] = Power(r)[k - 1]
      BY <1>3, <2>1, <3>1
    <3> QED BY <1>1, <2>2, <3>2, <3>3, Shifted
  <2>5. Cong(w, u * x)
    <3>1. ASSUME NEW k \in 1..M
          PROVE  Times(E, r + 1)[k] = Times(E, r)[k - 1]
      <4>1. /\ k - 1 \in 0..M /\ k \in 0..M /\ k - (r + 1) = (k - 1) - r
            /\ k \in (r + 1)..((r + 1) + e) <=> k - 1 \in r..(r + e)
        BY <1>1, <2>1
      <4>2. Times(E, r + 1)[k] = IF k \in (r + 1)..((r + 1) + e) THEN E[k - (r + 1)] ELSE 0
        BY <1>3, <2>1, <4>1
      <4>3. Times(E, r)[k - 1] = IF k - 1 \in r..(r + e) THEN E[(k - 1) - r] ELSE 0
        BY <1>3, <2>1, <4>1
      <4> QED BY <4>1, <4>2, <4>3
    <3>2. M \notin r..(r + e) /\ 0 \notin (r + 1)..((r + 1) + e)
      BY <1>1, <2>1 DEF M
    <3>3. Times(E, r)[M] = 0 /\ Times(E, r + 1)[0] = 0
      BY <1>1, <1>3, <2>1, <3>2
    <3> QED BY <1>1, <2>2, <3>1, <3>3, Shifted
  <2>6. Cong(u, v * y)
    BY <1>6
  <2> HIDE DEF u, v, w, z
  <2> DEFINE a == v * y
             b == v * x
  <2>7. /\ a \in Int /\ b \in Int /\ a * x = b * y /\ Cong(u, a) /\ Cong(z, b)
        /\ u * x \in Int /\ a * x \in Int /\ z * y \in Int
    BY <1>4, <2>3, <2>4, <2>6
  <2> HIDE DEF a, b
  <2>8. Cong(u * x, a * x) /\ Cong(z * y, b * y)
    BY <1>4, <2>3, <2>7, CongReflexive, CongTimes
  <2>9. Cong(w, a * x) /\ Cong(a * x, z * y)
    BY <2>3, <2>5, <2>7, <2>8, CongTransitive, CongSymmetric
  <2>10. Cong(w, z * y)
    BY <2>3, <2>7, <2>9, CongTransitive
  <2> QED BY <2>1, <2>10 DEF w, z
<1>7. \A r \in 0..N : r \in S
  <2> HIDE DEF S
  <2> QED BY <1>1, <1>5, <1>6, UpTo
<1>8. \A r \in 0..N : Cong(Eval(M, Times(E, r), x), Eval(N, Power(r), x) * y)
  BY <1>7
<1> QED BY <1>3, <1>8 DEF N, e, M, y

\* The code subtracts by adding the opposite.
LEMMA Opposite ==
  ASSUME NEW a \in Int
  PROVE  p - a \in Int /\ Cong(p - a, -a)
<1>1. (p - a) - (-a) = p * 1 /\ p - a \in Int
  BY FieldFacts
<1> QED BY <1>1 DEF Cong

\* What one term does to the values of the quotient and of the remainder.
LEMMA OneTermValues ==
  ASSUME code.d \in Nat, code.e \in Nat, NEW E \in Poly(code.e), NEW v \in Partial,
         NEW r \in 0..code.d, v.quot[r] = 0, NEW x \in Int
  PROVE  LET next == OneTerm(v, r, E)
             y == Eval(code.e, E, x)
         IN  Cong(Eval(code.d, v.quot, x) * y + Eval(code.d + code.e, v.rem, x),
                  Eval(code.d, next.quot, x) * y + Eval(code.d + code.e, next.rem, x))
<1> DEFINE N == code.d
           e == code.e
           M == N + e
           next == OneTerm(v, r, E)
           c == v.rem[r + e]
           y == Eval(e, E, x)
           A == Eval(N, v.quot, x)
           B == Eval(M, v.rem, x)
           F == Eval(N, next.quot, x)
           H == Eval(M, next.rem, x)
           w == Eval(N, Power(r), x)
           z == Eval(M, Times(E, r), x)
<1>1. N \in Nat /\ e \in Nat /\ M \in Nat /\ E \in Poly(e)
  OBVIOUS
<1>2. /\ next \in Partial /\ c \in Field
      /\ \A k \in 0..N : next.quot[k] = IF k = r THEN c ELSE v.quot[k]
      /\ \A k \in 0..M : next.rem[k] = IF k \in r..(r + e)
                                       THEN (v.rem[k] + (p - c) * E[k - r]) % p
                                       ELSE v.rem[k]
  BY OneTermType
<1>3. /\ Power(r) \in Poly(N) /\ Times(E, r) \in Poly(M)
      /\ \A k \in 0..N : Power(r)[k] = IF k = r THEN 1 ELSE 0
      /\ \A k \in 0..M : Times(E, r)[k] = IF k \in r..(r + e) THEN E[k - r] ELSE 0
      /\ Cong(z, w * y)
  BY TimesPower
<1> HIDE DEF next, c
<1>4. v.quot \in Poly(N) /\ v.rem \in Poly(M) /\ next.quot \in Poly(N) /\ next.rem \in Poly(M)
  BY <1>2 DEF Partial
<1>5. c \in Int /\ -c \in Int
  BY <1>2, FieldFacts
<1>6. y \in Int /\ A \in Int /\ B \in Int /\ F \in Int /\ H \in Int /\ w \in Int /\ z \in Int
  BY <1>1, <1>3, <1>4, EvalType
<1> HIDE DEF N, e, M
<1>7. ASSUME NEW k \in 0..N
      PROVE  Cong(next.quot[k], v.quot[k] + c * Power(r)[k])
  <2>1. v.quot[k] \in Int /\ next.quot[k] \in Int
    BY <1>1, <1>4, Coefficients
  <2>2. next.quot[k] = v.quot[k] + c * Power(r)[k]
    BY <1>2, <1>3, <1>5, <2>1
  <2> QED BY <2>1, <2>2, CongReflexive
<1>8. ASSUME NEW k \in 0..M
      PROVE  Cong(next.rem[k], v.rem[k] + (-c) * Times(E, r)[k])
  <2>1. v.rem[k] \in Int /\ next.rem[k] \in Int
    BY <1>1, <1>4, Coefficients
  <2>2. CASE k \in r..(r + e)
    <3> DEFINE u == E[k - r]
    <3>1. u \in Int
      <4>1. k - r \in 0..e
        BY <1>1, <2>2
      <4> QED BY <1>1, <4>1, Coefficients
    <3>2. Times(E, r)[k] = u /\ next.rem[k] = (v.rem[k] + (p - c) * u) % p
      BY <1>2, <1>3, <2>2
    <3> HIDE DEF u
    <3> DEFINE a == p - c
               b == -c
    <3>3. a \in Int /\ b \in Int /\ Cong(a, b)
      BY <1>5, Opposite
    <3>4. next.rem[k] = (v.rem[k] + a * u) % p
      BY <3>2
    <3> HIDE DEF a, b
    <3>5. a * u \in Int /\ b * u \in Int /\ v.rem[k] + a * u \in Int /\ v.rem[k] + b * u \in Int
      BY <2>1, <3>1, <3>3
    <3>6. Cong(a * u, b * u) /\ Cong(v.rem[k], v.rem[k])
      BY <2>1, <3>1, <3>3, CongReflexive, CongTimes
    <3>7. Cong(v.rem[k] + a * u, v.rem[k] + b * u)
      BY <2>1, <3>5, <3>6, CongPlus
    <3>8. Cong(next.rem[k], v.rem[k] + a * u)
      BY <3>4, <3>5, Remainder
    <3>9. Cong(next.rem[k], v.rem[k] + b * u)
      BY <2>1, <3>5, <3>7, <3>8, CongTransitive
    <3> QED BY <3>2, <3>9 DEF b
  <2>3. CASE k \notin r..(r + e)
    <3>1. next.rem[k] = v.rem[k] /\ Times(E, r)[k] = 0
      BY <1>2, <1>3, <2>3
    <3>2. v.rem[k] + (-c) * Times(E, r)[k] = v.rem[k]
      BY <1>5, <2>1, <3>1
    <3> QED BY <2>1, <3>1, <3>2, CongReflexive
  <2> QED BY <2>2, <2>3
<1>9. Cong(F, A + c * w)
  BY <1>1, <1>3, <1>4, <1>5, <1>7, Combination
<1>10. Cong(H, B + (-c) * z)
  BY <1>1, <1>3, <1>4, <1>5, <1>8, Combination
<1> HIDE DEF y, A, B, F, H, w, z
<1> DEFINE b == -c
           u == A + c * w
           s == B + b * z
           wy == w * y
           g == B + b * wy
<1>11. /\ u \in Int /\ s \in Int /\ b \in Int /\ b * z \in Int /\ wy \in Int /\ g \in Int
       /\ b * wy \in Int /\ u * y \in Int /\ F * y \in Int /\ A * y \in Int
       /\ u * y + g = A * y + B
  BY <1>5, <1>6
<1>12. Cong(F, u) /\ Cong(H, s) /\ Cong(z, wy) /\ s = B + b * z /\ g = B + b * wy
  BY <1>3, <1>9, <1>10
<1> HIDE DEF u, s, b, wy, g
<1>13. Cong(b * z, b * wy) /\ Cong(F * y, u * y) /\ Cong(B, B)
  BY <1>6, <1>11, <1>12, CongReflexive, CongTimes
<1>14. Cong(s, g)
  BY <1>6, <1>11, <1>12, <1>13, CongPlus
<1>15. Cong(H, g)
  BY <1>6, <1>11, <1>12, <1>14, CongTransitive
<1>16. Cong(F * y + H, u * y + g)
  BY <1>6, <1>11, <1>13, <1>15, CongPlus
<1>17. Cong(A * y + B, F * y + H)
  BY <1>6, <1>11, <1>16, CongSymmetric
<1> QED BY <1>17 DEF A, B, F, H, y, next, N, M, e

\* Division: quotient times divisor and remainder make the dividend, and the
\* remainder ends below the e-th coefficient.
LEMMA DivisionExact ==
  ASSUME code.d \in Nat, code.e \in Nat, NEW Q \in Poly(code.d + code.e),
         NEW E \in Poly(code.e), E[code.e] = 1
  PROVE  /\ Divide(Q, E) \in Partial
         /\ \A k \in 0..(code.d + code.e) : k >= code.e => Divide(Q, E).rem[k] = 0
         /\ \A x \in Int :
              Cong(Eval(code.d + code.e, Q, x),
                   Eval(code.d, Divide(Q, E).quot, x) * Eval(code.e, E, x)
                     + Eval(code.d + code.e, Divide(Q, E).rem, x))
<1>0. PICK N \in Nat : N = code.d + 1
  OBVIOUS
<1> DEFINE e == code.e
           M == code.d + e
           D == Division(Q, E)
           zero == [k \in 0..code.d |-> 0]
           SoFar(v, x) == Eval(code.d, v.quot, x) * Eval(e, E, x) + Eval(M, v.rem, x)
           Low(s) == \A k \in 0..code.d : k < s => D[s].quot[k] = 0
           High(s) == \A k \in 0..M : k >= s + e => D[s].rem[k] = 0
           Same(s) == \A x \in Int : Cong(Eval(M, Q, x), SoFar(D[s], x))
           S == {s \in 0..N : Low(s) /\ High(s) /\ Same(s)}
<1>1. /\ D \in [0..N -> Partial] /\ D[N] = [quot |-> zero, rem |-> Q]
      /\ \A s \in 1..N : D[s - 1] = OneTerm(D[s], s - 1, E)
  BY <1>0, DivisionUnfolds
<1> HIDE DEF D
<1>2. e \in Nat /\ M \in Nat /\ Q \in Poly(M) /\ E \in Poly(e) /\ N \in 0..N
  OBVIOUS
<1>3. ASSUME NEW s \in 0..N, NEW x \in Int
      PROVE  SoFar(D[s], x) \in Int /\ Eval(M, Q, x) \in Int
  <2>1. D[s].quot \in Poly(code.d) /\ D[s].rem \in Poly(M)
    BY <1>1 DEF Partial
  <2>2. Eval(code.d, D[s].quot, x) \in Int /\ Eval(e, E, x) \in Int /\ Eval(M, D[s].rem, x) \in Int
        /\ Eval(M, Q, x) \in Int
    BY <1>2, <2>1, EvalType
  <2> QED BY <2>2
<1>4. N \in S
  <2>1. D[N].quot = zero /\ D[N].rem = Q
    BY <1>1
  <2>2. zero \in Poly(code.d) /\ \A k \in 0..code.d : zero[k] = 0
    BY FieldFacts DEF Poly
  <2>3. Low(N)
    BY <2>1
  <2>4. High(N)
    BY <1>0, <1>2
  <2>5. ASSUME NEW x \in Int
        PROVE  Cong(Eval(M, Q, x), SoFar(D[N], x))
    <3>1. Eval(code.d, zero, x) = 0 /\ Eval(e, E, x) \in Int /\ Eval(M, Q, x) \in Int
      BY <1>2, <2>2, EvalOfZero, EvalType
    <3>2. 0 * Eval(e, E, x) + Eval(M, Q, x) = Eval(M, Q, x)
      BY <3>1
    <3>3. SoFar(D[N], x) = Eval(M, Q, x)
      BY <2>1, <3>1, <3>2
    <3> QED BY <3>1, <3>3, CongReflexive
  <2> HIDE DEF Low, High
  <2> QED BY <1>2, <2>3, <2>4, <2>5
<1>5. ASSUME NEW s \in 1..N, s \in S
      PROVE  s - 1 \in S
  <2>0. PICK r \in 0..code.d : r = s - 1
    BY <1>0
  <2> DEFINE c == D[s].rem[r + e]
  <2>1. s \in 0..N /\ r \in 0..N /\ r < s /\ s = r + 1 /\ r + e \in 0..M
    BY <1>0, <1>2, <2>0
  <2>2. D[r] = OneTerm(D[s], r, E) /\ D[s] \in Partial
    BY <1>1, <2>0, <2>1
  <2>3. /\ c \in Field
        /\ \A k \in 0..code.d : D[r].quot[k] = IF k = r THEN c ELSE D[s].quot[k]
        /\ \A k \in 0..M : D[r].rem[k] = IF k \in r..(r + e)
                                         THEN (D[s].rem[k] + (p - c) * E[k - r]) % p
                                         ELSE D[s].rem[k]
    BY <2>2, OneTermType
  <2>4. Low(s) /\ High(s) /\ Same(s)
    BY <1>5
  <2>5. Low(r)
    BY <2>1, <2>3, <2>4
  <2>6. High(r)
    <3> SUFFICES ASSUME NEW k \in 0..M, k >= r + e
                 PROVE  D[r].rem[k] = 0
      OBVIOUS
    <3>1. CASE k = r + e
      <4>1. k \in r..(r + e) /\ k - r = e /\ c \in Int /\ D[s].rem[k] = c
        BY <1>2, <2>1, <2>3, <3>1, FieldFacts
      <4>2. D[r].rem[k] = (c + (p - c) * 1) % p
        BY <2>3, <4>1
      <4>3. c + (p - c) * 1 = p /\ p % p = 0
        BY <4>1, FieldFacts
      <4> QED BY <4>2, <4>3
    <3>2. CASE k # r + e
      <4>1. k \notin r..(r + e) /\ k >= s + e
        BY <1>2, <2>1, <3>2
      <4> QED BY <2>3, <2>4, <4>1
    <3> QED BY <3>1, <3>2
  <2>7. Same(r)
    <3> SUFFICES ASSUME NEW x \in Int PROVE Cong(Eval(M, Q, x), SoFar(D[r], x))
      OBVIOUS
    <3>1. D[s].quot[r] = 0
      BY <2>1, <2>4
    <3>2. Cong(SoFar(D[s], x), SoFar(D[r], x))
      BY <2>2, <3>1, OneTermValues
    <3>3. Cong(Eval(M, Q, x), SoFar(D[s], x))
      BY <2>4
    <3>4. SoFar(D[s], x) \in Int /\ SoFar(D[r], x) \in Int /\ Eval(M, Q, x) \in Int
      BY <1>3, <2>1
    <3> HIDE DEF SoFar
    <3> QED BY <3>2, <3>3, <3>4, CongTransitive
  <2> HIDE DEF Low, High, Same
  <2> QED BY <2>0, <2>1, <2>5, <2>6, <2>7
<1>6. 0 \in S
  <2> HIDE DEF S
  <2>1. \A s \in 0..N : s \in S
    BY <1>4, <1>5, DownTo
  <2> QED BY <2>1
<1>7. D[0] \in Partial /\ High(0) /\ Same(0)
  <2>1. 0 \in 0..N
    OBVIOUS
  <2> QED BY <1>1, <1>6, <2>1
<1>8. \A k \in 0..M : k >= e => D[0].rem[k] = 0
  <2>1. 0 + e = e
    BY <1>2
  <2> QED BY <1>7, <2>1
<1> QED BY <1>7, <1>8 DEF Divide, D

-----------------------------------------------------------------------------
(* BerlekampWelch.  The linear system.                                     *)

Rows == Poly(Unknowns)
Assignments == [0..(Unknowns - 1) -> Field]

\* upto adds the terms of a row, one unknown at a time.
Adds(upto, row, z) ==
  /\ upto \in [0..Unknowns -> Field]
  /\ upto[0] = 0
  /\ \A k \in 1..Unknowns : /\ row[k - 1] \in Int /\ z[k - 1] \in Int
                            /\ upto[k] \in Int /\ upto[k - 1] \in Int
                            /\ Cong(upto[k], upto[k - 1] + row[k - 1] * z[k - 1])

\* The numerator has d + e + 1 coefficients and the locator e below the highest.
LEMMA UnknownsType ==
  ASSUME code.d \in Nat, code.e \in Nat
  PROVE  /\ Unknowns \in Nat /\ Unknowns > 0 /\ Unknowns \in 0..Unknowns
         /\ Unknowns = (code.d + code.e) + 1 + code.e
         /\ \A k \in 1..Unknowns : k - 1 \in 0..(Unknowns - 1) /\ k - 1 \in 0..Unknowns
         /\ \A k \in 0..(Unknowns - 1) : k + 1 \in 1..Unknowns /\ k \in 0..Unknowns
BY DEF Unknowns

\* A row's left-hand side is such a sum.
LEMMA DotUnfolds ==
  ASSUME code.d \in Nat, code.e \in Nat, NEW row \in Rows, NEW z \in Assignments
  PROVE  \E upto : Adds(upto, row, z) /\ Dot(row, z) = upto[Unknowns]
<1>0. PICK N \in Nat : N = Unknowns
  BY UnknownsType
<1> DEFINE G == [k \in 1..N |-> [v \in Field |-> (v + row[k - 1] * z[k - 1]) % p]]
<1>1. ASSUME NEW k \in 1..N
      PROVE  row[k - 1] \in Int /\ z[k - 1] \in Int
  <2>1. k - 1 \in 0..N /\ k - 1 \in 0..(Unknowns - 1)
    BY <1>0
  <2>2. row[k - 1] \in Field /\ z[k - 1] \in Field
    BY <1>0, <2>1 DEF Rows, Assignments, Poly
  <2> QED BY <2>2, FieldFacts
<1>2. ASSUME NEW k \in 1..N, NEW v \in Field
      PROVE  v + row[k - 1] * z[k - 1] \in Int /\ (v + row[k - 1] * z[k - 1]) % p \in Field
  <2>1. v + row[k - 1] * z[k - 1] \in Int
    BY <1>1, FieldFacts
  <2> QED BY <2>1, Remainder
<1>3. StepsIn(Field, 1..N, G) /\ \A k \in 1..N, v \in Field : G[k][v] = (v + row[k - 1] * z[k - 1]) % p
  BY <1>2 DEF StepsIn
<1> HIDE DEF G
<1>4. PICK h \in [0..N -> Field] : h[0] = 0 /\ \A k \in 1..N : h[k] = G[k][h[k - 1]]
  <2>1. PICK a \in Field : a = 0
    BY FieldFacts
  <2>2. PICK h : GoesUp(h, N, Field, a, G)
    BY <1>3, Upward
  <2> QED BY <2>1, <2>2 DEF GoesUp
<1>5. ASSUME NEW k \in 0..N
      PROVE  h[k] = IF k = 0 THEN 0 ELSE (h[k - 1] + row[k - 1] * z[k - 1]) % p
  <2>1. k # 0 => k \in 1..N /\ k - 1 \in 0..N
    OBVIOUS
  <2> QED BY <1>3, <1>4, <2>1
<1>6. h = [k \in 0..N |-> IF k = 0 THEN 0 ELSE (h[k - 1] + row[k - 1] * z[k - 1]) % p]
  BY <1>4, <1>5
<1>7. PICK upto : /\ upto = [k \in 0..N |->
                       IF k = 0 THEN 0 ELSE (upto[k - 1] + row[k - 1] * z[k - 1]) % p]
                  /\ Dot(row, z) = upto[N]
  BY <1>0, <1>6 DEF Dot
<1>8. upto[0] = 0 /\ \A k \in 1..N : upto[k] = (upto[k - 1] + row[k - 1] * z[k - 1]) % p
  <2>1. 0 \in 0..N /\ \A k \in 1..N : k \in 0..N /\ k # 0
    OBVIOUS
  <2> QED BY <1>7, <2>1
<1> DEFINE S == {k \in 0..N : upto[k] \in Field}
<1>9. \A k \in 0..N : k \in S
  <2>1. 0 \in S
    BY <1>8, FieldFacts
  <2>2. ASSUME NEW k \in 0..(N - 1), k \in S
        PROVE  k + 1 \in S
    <3>1. k + 1 \in 1..N /\ k + 1 \in 0..N /\ (k + 1) - 1 = k /\ upto[k] \in Field
      BY <2>2
    <3> DEFINE i == k + 1
    <3>2. i \in 1..N /\ upto[i - 1] \in Field
      BY <3>1
    <3> HIDE DEF i
    <3>3. upto[i] \in Field
      BY <1>2, <1>8, <3>2
    <3> QED BY <3>1, <3>3 DEF i
  <2> HIDE DEF S
  <2> QED BY <2>1, <2>2, UpTo
<1>10. upto \in [0..N -> Field]
  BY <1>7, <1>9
<1>11. ASSUME NEW k \in 1..N
       PROVE  /\ upto[k] \in Int /\ upto[k - 1] \in Int
              /\ Cong(upto[k], upto[k - 1] + row[k - 1] * z[k - 1])
  <2>1. k - 1 \in 0..N /\ k \in 0..N
    OBVIOUS
  <2>2. upto[k - 1] \in Field /\ upto[k] \in Field
    BY <1>10, <2>1
  <2>3. upto[k - 1] + row[k - 1] * z[k - 1] \in Int
    BY <1>2, <2>2
  <2> QED BY <1>8, <2>2, <2>3, Remainder, FieldFacts
<1>12. Adds(upto, row, z)
  BY <1>0, <1>1, <1>8, <1>10, <1>11 DEF Adds
<1> QED BY <1>0, <1>7, <1>12

\* And a number of the field.
LEMMA DotType ==
  ASSUME code.d \in Nat, code.e \in Nat, NEW row \in Rows, NEW z \in Assignments
  PROVE  Dot(row, z) \in Field /\ Dot(row, z) \in Int
<1>1. PICK upto : Adds(upto, row, z) /\ Dot(row, z) = upto[Unknowns]
  BY DotUnfolds
<1> QED BY <1>1, UnknownsType, FieldFacts DEF Adds

\* A combination of two rows has the combination of their left-hand sides.
LEMMA DotLinear ==
  ASSUME code.d \in Nat, code.e \in Nat, NEW a \in Rows, NEW b \in Rows, NEW w \in Rows,
         NEW z \in Assignments, NEW u \in Int, NEW c \in Int,
         \A k \in 0..(Unknowns - 1) : Cong(w[k], u * a[k] + c * b[k])
  PROVE  Cong(Dot(w, z), u * Dot(a, z) + c * Dot(b, z))
<1>0. PICK N \in Nat : N = Unknowns
  BY UnknownsType
<1>1. PICK A : Adds(A, a, z) /\ Dot(a, z) = A[N]
  BY <1>0, DotUnfolds
<1>2. PICK B : Adds(B, b, z) /\ Dot(b, z) = B[N]
  BY <1>0, DotUnfolds
<1>3. PICK W : Adds(W, w, z) /\ Dot(w, z) = W[N]
  BY <1>0, DotUnfolds
<1> DEFINE S == {k \in 0..N : Cong(W[k], u * A[k] + c * B[k])}
<1>4. 0 \in S
  <2>1. W[0] = 0 /\ A[0] = 0 /\ B[0] = 0 /\ u * 0 + c * 0 = 0 /\ 0 \in 0..N
    BY <1>1, <1>2, <1>3 DEF Adds
  <2> QED BY <2>1, CongReflexive
<1>5. ASSUME NEW i \in 0..(N - 1), i \in S
      PROVE  i + 1 \in S
  <2>0. PICK k \in 1..N : k = i + 1
    OBVIOUS
  <2>1. /\ A[k] \in Int /\ A[k - 1] \in Int /\ a[k - 1] \in Int /\ z[k - 1] \in Int
        /\ Cong(A[k], A[k - 1] + a[k - 1] * z[k - 1])
    BY <1>0, <1>1 DEF Adds
  <2>2. /\ B[k] \in Int /\ B[k - 1] \in Int /\ b[k - 1] \in Int
        /\ Cong(B[k], B[k - 1] + b[k - 1] * z[k - 1])
    BY <1>0, <1>2 DEF Adds
  <2>3. /\ W[k] \in Int /\ W[k - 1] \in Int /\ w[k - 1] \in Int
        /\ Cong(W[k], W[k - 1] + w[k - 1] * z[k - 1])
    BY <1>0, <1>3 DEF Adds
  <2>4. Cong(w[k - 1], u * a[k - 1] + c * b[k - 1])
    BY <1>0, UnknownsType
  <2>5. Cong(W[k - 1], u * A[k - 1] + c * B[k - 1])
    <3>1. k - 1 = i
      BY <2>0
    <3> QED BY <1>5, <3>1
  <2> DEFINE y == z[k - 1]
             v == u * a[k - 1] + c * b[k - 1]
             s == u * A[k - 1] + c * B[k - 1]
             g == A[k - 1] + a[k - 1] * y
             h == B[k - 1] + b[k - 1] * y
  <2>6. /\ y \in Int /\ v \in Int /\ s \in Int /\ g \in Int /\ h \in Int
        /\ s + v * y = u * g + c * h
        /\ Cong(A[k], g) /\ Cong(B[k], h) /\ Cong(W[k], W[k - 1] + w[k - 1] * y)
        /\ Cong(w[k - 1], v) /\ Cong(W[k - 1], s)
    BY <2>1, <2>2, <2>3, <2>4, <2>5
  <2> HIDE DEF y, v, s, g, h
  <2>7. Cong(w[k - 1] * y, v * y) /\ Cong(u * A[k], u * g) /\ Cong(c * B[k], c * h)
    BY <2>1, <2>2, <2>3, <2>6, CongReflexive, CongTimes
  <2>8. /\ w[k - 1] * y \in Int /\ v * y \in Int /\ u * A[k] \in Int /\ u * g \in Int
        /\ c * B[k] \in Int /\ c * h \in Int
    BY <2>1, <2>2, <2>3, <2>6
  <2>9. Cong(W[k - 1] + w[k - 1] * y, s + v * y) /\ Cong(u * A[k] + c * B[k], u * g + c * h)
    BY <2>3, <2>6, <2>7, <2>8, CongPlus
  <2>10. Cong(W[k], s + v * y) /\ Cong(u * g + c * h, u * A[k] + c * B[k])
    BY <2>3, <2>6, <2>8, <2>9, CongTransitive, CongSymmetric
  <2>11. Cong(W[k], u * A[k] + c * B[k])
    BY <2>3, <2>6, <2>8, <2>10, CongTransitive
  <2> QED BY <2>0, <2>11
<1>6. N \in S
  <2> HIDE DEF S
  <2>1. \A k \in 0..N : k \in S
    BY <1>4, <1>5, UpTo
  <2> QED BY <2>1
<1> QED BY <1>1, <1>2, <1>3, <1>6

\* A left-hand side with at most one term that is not 0.
LEMMA DotSparse ==
  ASSUME code.d \in Nat, code.e \in Nat, NEW row \in Rows, NEW z \in Assignments,
         NEW J, \A k \in 0..(Unknowns - 1) : k # J => row[k] = 0 \/ z[k] = 0
  PROVE  /\ J \notin 0..(Unknowns - 1) => Dot(row, z) = 0
         /\ J \in 0..(Unknowns - 1) => Cong(Dot(row, z), row[J] * z[J])
<1>0. PICK N \in Nat : N = Unknowns
  BY UnknownsType
<1>1. PICK A : Adds(A, row, z) /\ Dot(row, z) = A[N]
  BY <1>0, DotUnfolds
<1> DEFINE last(k) == IF J \in 0..(k - 1) THEN row[J] * z[J] ELSE 0
           S == {k \in 0..N : last(k) \in Int /\ Cong(A[k], last(k))}
<1>2. 0 \in S
  <2>1. A[0] = 0 /\ J \notin 0..(0 - 1)
    BY <1>1 DEF Adds
  <2> QED BY <2>1, CongReflexive
<1>3. ASSUME NEW i \in 0..(N - 1), i \in S
      PROVE  i + 1 \in S
  <2>0. PICK k \in 1..N : k = i + 1
    OBVIOUS
  <2>1. /\ A[k] \in Int /\ A[i] \in Int /\ row[i] \in Int /\ z[i] \in Int
        /\ Cong(A[k], A[i] + row[i] * z[i])
    <3>1. k - 1 = i
      BY <2>0
    <3>2. /\ A[k] \in Int /\ A[k - 1] \in Int /\ row[k - 1] \in Int /\ z[k - 1] \in Int
          /\ Cong(A[k], A[k - 1] + row[k - 1] * z[k - 1])
      BY <1>0, <1>1 DEF Adds
    <3> QED BY <3>1, <3>2
  <2> DEFINE term == row[i] * z[i]
  <2>2. /\ term \in Int /\ Cong(A[k], A[i] + term)
        /\ last(k) = last(i) + term /\ last(k) \in Int /\ last(i) \in Int
    <3>1. term \in Int /\ last(i) \in Int /\ Cong(A[k], A[i] + term)
      BY <1>3, <2>1
    <3>2. CASE J = i
      <4>1. J \in 0..(k - 1) /\ J \notin 0..(i - 1)
        BY <2>0, <3>2
      <4> QED BY <2>1, <3>1, <3>2, <4>1
    <3>3. CASE J # i
      <4>1. i \in 0..(Unknowns - 1) /\ (J \in 0..(k - 1) <=> J \in 0..(i - 1))
        BY <1>0, <2>0, <3>3
      <4>2. term = 0
        BY <2>1, <3>3, <4>1
      <4>3. last(k) = last(i)
        BY <4>1
      <4> QED BY <3>1, <4>2, <4>3
    <3> QED BY <3>2, <3>3
  <2>3. Cong(A[i], last(i))
    BY <1>3
  <2> HIDE DEF term, last
  <2>4. Cong(A[i] + term, last(i) + term)
    BY <2>1, <2>2, <2>3, CongReflexive, CongPlus
  <2>5. Cong(A[k], last(k))
    BY <2>1, <2>2, <2>4, CongTransitive
  <2> QED BY <2>0, <2>2, <2>5
<1>4. N \in S
  <2> HIDE DEF S
  <2>1. \A k \in 0..N : k \in S
    BY <1>2, <1>3, UpTo
  <2> QED BY <2>1
<1>5. ASSUME J \notin 0..(Unknowns - 1)
      PROVE  Dot(row, z) = 0
  <2>1. Cong(Dot(row, z), 0) /\ Dot(row, z) \in Field
    BY <1>0, <1>1, <1>4, <1>5, DotType
  <2> QED BY <2>1, CongInField, FieldFacts
<1>6. ASSUME J \in 0..(Unknowns - 1)
      PROVE  Cong(Dot(row, z), row[J] * z[J])
  BY <1>0, <1>1, <1>4, <1>6
<1> QED BY <1>5, <1>6

\* A code has a different element of the field for each of its points.
LEMMA CodeFacts ==
  ASSUME code \in Codes
  PROVE  /\ code.m \in Nat /\ code.m > 0 /\ code.d \in Nat /\ code.e \in Nat
         /\ IsFiniteSet(Points) /\ Cardinality(Points) = code.m
         /\ \A x \in Points : x \in Int /\ 1 <= x /\ x <= code.m
         /\ \A x \in Points : code.at[x] \in Field /\ code.at[x] \in Int
         /\ \A x, y \in Points : code.at[x] = code.at[y] => x = y
         /\ \A x \in 1..code.m : x \in Points
<1>1. /\ code.m \in Nat /\ code.m > 0 /\ code.d \in Nat /\ code.e \in Nat
      /\ code.at \in [1..code.m -> Field]
      /\ \A x, y \in 1..code.m : code.at[x] = code.at[y] => x = y
  BY CodeAssumption
<1>2. IsFiniteSet(Points) /\ Cardinality(Points) = code.m
  <2>1. code.m \in Int /\ ~(1 > code.m) /\ code.m - 1 + 1 = code.m
    BY <1>1
  <2> QED BY <1>1, <2>1, FS_Interval DEF Points
<1> QED BY <1>1, <1>2, FieldFacts DEF Points

\* As many elements of the field as points.
LEMMA PointImage ==
  ASSUME code \in Codes, NEW S \in SUBSET Points
  PROVE  /\ Image(code.at, S) \in SUBSET Field
         /\ Cardinality(Image(code.at, S)) = Cardinality(S) /\ Cardinality(S) \in Nat
<1>1. /\ IsFiniteSet(S) /\ \A x \in S : code.at[x] \in Field
      /\ \A x, y \in S : code.at[x] = code.at[y] => x = y
  BY CodeFacts, FS_Subset
<1>2. Image(code.at, S) \in SUBSET Field /\ Cardinality(Image(code.at, S)) = Cardinality(S)
  BY <1>1, ImageSize
<1> QED BY <1>1, <1>2, FS_CardinalityType

\* Whether z is a solution of a row.
Holds(row, z) == Dot(row, z) = row[Unknowns]

\* A combination of rows that hold holds.
Combines(w, u, a, c, b) == \A k \in 0..Unknowns : Cong(w[k], u * a[k] + c * b[k])

\* What holds for two rows holds for what is made of them.
LEMMA HoldsLinear ==
  ASSUME code.d \in Nat, code.e \in Nat, NEW a \in Rows, NEW b \in Rows, NEW w \in Rows,
         NEW z \in Assignments, NEW u \in Int, NEW c \in Int,
         Combines(w, u, a, c, b), Holds(a, z), Holds(b, z)
  PROVE  Holds(w, z)
<1>0. PICK N \in Nat : N = Unknowns
  BY UnknownsType
<1>1. /\ a[N] \in Int /\ b[N] \in Int /\ w[N] \in Int /\ w[N] \in Field
      /\ Dot(w, z) \in Field /\ Dot(w, z) \in Int
      /\ Dot(a, z) = a[N] /\ Dot(b, z) = b[N]
  <2>1. a[N] \in Field /\ b[N] \in Field /\ w[N] \in Field
    BY <1>0 DEF Rows, Poly
  <2> QED BY <1>0, <2>1, DotType, FieldFacts DEF Holds
<1>2. \A k \in 0..(Unknowns - 1) : Cong(w[k], u * a[k] + c * b[k])
  BY UnknownsType DEF Combines
<1>3. Cong(Dot(w, z), u * Dot(a, z) + c * Dot(b, z))
  BY <1>2, DotLinear
<1> DEFINE v == u * a[N] + c * b[N]
<1>4. Cong(Dot(w, z), v) /\ v \in Int /\ Cong(w[N], v)
  BY <1>0, <1>1, <1>3, UnknownsType DEF Combines
<1> HIDE DEF v
<1>5. Cong(v, w[N])
  BY <1>1, <1>4, CongSymmetric
<1>6. Cong(Dot(w, z), w[N])
  BY <1>1, <1>4, <1>5, CongTransitive
<1>7. Dot(w, z) = w[N]
  BY <1>1, <1>6, CongInField
<1> QED BY <1>0, <1>7 DEF Holds

Matrices == [Points -> Rows]

\* Exchanging two rows keeps the solutions.
LEMMA SwapKeeps ==
  ASSUME NEW M \in Matrices, NEW r \in Points, NEW s \in Points
  PROVE  /\ Swap(M, r, s) \in Matrices
         /\ \A x \in Points :
              Swap(M, r, s)[x] = IF x = s THEN M[r] ELSE IF x = r THEN M[s] ELSE M[x]
         /\ \A z : Solves(z, Swap(M, r, s)) <=> Solves(z, M)
<1> DEFINE N == Swap(M, r, s)
<1>1. N \in Matrices
  BY DEF Swap, Matrices
<1>2. \A x \in Points : N[x] = IF x = s THEN M[r] ELSE IF x = r THEN M[s] ELSE M[x]
  BY DEF Swap, Matrices
<1> HIDE DEF N
<1>3. ASSUME NEW z, Solves(z, M)
      PROVE  Solves(z, N)
  BY <1>2, <1>3 DEF Solves
<1>4. ASSUME NEW z, Solves(z, N)
      PROVE  Solves(z, M)
  <2>1. \A x \in Points : \E y \in Points : M[x] = N[y]
    <3> SUFFICES ASSUME NEW x \in Points PROVE \E y \in Points : M[x] = N[y]
      OBVIOUS
    <3>1. CASE x = r
      BY <1>2, <3>1
    <3>2. CASE x = s
      BY <1>2, <3>2
    <3>3. CASE x # r /\ x # s
      BY <1>2, <3>3
    <3> QED BY <3>1, <3>2, <3>3
  <2> QED BY <1>4, <2>1 DEF Solves
<1> QED BY <1>1, <1>2, <1>3, <1>4 DEF N

\* Clearing a column keeps the solutions, and the entries where the pivot's row is 0.
LEMMA ReduceKeeps ==
  ASSUME code \in Codes, NEW M \in Matrices, NEW r \in Points, NEW j \in 0..(Unknowns - 1),
         M[r][j] # 0
  PROVE  /\ Reduce(M, r, j) \in Matrices
         /\ \A z \in Assignments : Solves(z, Reduce(M, r, j)) <=> Solves(z, M)
         /\ \A x \in Points : Reduce(M, r, j)[x][j] = IF x = r THEN 1 ELSE 0
         /\ \A k \in 0..Unknowns :
              M[r][k] = 0 => \A x \in Points : Reduce(M, r, j)[x][k] = M[x][k]
<1>0. PICK N \in Nat : N = Unknowns
  BY CodeFacts, UnknownsType
<1>1. code.d \in Nat /\ code.e \in Nat /\ j \in 0..N
  BY <1>0, CodeFacts, UnknownsType
<1> DEFINE a == M[r][j]
           i == Inv(a)
           one == [k \in 0..N |-> (M[r][k] * i) % p]
           R == Reduce(M, r, j)
<1>2. /\ \A x \in Points : M[x] \in Rows
      /\ \A x \in Points, k \in 0..N : M[x][k] \in Field /\ M[x][k] \in Int
  <2>1. \A x \in Points : M[x] \in Rows
    BY DEF Matrices
  <2> QED BY <1>0, <2>1, FieldFacts DEF Rows, Poly
<1>3. a \in Int /\ a \in Field /\ i \in Int /\ a * i \in Int /\ (a * i) % p = 1 /\ Cong(a * i, 1)
  <2>1. a \in Field /\ a \in Int /\ a \in 1..(p - 1)
    <3>1. a \in Field /\ a \in Int /\ a # 0
      BY <1>1, <1>2
    <3> QED BY <3>1, FieldFacts DEF Field
  <2>2. i \in Field /\ (a * i) % p = 1
    BY <2>1, FieldAssumption
  <2>3. i \in Int /\ a * i \in Int
    BY <2>1, <2>2, FieldFacts
  <2> QED BY <2>1, <2>2, <2>3, SameRemainder, FieldFacts
<1>4. R = [x \in Points |->
             IF x = r THEN one
             ELSE [k \in 0..N |-> (M[x][k] + (p - M[x][j]) * one[k]) % p]]
  BY <1>0 DEF Reduce
<1> HIDE DEF R, i
<1> HIDE DEF a
<1>5. \A k \in 0..N : M[r][k] * i \in Int /\ (M[r][k] * i) % p \in Field /\ Cong((M[r][k] * i) % p, M[r][k] * i)
  <2> SUFFICES ASSUME NEW k \in 0..N
               PROVE  /\ M[r][k] * i \in Int /\ (M[r][k] * i) % p \in Field
                      /\ Cong((M[r][k] * i) % p, M[r][k] * i)
    OBVIOUS
  <2>1. M[r][k] * i \in Int
    BY <1>2, <1>3
  <2> QED BY <2>1, Remainder
<1>6. one \in Rows /\ \A k \in 0..N : one[k] = (M[r][k] * i) % p
  BY <1>0, <1>5 DEF Rows, Poly
<1> HIDE DEF one
<1>7. \A k \in 0..N : one[k] \in Field /\ one[k] \in Int /\ Cong(one[k], M[r][k] * i)
  BY <1>5, <1>6, FieldFacts
<1>8. one[j] = 1
  BY <1>1, <1>3, <1>6 DEF a
<1>9. ASSUME NEW x \in Points, x # r, NEW k \in 0..N
      PROVE  /\ R[x][k] = (M[x][k] + (p - M[x][j]) * one[k]) % p
             /\ R[x][k] \in Field
             /\ Cong(R[x][k], M[x][k] + (-M[x][j]) * one[k])
  <2> DEFINE c == M[x][j]
             y == M[x][k]
             g == p - c
             h == -c
  <2>1. c \in Int /\ y \in Int /\ g \in Int /\ h \in Int /\ Cong(g, h)
    BY <1>1, <1>2, Opposite
  <2>2. R[x][k] = (y + g * one[k]) % p
    BY <1>4, <1>9
  <2> HIDE DEF c, y, g, h
  <2>3. g * one[k] \in Int /\ h * one[k] \in Int /\ y + g * one[k] \in Int /\ y + h * one[k] \in Int
    BY <1>7, <2>1
  <2>4. Cong(g * one[k], h * one[k]) /\ Cong(y, y)
    BY <1>7, <2>1, CongReflexive, CongTimes
  <2>5. Cong(y + g * one[k], y + h * one[k])
    BY <2>1, <2>3, <2>4, CongPlus
  <2>6. R[x][k] \in Field /\ Cong(R[x][k], y + g * one[k])
    BY <2>2, <2>3, Remainder
  <2>7. Cong(R[x][k], y + h * one[k])
    BY <2>3, <2>5, <2>6, CongTransitive, FieldFacts
  <2> QED BY <2>2, <2>6, <2>7 DEF c, y, g, h
<1>10. R[r] = one
  BY <1>4
<1>11. R \in Matrices
  <2> SUFFICES ASSUME NEW x \in Points PROVE R[x] \in Rows
    BY <1>4 DEF Matrices
  <2>1. CASE x = r
    BY <1>6, <1>10, <2>1
  <2>2. CASE x # r
    <3>1. R[x] = [k \in 0..N |-> (M[x][k] + (p - M[x][j]) * one[k]) % p]
      BY <1>4, <2>2
    <3>2. \A k \in 0..N : (M[x][k] + (p - M[x][j]) * one[k]) % p \in Field
      BY <1>9, <2>2
    <3> QED BY <1>0, <3>1, <3>2 DEF Rows, Poly
  <2> QED BY <2>1, <2>2
<1>12. ASSUME NEW z \in Assignments, Solves(z, M)
       PROVE  Solves(z, R)
  <2>1. \A x \in Points : Holds(M[x], z)
    BY <1>12 DEF Solves, Holds
  <2>2. Holds(one, z)
    <3>0. PICK u \in Int : u = 0
      OBVIOUS
    <3>1. ASSUME NEW k \in 0..Unknowns
          PROVE  Cong(one[k], i * M[r][k] + u * M[r][k])
      <4>1. k \in 0..N
        BY <1>0
      <4>2. i * M[r][k] + u * M[r][k] = M[r][k] * i
        BY <1>2, <1>3, <3>0, <4>1
      <4> QED BY <1>7, <4>1, <4>2
    <3>9. Combines(one, i, M[r], u, M[r])
      BY <3>1 DEF Combines
    <3> QED BY <1>1, <1>2, <1>3, <1>6, <2>1, <3>9, HoldsLinear
  <2>3. ASSUME NEW x \in Points, x # r
        PROVE  Holds(R[x], z)
    <3> DEFINE c == -M[x][j]
    <3>0. PICK u \in Int : u = 1
      OBVIOUS
    <3>1. c \in Int /\ R[x] \in Rows
      BY <1>1, <1>2, <1>11 DEF Matrices
    <3>2. ASSUME NEW k \in 0..Unknowns
          PROVE  Cong(R[x][k], u * M[x][k] + c * one[k])
      <4>1. k \in 0..N
        BY <1>0
      <4>2. M[x][k] \in Int /\ one[k] \in Int /\ Cong(R[x][k], M[x][k] + c * one[k])
        BY <1>2, <1>7, <1>9, <2>3, <4>1
      <4> HIDE DEF c
      <4>3. u * M[x][k] + c * one[k] = M[x][k] + c * one[k]
        BY <3>0, <3>1, <4>2
      <4> QED BY <4>2, <4>3
    <3> HIDE DEF c
    <3>9. Combines(R[x], u, M[x], c, one)
      BY <3>2 DEF Combines
    <3> QED BY <1>1, <1>2, <1>6, <2>1, <2>2, <3>1, <3>9, HoldsLinear
  <2> QED BY <1>10, <2>2, <2>3 DEF Solves, Holds
<1>13. ASSUME NEW z \in Assignments, Solves(z, R)
       PROVE  Solves(z, M)
  <2>1. \A x \in Points : Holds(R[x], z)
    BY <1>13 DEF Solves, Holds
  <2>2. Holds(one, z)
    BY <1>10, <2>1
  <2>3. Holds(M[r], z)
    <3>0. PICK u \in Int : u = 0
      OBVIOUS
    <3>1. ASSUME NEW k \in 0..Unknowns
          PROVE  Cong(M[r][k], a * one[k] + u * one[k])
      <4> DEFINE y == M[r][k]
                 v == y * i
                 w == a * i
      <4>1. k \in 0..N
        BY <1>0
      <4>2. y \in Int /\ one[k] \in Int /\ Cong(one[k], v) /\ v \in Int
            /\ w \in Int /\ Cong(w, 1) /\ a * v = y * w
        BY <1>2, <1>3, <1>7, <4>1
      <4> HIDE DEF y, v, w
      <4>3. Cong(a * one[k], a * v) /\ Cong(y * w, y * 1) /\ a * one[k] \in Int /\ a * v \in Int
            /\ y * 1 = y
        <5>1. a \in Int /\ Cong(a, a) /\ Cong(y, y) /\ 1 \in Int
          BY <1>3, <4>2, CongReflexive
        <5> HIDE DEF a, i, one
        <5>2. Cong(a * one[k], a * v) /\ Cong(y * w, y * 1)
          BY <4>2, <5>1, CongTimes
        <5> QED BY <4>2, <5>1, <5>2
      <4>4. Cong(a * one[k], y)
        BY <4>2, <4>3, CongTransitive
      <4>5. a * one[k] + u * one[k] = a * one[k]
        BY <3>0, <4>2, <4>3
      <4> QED BY <4>2, <4>3, <4>4, <4>5, CongSymmetric DEF y
    <3>9. Combines(M[r], a, one, u, one)
      BY <3>1 DEF Combines
    <3> QED BY <1>1, <1>2, <1>3, <1>6, <2>2, <3>9, HoldsLinear
  <2>4. ASSUME NEW x \in Points, x # r
        PROVE  Holds(M[x], z)
    <3> DEFINE c == M[x][j]
               b == -c
    <3>0. PICK u \in Int : u = 1
      OBVIOUS
    <3>1. c \in Int /\ b \in Int /\ R[x] \in Rows
      BY <1>1, <1>2, <1>11 DEF Matrices
    <3>2. ASSUME NEW k \in 0..Unknowns
          PROVE  Cong(M[x][k], u * R[x][k] + c * one[k])
      <4> DEFINE g == b * one[k]
                 h == c * one[k]
      <4>1. k \in 0..N
        BY <1>0
      <4>2. /\ M[x][k] \in Int /\ R[x][k] \in Int /\ one[k] \in Int
            /\ Cong(R[x][k], M[x][k] + g)
        BY <1>2, <1>7, <1>9, <2>4, <4>1, FieldFacts
      <4>3. g \in Int /\ h \in Int /\ (M[x][k] + g) + h = M[x][k] /\ Cong(h, h)
        BY <3>1, <4>2, CongReflexive
      <4> HIDE DEF g, h
      <4> DEFINE s == M[x][k] + g
      <4>4. s \in Int /\ Cong(R[x][k], s) /\ s + h = M[x][k]
        BY <4>2, <4>3
      <4> HIDE DEF s
      <4>5. Cong(R[x][k] + h, s + h)
        BY <4>2, <4>3, <4>4, CongPlus
      <4>6. Cong(M[x][k], R[x][k] + h)
        BY <4>2, <4>3, <4>4, <4>5, CongSymmetric
      <4>7. u * R[x][k] + c * one[k] = R[x][k] + h
        BY <3>0, <4>2 DEF h
      <4> QED BY <4>6, <4>7
    <3> HIDE DEF c
    <3>9. Combines(M[x], u, R[x], c, one)
      BY <3>2 DEF Combines
    <3> QED BY <1>1, <1>2, <1>6, <2>1, <2>2, <3>1, <3>9, HoldsLinear
  <2> QED BY <2>3, <2>4 DEF Solves, Holds
<1>14. ASSUME NEW x \in Points
       PROVE  R[x][j] = IF x = r THEN 1 ELSE 0
  <2>1. CASE x = r
    BY <1>8, <1>10, <2>1
  <2>2. CASE x # r
    <3>1. M[x][j] \in Int
      BY <1>1, <1>2
    <3>2. R[x][j] = (M[x][j] + (p - M[x][j]) * 1) % p
      BY <1>1, <1>8, <1>9, <2>2
    <3>3. M[x][j] + (p - M[x][j]) * 1 = p /\ p % p = 0
      BY <3>1, FieldFacts
    <3> QED BY <2>2, <3>2, <3>3
  <2> QED BY <2>1, <2>2
<1>15. ASSUME NEW k \in 0..N, M[r][k] = 0, NEW x \in Points
       PROVE  R[x][k] = M[x][k]
  <2>1. one[k] = 0
    <3>1. M[r][k] * i = 0 /\ 0 % p = 0
      BY <1>3, <1>15, FieldFacts
    <3> QED BY <1>6, <3>1
  <2>2. CASE x = r
    BY <1>10, <1>15, <2>1, <2>2
  <2>3. CASE x # r
    <3>1. M[x][k] \in Int /\ M[x][k] \in Field /\ M[x][j] \in Int
      BY <1>1, <1>2
    <3>2. M[x][k] + (p - M[x][j]) * 0 = M[x][k]
      BY <3>1, FieldFacts
    <3>3. M[x][k] % p = M[x][k]
      BY <3>1, SameRemainder, CongReflexive
    <3> QED BY <1>9, <2>1, <2>3, <3>2, <3>3
  <2> QED BY <2>2, <2>3
<1> QED BY <1>0, <1>11, <1>12, <1>13, <1>14, <1>15 DEF R

-----------------------------------------------------------------------------
(* BerlekampWelch.  What a row says.                                        *)

\* Sums of the terms of a polynomial, and Horner's rule for what is left.
LEMMA SumsAndHorner ==
  ASSUME NEW N \in Nat, NEW f \in Poly(N), NEW x \in Int, NEW c \in Int, NEW power, NEW g,
         \A k \in 0..N : power[k] \in Int /\ g[k] \in Int,
         power[0] = 1,
         \A k \in 1..N : Cong(power[k], power[k - 1] * x),
         \A k \in 1..N : Cong(g[k], g[k - 1] + c * (power[k - 1] * f[k - 1]))
  PROVE  Cong(g[N] + c * (power[N] * f[N]), g[0] + c * Eval(N, f, x))
<1> DEFINE H == Horner(N, f, x)
           total == g[0] + c * H[0]
           S == {k \in 0..N : Cong(g[k] + c * (power[k] * H[k]), total)}
<1>1. /\ H \in Poly(N) /\ H[N] = f[N]
      /\ \A k \in 1..N : Cong(H[k - 1], H[k] * x + f[k - 1])
  BY HornerUnfolds
<1>2. \A k \in 0..N : f[k] \in Int
  BY Coefficients
<1> HIDE DEF H
<1>3. \A k \in 0..N : H[k] \in Int
  BY <1>1, Coefficients
<1>4. total \in Int
  BY <1>3
<1>5. 0 \in S
  <2>1. 0 \in 0..N /\ H[0] \in Int /\ g[0] \in Int
    BY <1>3
  <2>2. g[0] + c * (power[0] * H[0]) = total
    BY <2>1
  <2> QED BY <1>4, <2>1, <2>2, CongReflexive
<1> HIDE DEF total
<1>6. ASSUME NEW m \in 0..(N - 1), m \in S
      PROVE  m + 1 \in S
  <2>0. PICK k \in 1..N : k = m + 1
    OBVIOUS
  <2>1. /\ k - 1 = m /\ m \in 0..N /\ k \in 0..N
    BY <2>0
  <2>2. /\ Cong(g[k], g[m] + c * (power[m] * f[m]))
        /\ Cong(power[k], power[m] * x)
        /\ Cong(H[m], H[k] * x + f[m])
    <3>1. /\ Cong(g[k], g[k - 1] + c * (power[k - 1] * f[k - 1]))
          /\ Cong(power[k], power[k - 1] * x)
          /\ Cong(H[k - 1], H[k] * x + f[k - 1])
      BY <1>1
    <3> QED BY <2>1, <3>1
  <2>3. /\ g[k] \in Int /\ g[m] \in Int /\ power[k] \in Int /\ power[m] \in Int
        /\ H[k] \in Int /\ H[m] \in Int /\ f[m] \in Int
    BY <1>2, <1>3, <2>1
  <2> DEFINE a == power[m] * x
             b == H[k] * x + f[m]
             r == g[m] + c * (power[m] * f[m])
             u == power[k] * H[k]
             v == a * H[k]
             w == power[m] * H[m]
             y == power[m] * b
             cu == c * u
             cv == c * v
             cw == c * w
             cy == c * y
  <2>4. /\ a \in Int /\ b \in Int /\ r \in Int /\ u \in Int /\ v \in Int /\ w \in Int /\ y \in Int
        /\ cu \in Int /\ cv \in Int /\ cw \in Int /\ cy \in Int
        /\ r + cv = g[m] + cy
    BY <2>3
  <2>5. Cong(g[k], r) /\ Cong(power[k], a) /\ Cong(H[m], b) /\ Cong(g[m] + cw, total)
    BY <1>6, <2>2
  <2> HIDE DEF a, b, r
  <2>6. Cong(u, v) /\ Cong(w, y)
    BY <2>3, <2>4, <2>5, CongReflexive, CongTimes
  <2> HIDE DEF u, v, w, y
  <2>7. Cong(cu, cv) /\ Cong(cw, cy)
    BY <2>4, <2>6, CongReflexive, CongTimes
  <2> HIDE DEF cv, cw, cy
  <2> HIDE DEF cu
  <2>8. Cong(g[k] + cu, r + cv) /\ Cong(g[m] + cw, g[m] + cy)
    BY <2>3, <2>4, <2>5, <2>7, CongReflexive, CongPlus
  <2>9. Cong(g[m] + cy, g[m] + cw)
    BY <2>3, <2>4, <2>8, CongSymmetric
  <2>10. Cong(g[k] + cu, g[m] + cw)
    BY <2>3, <2>4, <2>8, <2>9, CongTransitive
  <2>11. Cong(g[k] + cu, total)
    BY <1>4, <2>3, <2>4, <2>5, <2>10, CongTransitive
  <2> QED BY <2>0, <2>1, <2>11 DEF cu, u
<1>7. N \in S
  <2> HIDE DEF S
  <2>1. \A k \in 0..N : k \in S
    BY <1>5, <1>6, UpTo
  <2> QED BY <2>1
<1>8. Cong(g[N] + c * (power[N] * H[N]), total)
  BY <1>7
<1> QED BY <1>1, <1>8 DEF total, H, Eval

\* The powers of a point.
LEMMA PowersUnfold ==
  ASSUME code \in Codes, NEW x \in Int
  PROVE  /\ \A k \in 0..(code.d + code.e) : Powers(x)[k] \in Field /\ Powers(x)[k] \in Int
         /\ Powers(x)[0] = 1
         /\ \A k \in 1..(code.d + code.e) : Cong(Powers(x)[k], Powers(x)[k - 1] * x)
<1>0. PICK N \in Nat : N = code.d + code.e
  BY CodeFacts
<1> DEFINE G == [k \in 1..N |-> [v \in Field |-> (v * x) % p]]
           P == Powers(x)
<1>1. ASSUME NEW v \in Field
      PROVE  v * x \in Int /\ (v * x) % p \in Field
  <2>1. v * x \in Int
    BY FieldFacts
  <2> QED BY <2>1, Remainder
<1>2. StepsIn(Field, 1..N, G)
  BY <1>1 DEF StepsIn
<1>3. \A k \in 1..N, v \in Field : G[k][v] = (v * x) % p
  OBVIOUS
<1> HIDE DEF G
<1>4. PICK h \in [0..N -> Field] : h[0] = 1 /\ \A k \in 1..N : h[k] = G[k][h[k - 1]]
  <2>1. PICK a \in Field : a = 1
    BY FieldFacts
  <2>2. PICK h : GoesUp(h, N, Field, a, G)
    BY <1>2, Upward
  <2> QED BY <2>1, <2>2 DEF GoesUp
<1>5. ASSUME NEW k \in 0..N
      PROVE  h[k] = IF k = 0 THEN 1 ELSE (h[k - 1] * x) % p
  <2>1. k # 0 => k \in 1..N /\ k - 1 \in 0..N
    OBVIOUS
  <2> QED BY <1>3, <1>4, <2>1
<1>6. h = [k \in 0..N |-> IF k = 0 THEN 1 ELSE (h[k - 1] * x) % p]
  BY <1>4, <1>5
<1>7. P = [k \in 0..N |-> IF k = 0 THEN 1 ELSE (P[k - 1] * x) % p]
  BY <1>0, <1>6 DEF Powers
<1> HIDE DEF P
<1>8. P[0] = 1 /\ \A k \in 1..N : P[k] = (P[k - 1] * x) % p
  <2>1. 0 \in 0..N /\ \A k \in 1..N : k \in 0..N /\ k # 0
    OBVIOUS
  <2> QED BY <1>7, <2>1
<1> DEFINE S == {k \in 0..N : P[k] \in Field}
<1>9. \A k \in 0..N : k \in S
  <2>1. 0 \in S
    BY <1>8, FieldFacts
  <2>2. ASSUME NEW k \in 0..(N - 1), k \in S
        PROVE  k + 1 \in S
    <3>0. PICK i \in 1..N : i = k + 1
      OBVIOUS
    <3>1. i - 1 = k /\ i \in 0..N /\ P[k] \in Field
      BY <2>2, <3>0
    <3>2. P[i] = (P[k] * x) % p
      BY <1>8, <3>1
    <3> QED BY <1>1, <3>0, <3>1, <3>2
  <2> HIDE DEF S
  <2> QED BY <2>1, <2>2, UpTo
<1>10. \A k \in 0..N : P[k] \in Field /\ P[k] \in Int
  BY <1>9, FieldFacts
<1>11. ASSUME NEW k \in 1..N
       PROVE  Cong(P[k], P[k - 1] * x)
  <2>1. k - 1 \in 0..N
    OBVIOUS
  <2>2. P[k - 1] * x \in Int
    BY <1>1, <1>10, <2>1
  <2> QED BY <1>8, <2>2, Remainder
<1> QED BY <1>0, <1>8, <1>10, <1>11 DEF P

Answer(Q, E) ==
  [k \in 0..(Unknowns - 1) |->
     IF k <= code.d + code.e THEN Q[k] ELSE E[k - code.d - code.e - 1]]

\* A row says of a numerator and a locator what they say of its point.
LEMMA RowHolds ==
  ASSUME code \in Codes, NEW x \in Int, NEW y \in Field, NEW Q \in Poly(code.d + code.e),
         NEW E \in Poly(code.e), E[code.e] = 1
  PROVE  /\ Row(x, y) \in Rows
         /\ Answer(Q, E) \in Assignments
         /\ Holds(Row(x, y), Answer(Q, E))
              <=> Cong(Eval(code.d + code.e, Q, x), y * Eval(code.e, E, x))
<1>0. PICK M \in Nat, q \in Nat, N \in Nat :
        M = code.d + code.e /\ q = M + 1 /\ N = Unknowns /\ N = q + code.e
  BY CodeFacts, UnknownsType
<1> DEFINE e == code.e
           P == Powers(x)
           row == Row(x, y)
           z == Answer(Q, E)
<1>1. e \in Nat /\ code.d \in Nat /\ e <= M /\ e \in 0..M
  BY <1>0, CodeFacts
<1>2. /\ \A k \in 0..M : P[k] \in Field /\ P[k] \in Int
      /\ P[0] = 1
      /\ \A k \in 1..M : Cong(P[k], P[k - 1] * x)
  BY <1>0, PowersUnfold
<1>3. y \in Int /\ p - y \in Int /\ -y \in Int /\ Cong(p - y, -y)
  BY FieldFacts, Opposite
<1>4. \A k \in 0..M : Q[k] \in Field /\ Q[k] \in Int
  BY <1>0, Coefficients
<1>5. \A k \in 0..e : E[k] \in Field /\ E[k] \in Int
  BY <1>1, Coefficients
<1>6. \A k \in 0..N : row[k] = IF k < q THEN P[k]
                               ELSE IF k < N THEN ((p - y) * P[k - q]) % p
                               ELSE (y * P[e]) % p
  BY <1>0 DEF Row
<1>7. \A k \in 0..(N - 1) : z[k] = IF k < q THEN Q[k] ELSE E[k - q]
  <2>1. \A k \in 0..(N - 1) : (k <= code.d + code.e <=> k < q) /\ k - code.d - code.e - 1 = k - q
    BY <1>0, <1>1
  <2>2. \A k \in 0..(N - 1) :
          z[k] = IF k <= code.d + code.e THEN Q[k] ELSE E[k - code.d - code.e - 1]
    BY <1>0 DEF Answer
  <2> QED BY <2>1, <2>2
<1>8. ASSUME NEW k \in 0..N
      PROVE  /\ k < q => k \in 0..M
             /\ k >= q => /\ k - q \in 0..M /\ k - q \in 0..e
                          /\ (p - y) * P[k - q] \in Int
                          /\ ((p - y) * P[k - q]) % p \in Field
  <2>1. /\ k < q => k \in 0..M
        /\ k >= q => k - q \in 0..M /\ k - q \in 0..e
    BY <1>0, <1>1
  <2>2. ASSUME k >= q
        PROVE  (p - y) * P[k - q] \in Int /\ ((p - y) * P[k - q]) % p \in Field
    <3>1. P[k - q] \in Int
      BY <1>2, <2>1, <2>2
    <3>2. (p - y) * P[k - q] \in Int
      BY <1>3, <3>1
    <3> QED BY <3>2, Remainder
  <2> QED BY <2>1, <2>2
<1>9. y * P[e] \in Int /\ (y * P[e]) % p \in Field /\ Cong((y * P[e]) % p, y * P[e])
  <2>1. P[e] \in Int
    BY <1>1, <1>2
  <2>2. y * P[e] \in Int
    BY <1>3, <2>1
  <2> QED BY <2>2, Remainder
<1>10. row \in Rows
  <2>1. \A k \in 0..N : row[k] \in Field
    BY <1>2, <1>6, <1>8, <1>9
  <2>2. row = [k \in 0..N |-> row[k]]
    BY <1>0 DEF Row
  <2> HIDE DEF row
  <2> QED BY <1>0, <2>1, <2>2 DEF Rows, Poly
<1>11. z \in Assignments
  <2>1. \A k \in 0..(N - 1) : z[k] \in Field
    <3> SUFFICES ASSUME NEW k \in 0..(N - 1) PROVE z[k] \in Field
      OBVIOUS
    <3>1. k \in 0..N
      OBVIOUS
    <3> HIDE DEF z
    <3> QED BY <1>4, <1>5, <1>7, <1>8, <3>1
  <2>2. z = [k \in 0..(N - 1) |-> z[k]]
    BY <1>0 DEF Answer
  <2> HIDE DEF z
  <2> QED BY <1>0, <2>1, <2>2 DEF Assignments
<1> HIDE DEF row, z, P
<1>12. PICK A : Adds(A, row, z) /\ Dot(row, z) = A[N]
  BY <1>0, <1>1, <1>10, <1>11, DotUnfolds
<1>13. /\ A[0] = 0 /\ \A k \in 0..N : A[k] \in Int
       /\ \A k \in 1..N : Cong(A[k], A[k - 1] + row[k - 1] * z[k - 1])
  BY <1>0, <1>12, FieldFacts DEF Adds
<1>14. ASSUME NEW k \in 1..N
       PROVE  /\ k - 1 \in 0..N
              /\ k - 1 < q => /\ k - 1 \in 0..M /\ row[k - 1] = P[k - 1]
                              /\ z[k - 1] = Q[k - 1]
              /\ k - 1 >= q => /\ (k - 1) - q \in 0..M /\ (k - 1) - q \in 0..e
                               /\ row[k - 1] = ((p - y) * P[(k - 1) - q]) % p
                               /\ z[k - 1] = E[(k - 1) - q]
  <2>1. k - 1 \in 0..N /\ k - 1 \in 0..(N - 1) /\ k - 1 < N
    OBVIOUS
  <2> QED BY <1>6, <1>7, <1>8, <2>1
<1> DEFINE VQ == Eval(M, Q, x)
           VE == Eval(e, E, x)
<1>15. VQ \in Int /\ VE \in Int
  BY <1>0, <1>1, EvalType
\* The first d + e + 1 terms make the numerator's value.
<1>16. Cong(A[q], VQ)
  <2>0. PICK c \in Int : c = 1
    OBVIOUS
  <2>1. ASSUME NEW k \in 1..M
        PROVE  Cong(A[k], A[k - 1] + c * (P[k - 1] * Q[k - 1]))
    <3>1. k \in 1..N /\ k - 1 < q /\ k - 1 \in 0..M
      BY <1>0, <1>1
    <3>2. row[k - 1] = P[k - 1] /\ z[k - 1] = Q[k - 1] /\ P[k - 1] \in Int /\ Q[k - 1] \in Int
      BY <1>2, <1>4, <1>14, <3>1
    <3>3. c * (P[k - 1] * Q[k - 1]) = row[k - 1] * z[k - 1]
      BY <2>0, <3>2
    <3>4. Cong(A[k], A[k - 1] + row[k - 1] * z[k - 1])
      BY <1>13, <3>1
    <3> QED BY <3>3, <3>4
  <2>2. \A k \in 0..M : P[k] \in Int /\ A[k] \in Int
    <3>1. \A k \in 0..M : k \in 0..N
      BY <1>0, <1>1
    <3> QED BY <1>2, <1>13, <3>1
  <2>3. Q \in Poly(M)
    BY <1>0
  <2>4. Cong(A[M] + c * (P[M] * Q[M]), A[0] + c * VQ)
    BY <1>2, <2>1, <2>2, <2>3, SumsAndHorner
  <2>5. q \in 1..N /\ q - 1 = M /\ M \in 0..M /\ q - 1 < q /\ q \in 0..N
    BY <1>0, <1>1
  <2>6. Cong(A[q], A[M] + row[M] * z[M])
    BY <1>13, <2>5
  <2>7. row[M] = P[M] /\ z[M] = Q[M] /\ P[M] \in Int /\ Q[M] \in Int /\ A[M] \in Int /\ A[q] \in Int
    BY <1>2, <1>4, <1>13, <1>14, <2>2, <2>5
  <2> DEFINE s == A[M] + P[M] * Q[M]
  <2>8. /\ s \in Int /\ A[M] + row[M] * z[M] = s /\ A[M] + c * (P[M] * Q[M]) = s
        /\ A[0] + c * VQ = VQ
    BY <1>13, <1>15, <2>0, <2>7
  <2>9. Cong(A[q], s) /\ Cong(s, VQ)
    BY <2>4, <2>6, <2>8
  <2> HIDE DEF s, VQ
  <2> QED BY <1>15, <2>7, <2>8, <2>9, CongTransitive
\* The others take away y times the locator's value, but for its top term.
<1>17. Cong(A[N] + (-y) * P[e], A[q] + (-y) * VE)
  <2> DEFINE c == -y
             g == [k \in 0..e |-> A[q + k]]
  <2>1. ASSUME NEW k \in 0..e
        PROVE  g[k] = A[q + k] /\ g[k] \in Int /\ P[k] \in Int
    <3>1. q + k \in 0..N /\ k \in 0..M
      BY <1>0, <1>1
    <3> QED BY <1>2, <1>13, <3>1
  <2>2. ASSUME NEW k \in 1..e
        PROVE  Cong(g[k], g[k - 1] + c * (P[k - 1] * E[k - 1]))
    <3>0. PICK i \in 1..N : i = q + k
      BY <1>0, <1>1
    <3>1. /\ i - 1 = q + (k - 1) /\ i - 1 >= q /\ (i - 1) - q = k - 1 /\ k - 1 \in 0..M
          /\ k - 1 \in 0..e /\ k \in 0..e /\ i \in 0..N /\ i - 1 \in 0..N
      BY <1>0, <1>1, <3>0
    <3> DEFINE u == P[k - 1]
               v == E[k - 1]
               a == p - y
               r == row[i - 1]
               au == a * u
               cu == c * u
    <3>2. /\ u \in Int /\ v \in Int /\ r = au % p /\ z[i - 1] = v /\ A[i - 1] \in Int
          /\ A[i] \in Int /\ g[k] = A[i] /\ g[k - 1] = A[i - 1]
      BY <1>2, <1>5, <1>13, <1>14, <2>1, <3>0, <3>1
    <3>3. a \in Int /\ c \in Int /\ Cong(a, c) /\ au \in Int /\ cu \in Int
      BY <1>3, <3>2
    <3>4. Cong(A[i], A[i - 1] + r * v)
      BY <1>13, <3>0, <3>2
    <3> HIDE DEF a, c, u, v, r
    <3>5. Cong(au, cu)
      BY <3>2, <3>3, CongReflexive, CongTimes
    <3>6. Cong(r, au) /\ r \in Int
      BY <3>2, <3>3, Remainder, FieldFacts
    <3> HIDE DEF au
    <3>7. Cong(r, cu)
      BY <3>3, <3>5, <3>6, CongTransitive
    <3> DEFINE b == c * (u * v)
    <3>8. b = cu * v /\ b \in Int /\ r * v \in Int
      BY <3>2, <3>3, <3>6
    <3> HIDE DEF cu
    <3>9. Cong(r * v, b)
      BY <3>2, <3>3, <3>6, <3>7, <3>8, CongReflexive, CongTimes
    <3> HIDE DEF b
    <3>10. Cong(A[i - 1] + r * v, A[i - 1] + b)
      BY <3>2, <3>8, <3>9, CongReflexive, CongPlus
    <3>11. Cong(A[i], A[i - 1] + b)
      BY <3>2, <3>4, <3>8, <3>10, CongTransitive
    <3> QED BY <3>2, <3>11 DEF b, u, v
  <2>3. \A k \in 1..e : Cong(P[k], P[k - 1] * x)
    BY <1>0, <1>1, <1>2
  <2>4. c \in Int /\ E \in Poly(e)
    BY <1>3
  <2> HIDE DEF g, c
  <2>5. Cong(g[e] + c * (P[e] * E[e]), g[0] + c * VE)
    BY <1>1, <1>2, <2>1, <2>2, <2>3, <2>4, SumsAndHorner
  <2>6. g[e] = A[N] /\ g[0] = A[q] /\ E[e] = 1 /\ P[e] \in Int
    <3>1. e \in 0..e /\ 0 \in 0..e /\ q + e = N /\ q + 0 = q
      BY <1>0, <1>1
    <3> QED BY <1>1, <1>2, <2>1, <3>1
  <2>7. P[e] * E[e] = P[e]
    BY <2>6
  <2> QED BY <2>5, <2>6, <2>7 DEF c
<1> HIDE DEF VQ, VE
<1> DEFINE b == y * P[e]
           v == y * VE
           rhs == row[N]
<1>18. /\ A[N] \in Int /\ A[q] \in Int /\ b \in Int /\ v \in Int /\ rhs \in Field /\ rhs \in Int
       /\ Cong(rhs, b) /\ A[N] \in Field
       /\ A[N] + (-y) * P[e] = A[N] - b /\ A[q] + (-y) * VE = A[q] - v
  <2>1. N \in 0..N /\ q \in 0..N /\ ~(N < q) /\ ~(N < N)
    BY <1>0, <1>1
  <2>2. rhs = b % p /\ b \in Int /\ rhs \in Field /\ Cong(rhs, b)
    BY <1>6, <1>9, <2>1
  <2>3. A[N] \in Field /\ A[N] \in Int /\ A[q] \in Int /\ P[e] \in Int
    BY <1>0, <1>1, <1>2, <1>12, <1>13, <2>1 DEF Adds
  <2> HIDE DEF rhs
  <2> QED BY <1>3, <1>15, <2>2, <2>3, FieldFacts
<1>19. Cong(A[N] - b, A[q] - v)
  BY <1>17, <1>18
<1> HIDE DEF b, v, rhs
\* So the row's two sides differ by what the two values differ by.
<1>20. Cong(A[N] - rhs, VQ - v)
  <2>1. Cong(A[N] - rhs, A[N] - b) /\ Cong(A[q] - v, VQ - v)
    BY <1>15, <1>16, <1>18, CongReflexive, CongPlus
  <2>2. A[N] - rhs \in Int /\ A[N] - b \in Int /\ A[q] - v \in Int /\ VQ - v \in Int
    BY <1>15, <1>18
  <2>3. Cong(A[N] - rhs, A[q] - v)
    BY <1>19, <2>1, <2>2, CongTransitive
  <2> QED BY <2>1, <2>2, <2>3, CongTransitive
<1>21. ASSUME NEW a \in Int, NEW c \in Int
       PROVE  Cong(a, c) <=> Cong(a - c, 0)
  <2>1. a - c = (a - c) - 0
    OBVIOUS
  <2> QED BY <2>1 DEF Cong
<1>22. Cong(A[N] - rhs, 0) <=> Cong(VQ - v, 0)
  <2>1. A[N] - rhs \in Int /\ VQ - v \in Int /\ Cong(VQ - v, A[N] - rhs)
    <3>1. A[N] - rhs \in Int /\ VQ - v \in Int
      BY <1>15, <1>18
    <3> QED BY <1>20, <3>1, CongSymmetric
  <2> DEFINE a == A[N] - rhs
             c == VQ - v
  <2>2. a \in Int /\ c \in Int /\ 0 \in Int /\ Cong(a, c) /\ Cong(c, a)
    BY <1>20, <2>1
  <2> HIDE DEF a, c
  <2>3. Cong(a, 0) <=> Cong(c, 0)
    BY <2>2, CongTransitive
  <2> QED BY <2>3 DEF a, c
<1>23. Cong(A[N], rhs) <=> Cong(VQ, v)
  BY <1>15, <1>18, <1>21, <1>22
<1>24. A[N] = rhs <=> Cong(A[N], rhs)
  BY <1>18, CongInField, CongReflexive
<1> QED BY <1>0, <1>10, <1>11, <1>12, <1>23, <1>24 DEF Holds, row, z, rhs, v, VQ, VE

-----------------------------------------------------------------------------
(* BerlekampWelch.  Decoding one component.                                *)

\* Values differ at a finite number of points.
LEMMA MismatchSets ==
  ASSUME code \in Codes
  PROVE  \A f, word :
           /\ Mismatches(f, word) \in SUBSET Points
           /\ IsFiniteSet(Mismatches(f, word))
           /\ Cardinality(Mismatches(f, word)) \in Nat
           /\ Cardinality(Mismatches(f, word)) <= code.m
<1> SUFFICES ASSUME NEW f, NEW word
             PROVE  /\ Mismatches(f, word) \in SUBSET Points
                    /\ IsFiniteSet(Mismatches(f, word))
                    /\ Cardinality(Mismatches(f, word)) \in Nat
                    /\ Cardinality(Mismatches(f, word)) <= code.m
  OBVIOUS
<1> DEFINE S == Mismatches(f, word)
<1>1. S \in SUBSET Points
  BY DEF Mismatches
<1> HIDE DEF S
<1>2. IsFiniteSet(S) /\ Cardinality(S) <= Cardinality(Points)
  BY <1>1, CodeFacts, FS_Subset
<1> QED BY <1>1, <1>2, CodeFacts, FS_CardinalityType DEF S

\* The points outside one or two sets of them.
LEMMA PointsOutside ==
  ASSUME code \in Codes, NEW A \in SUBSET Points, NEW B \in SUBSET Points
  PROVE  /\ Points \ (A \union B) \in SUBSET Points
         /\ Cardinality(Points \ (A \union B)) \in Nat
         /\ Cardinality(Points \ (A \union B)) >= code.m - Cardinality(A) - Cardinality(B)
<1> DEFINE C == A \union B
           D == Points \ C
<1>1. /\ IsFiniteSet(A) /\ IsFiniteSet(B) /\ IsFiniteSet(D) /\ IsFiniteSet(C)
      /\ IsFiniteSet(Points) /\ Cardinality(Points) = code.m /\ code.m \in Nat
  <2>1. C \in SUBSET Points /\ D \in SUBSET Points
    OBVIOUS
  <2> HIDE DEF C, D
  <2> QED BY <2>1, CodeFacts, FS_Subset
<1>2. /\ Cardinality(A) \in Nat /\ Cardinality(B) \in Nat /\ Cardinality(C) \in Nat
      /\ Cardinality(D) \in Nat
  BY <1>1, FS_CardinalityType
<1>3. Cardinality(C) <= Cardinality(A) + Cardinality(B)
  <2>1. IsFiniteSet(A \cap B)
    BY <1>1, FS_Intersection
  <2>2. Cardinality(A \cap B) \in Nat
    BY <2>1, FS_CardinalityType
  <2>3. Cardinality(C) = Cardinality(A) + Cardinality(B) - Cardinality(A \cap B)
    BY <1>1, FS_Union
  <2> QED BY <1>2, <2>2, <2>3
<1>4. Cardinality(Points) = Cardinality(C) + Cardinality(D)
  <2>1. C \union D = Points /\ C \cap D = {}
    OBVIOUS
  <2> HIDE DEF C, D
  <2>2. Cardinality(C \union D) = Cardinality(C) + Cardinality(D) - Cardinality(C \cap D)
    BY <1>1, FS_Union
  <2>3. Cardinality({}) = 0
    BY FS_EmptySet
  <2>4. Cardinality(Points) = Cardinality(C) + Cardinality(D) - 0
    BY <2>1, <2>2, <2>3
  <2> QED BY <1>2, <2>4
<1>5. D \in SUBSET Points
  OBVIOUS
<1> QED BY <1>1, <1>2, <1>3, <1>4, <1>5

\* Two polynomials of degree d that each have most of the values are the same.
LEMMA Overlap ==
  ASSUME code \in Codes, NEW f \in Poly(code.d), NEW g \in Poly(code.d), NEW word,
         Cardinality(Mismatches(f, word)) + Cardinality(Mismatches(g, word)) + code.d < code.m
  PROVE  f = g
<1> DEFINE F == Mismatches(f, word)
           G == Mismatches(g, word)
           S == Points \ (F \union G)
<1>1. F \in SUBSET Points /\ G \in SUBSET Points /\ Cardinality(F) \in Nat /\ Cardinality(G) \in Nat
      /\ Cardinality(F) + Cardinality(G) + code.d < code.m /\ code.m \in Nat /\ code.d \in Nat
  BY MismatchSets, CodeFacts
<1>2. \A x \in S : Eval(code.d, f, code.at[x]) = Eval(code.d, g, code.at[x])
  BY DEF Mismatches
<1> HIDE DEF F, G
<1>3. /\ S \in SUBSET Points /\ Cardinality(S) \in Nat
      /\ Cardinality(S) >= code.m - Cardinality(F) - Cardinality(G)
  BY <1>1, PointsOutside
<1> HIDE DEF S
<1> DEFINE T == Image(code.at, S)
<1>4. \A x \in T : Eval(code.d, f, x) = Eval(code.d, g, x)
  BY <1>2 DEF Image
<1>5. T \in SUBSET Field /\ Cardinality(T) = Cardinality(S)
  BY <1>3, PointImage
<1> HIDE DEF T
<1>6. Cardinality(T) > code.d
  BY <1>1, <1>3, <1>5
<1> QED BY <1>1, <1>4, <1>5, <1>6, Agree

\* The fast path's candidate is the one polynomial through the first points.
LEMMA Candidate ==
  ASSUME code \in Codes, code.m > code.d, NEW word \in [1..code.m -> Field]
  PROVE  /\ Interpolate(word) \in Poly(code.d)
         /\ \A x \in 1..(code.d + 1) : Eval(code.d, Interpolate(word), code.at[x]) = word[x]
         /\ \A f \in Poly(code.d) :
              (\A x \in 1..(code.d + 1) : Eval(code.d, f, code.at[x]) = word[x])
                => f = Interpolate(word)
<1>0. PICK N \in Nat : N = code.d
  BY CodeFacts
<1> DEFINE S == 1..(N + 1)
           points == [x \in 1..(N + 1) |-> code.at[x]]
           first == [x \in 1..(N + 1) |-> word[x]]
<1>1. \A x \in S : x \in Points /\ x \in 1..code.m
  BY <1>0, CodeFacts
<1>2. /\ first \in [1..(N + 1) -> Field] /\ points \in [1..(N + 1) -> Field]
      /\ \A x \in S : first[x] = word[x] /\ points[x] = code.at[x]
      /\ \A x, y \in 1..(N + 1) : points[x] = points[y] => x = y
  BY <1>1, CodeFacts
<1> HIDE DEF first, points
<1>3. \E f \in Poly(N) : \A x \in S : Eval(N, f, code.at[x]) = word[x]
  <2>1. PICK f \in Poly(N) : \A x \in 1..(N + 1) : Eval(N, f, points[x]) = first[x]
    BY <1>2, Interpolation DEF CanInterpolate
  <2> QED BY <1>2, <2>1
<1>4. /\ Interpolate(word) \in Poly(N)
      /\ \A x \in S : Eval(N, Interpolate(word), code.at[x]) = word[x]
  BY <1>0, <1>3 DEF Interpolate
<1>5. S \in SUBSET Points /\ Cardinality(S) = N + 1
  <2>1. N + 1 \in Int /\ ~(1 > N + 1) /\ (N + 1) - 1 + 1 = N + 1
    BY <1>0
  <2>2. Cardinality(S) = N + 1
    BY <2>1, FS_Interval
  <2> QED BY <1>1, <2>2
<1> HIDE DEF S
<1> DEFINE T == Image(code.at, S)
<1>6. T \in SUBSET Field /\ Cardinality(T) = N + 1
  BY <1>5, PointImage
<1>7. ASSUME NEW f \in Poly(N), \A x \in S : Eval(N, f, code.at[x]) = word[x]
      PROVE  f = Interpolate(word)
  <2>1. \A x \in T : Eval(N, f, x) = Eval(N, Interpolate(word), x)
    BY <1>4, <1>7 DEF Image
  <2> HIDE DEF T
  <2>2. Cardinality(T) > N
    BY <1>6
  <2> QED BY <1>4, <1>6, <2>1, <2>2, Agree
<1> QED BY <1>0, <1>4, <1>7 DEF S

Original(word) == [x \in Points |-> Row(code.at[x], word[x])]

\* The numerator and the locator in an assignment.
Top(z) == [k \in 0..(code.d + code.e) |-> z[k]]
Bottom(z) == [k \in 0..code.e |-> IF k = code.e THEN 1 ELSE z[code.d + code.e + 1 + k]]

\* An assignment is a numerator and a monic locator.
LEMMA AssignmentParts ==
  ASSUME code \in Codes, NEW z \in Assignments
  PROVE  /\ Top(z) \in Poly(code.d + code.e)
         /\ Bottom(z) \in Poly(code.e) /\ Bottom(z)[code.e] = 1
         /\ Answer(Top(z), Bottom(z)) = z
<1>0. PICK D \in Nat, e \in Nat, M \in Nat, N \in Nat :
        D = code.d /\ e = code.e /\ M = D + e /\ N = Unknowns /\ N = M + 1 + e
  BY CodeFacts, UnknownsType
<1>1. \A k \in 0..(N - 1) : z[k] \in Field
  BY <1>0 DEF Assignments
<1>2. \A k \in 0..M : k \in 0..(N - 1)
  BY <1>0
<1>3. \A k \in 0..e : k # e => M + 1 + k \in 0..(N - 1)
  BY <1>0
<1>4. Top(z) \in Poly(M) /\ \A k \in 0..M : Top(z)[k] = z[k]
  BY <1>0, <1>1, <1>2 DEF Top, Poly
<1>5. /\ Bottom(z) \in Poly(e)
      /\ \A k \in 0..e : Bottom(z)[k] = IF k = e THEN 1 ELSE z[M + 1 + k]
  <2>1. Bottom(z) = [k \in 0..e |-> IF k = e THEN 1 ELSE z[M + 1 + k]]
    BY <1>0 DEF Bottom
  <2> QED BY <1>1, <1>3, <2>1, FieldFacts DEF Poly
<1>6. ASSUME NEW k \in 0..(N - 1)
      PROVE  (IF k <= M THEN Top(z)[k] ELSE Bottom(z)[k - D - e - 1]) = z[k]
  <2>1. CASE k <= M
    <3>1. k \in 0..M
      BY <2>1
    <3> QED BY <1>4, <2>1, <3>1
  <2>2. CASE ~(k <= M)
    <3>1. k - D - e - 1 \in 0..e /\ k - D - e - 1 # e /\ M + 1 + (k - D - e - 1) = k
      BY <1>0, <2>2
    <3> QED BY <1>5, <2>2, <3>1
  <2> QED BY <2>1, <2>2
<1>7. Answer(Top(z), Bottom(z))
        = [k \in 0..(N - 1) |-> IF k <= M THEN Top(z)[k] ELSE Bottom(z)[k - D - e - 1]]
  BY <1>0 DEF Answer
<1>8. z = [k \in 0..(N - 1) |-> z[k]]
  BY <1>0 DEF Assignments
<1>9. Answer(Top(z), Bottom(z)) = z
  BY <1>6, <1>7, <1>8
<1>10. Bottom(z)[e] = 1
  BY <1>0, <1>5
<1> QED BY <1>0, <1>4, <1>5, <1>9, <1>10

\* The system BuildSystem makes has a row for each point.
LEMMA OriginalRows ==
  ASSUME code \in Codes, NEW word \in [1..code.m -> Field]
  PROVE  /\ Original(word) \in Matrices
         /\ \A x \in Points : Original(word)[x] = Row(code.at[x], word[x]) /\ word[x] \in Field
<1>1. \A x \in Points : word[x] \in Field /\ code.at[x] \in Int
  BY CodeFacts DEF Points
<1>2. \A x \in Points : Row(code.at[x], word[x]) \in Rows
  <2> SUFFICES ASSUME NEW x \in Points PROVE Row(code.at[x], word[x]) \in Rows
    OBVIOUS
  <2>1. PICK E \in Poly(code.e) : E[code.e] = 1
    <3>1. {} \in SUBSET Field /\ Cardinality({}) <= code.e /\ code.e \in Nat
      BY CodeFacts, FS_EmptySet
    <3> QED BY <3>1, Vanishing DEF HasVanishing
  <2>2. PICK Q \in Poly(code.d + code.e) : TRUE
    <3>1. code.d + code.e \in Nat /\ {} \in SUBSET Field /\ Cardinality({}) <= code.d + code.e
      BY CodeFacts, FS_EmptySet
    <3> QED BY <3>1, Vanishing DEF HasVanishing
  <2> QED BY <1>1, <2>1, <2>2, RowHolds
<1> QED BY <1>1, <1>2 DEF Original, Matrices

\* The right answer solves the system, whatever monic locator it is taken with.
LEMMA AnswerSolves ==
  ASSUME code \in Codes, NEW word \in [1..code.m -> Field], NEW f \in Poly(code.d),
         NEW E \in Locators(f, word)
  PROVE  /\ Answer(Product(code.d, f, E), E) \in Assignments
         /\ Solves(Answer(Product(code.d, f, E), E), Original(word))
<1> DEFINE Q == Product(code.d, f, E)
           M == code.d + code.e
<1>1. /\ E \in Poly(code.e) /\ E[code.e] = 1
      /\ \A x \in Mismatches(f, word) : Eval(code.e, E, code.at[x]) = 0
  BY DEF Locators
<1>2. code.d \in Nat /\ code.e \in Nat /\ M \in Nat /\ \A x \in Points : code.at[x] \in Int
  BY CodeFacts
<1>3. \A x \in Int : Q \in Poly(M) /\ Cong(Eval(M, Q, x), Eval(code.d, f, x) * Eval(code.e, E, x))
  BY <1>1, <1>2, ProductEval
<1>4. Q \in Poly(M)
  <2>1. 0 \in Int
    OBVIOUS
  <2> QED BY <1>3, <2>1
<1> HIDE DEF Q
<1>5. ASSUME NEW i \in Points
      PROVE  Holds(Row(code.at[i], word[i]), Answer(Q, E))
  <2> DEFINE x == code.at[i]
  <2>1. x \in Int /\ word[i] \in Field /\ word[i] \in Int
    BY <1>2, OriginalRows, FieldFacts
  <2>2. Eval(code.d, f, x) \in Int /\ Eval(code.e, E, x) \in Int
    BY <1>1, <1>2, <2>1, EvalType
  <2>3. Eval(code.d, f, x) * Eval(code.e, E, x) = word[i] * Eval(code.e, E, x)
    <3>1. CASE i \in Mismatches(f, word)
      <4>1. Eval(code.e, E, x) = 0
        BY <1>1, <3>1
      <4> HIDE DEF x
      <4> QED BY <2>1, <2>2, <4>1
    <3>2. CASE i \notin Mismatches(f, word)
      BY <3>2 DEF Mismatches
    <3> QED BY <3>1, <3>2
  <2> HIDE DEF x
  <2>4. Cong(Eval(M, Q, x), word[i] * Eval(code.e, E, x))
    BY <1>3, <2>1, <2>3
  <2>5. Holds(Row(x, word[i]), Answer(Q, E))
    BY <1>1, <1>4, <2>1, <2>4, RowHolds
  <2> QED BY <2>5 DEF x
<1>6. Answer(Q, E) \in Assignments
  <2>1. 0 \in Int /\ 0 \in Field
    BY FieldFacts
  <2> QED BY <1>1, <1>4, <2>1, RowHolds
<1>7. Solves(Answer(Q, E), Original(word))
  BY <1>5, OriginalRows DEF Solves, Holds
<1> QED BY <1>6, <1>7 DEF Q

\* Up to e wrong values have a monic locator of degree e.
LEMMA LocatorExists ==
  ASSUME code \in Codes, NEW f, NEW word, Cardinality(Mismatches(f, word)) <= code.e
  PROVE  Locators(f, word) # {}
<1> DEFINE T == Image(code.at, Mismatches(f, word))
<1>1. /\ T \in SUBSET Field /\ Cardinality(T) <= code.e /\ code.e \in Nat
      /\ \A x \in Mismatches(f, word) : code.at[x] \in T
  BY MismatchSets, CodeFacts, PointImage DEF Image
<1> HIDE DEF T
<1>2. PICK E \in Poly(code.e) : E[code.e] = 1 /\ \A x \in T : Eval(code.e, E, x) = 0
  BY <1>1, Vanishing DEF HasVanishing
<1> QED BY <1>1, <1>2 DEF Locators

\* Whatever solution the elimination finds, the quotient is the right answer.
LEMMA SolutionDecodes ==
  ASSUME code \in Codes, code.m >= Unknowns, NEW word \in [1..code.m -> Field],
         NEW z \in Assignments, Solves(z, Original(word)),
         NEW f \in Poly(code.d), Cardinality(Mismatches(f, word)) <= code.e
  PROVE  /\ Divide(Top(z), Bottom(z)).quot = f
         /\ \A k \in 0..(code.d + code.e) : Divide(Top(z), Bottom(z)).rem[k] = 0
<1>0. PICK N \in Nat, e \in Nat, M \in Nat : N = code.d /\ e = code.e /\ M = N + e
  BY CodeFacts
<1> DEFINE Q == Top(z)
           E == Bottom(z)
           R == Divide(Q, E).rem
           h == Divide(Q, E).quot
<1>1. Q \in Poly(M) /\ E \in Poly(e) /\ E[e] = 1 /\ Answer(Q, E) = z
  BY <1>0, AssignmentParts
<1>2. /\ Divide(Q, E) \in Partial
      /\ \A k \in 0..M : k >= e => R[k] = 0
      /\ \A x \in Int : Cong(Eval(M, Q, x), Eval(N, h, x) * Eval(e, E, x) + Eval(M, R, x))
  BY <1>0, <1>1, DivisionExact
<1>3. h \in Poly(N) /\ R \in Poly(M)
  BY <1>0, <1>2 DEF Partial
<1> HIDE DEF Q, E, R, h
<1> DEFINE wrong == Mismatches(f, word)
           S == Points \ (wrong \union {})
           g == [k \in 0..N |-> (f[k] - h[k]) % p]
<1>4. wrong \in SUBSET Points /\ Cardinality(wrong) \in Nat /\ Cardinality(wrong) <= e
  BY <1>0, MismatchSets
<1>5. S \in SUBSET Points /\ Cardinality(S) > M
  <2> HIDE DEF wrong
  <2>1. {} \in SUBSET Points /\ Cardinality({}) = 0
    BY FS_EmptySet
  <2>2. /\ S \in SUBSET Points /\ Cardinality(S) \in Nat
        /\ Cardinality(S) >= code.m - Cardinality(wrong) - Cardinality({})
    BY <1>4, <2>1, PointsOutside
  <2>3. code.m \in Nat /\ code.m >= N + e + 1 + e
    BY <1>0, CodeFacts, UnknownsType
  <2> QED BY <1>0, <1>4, <2>1, <2>2, <2>3
<1>6. f \in Poly(N)
  BY <1>0
<1>7. ASSUME NEW k \in 0..N
      PROVE  (f[k] - h[k]) % p \in Field /\ Cong((f[k] - h[k]) % p, f[k] + (-1) * h[k])
             /\ f[k] \in Field /\ h[k] \in Field
  <2>1. f[k] \in Int /\ h[k] \in Int /\ f[k] \in Field /\ h[k] \in Field
    BY <1>3, <1>6, Coefficients
  <2>2. f[k] - h[k] \in Int /\ f[k] - h[k] = f[k] + (-1) * h[k]
    BY <2>1
  <2> QED BY <2>1, <2>2, Remainder
<1>8. g \in Poly(N) /\ \A k \in 0..N : g[k] = (f[k] - h[k]) % p /\ Cong(g[k], f[k] + (-1) * h[k])
  BY <1>7 DEF Poly
<1> HIDE DEF g
<1>9. ASSUME NEW i \in S
      PROVE  Cong(Eval(M, R, code.at[i]), Eval(N, g, code.at[i]) * Eval(e, E, code.at[i]))
  <2> DEFINE x == code.at[i]
             vf == Eval(N, f, x)
             vh == Eval(N, h, x)
             vg == Eval(N, g, x)
             vE == Eval(e, E, x)
             vR == Eval(M, R, x)
             vQ == Eval(M, Q, x)
  <2>1. i \in Points /\ x \in Int /\ word[i] \in Field /\ vf = word[i]
    BY <1>0, CodeFacts, OriginalRows DEF Mismatches
  <2>2. vf \in Int /\ vh \in Int /\ vg \in Int /\ vE \in Int /\ vR \in Int /\ vQ \in Int
    BY <1>0, <1>1, <1>3, <1>6, <1>8, <2>1, EvalType
  <2>3. Cong(vQ, vf * vE)
    <3>1. Original(word)[i] = Row(x, word[i])
      BY <2>1, OriginalRows
    <3>2. Holds(Row(x, word[i]), Answer(Q, E))
      BY <1>1, <2>1, <3>1 DEF Solves, Holds
    <3>3. Cong(vQ, word[i] * vE)
      BY <1>0, <1>1, <2>1, <3>2, RowHolds
    <3> QED BY <2>1, <3>3
  <2>4. Cong(vQ, vh * vE + vR)
    BY <1>2, <2>1
  <2>5. Cong(vg, vf + (-1) * vh)
    BY <1>3, <1>6, <1>8, <2>1, Combination
  <2> HIDE DEF vf, vh, vg, vE, vR, vQ
  <2> DEFINE a == vf * vE
             b == vh * vE
             c == vf + (-1) * vh
             s == b + vR
             y == c * vE
  <2>6. a \in Int /\ b \in Int /\ c \in Int /\ s \in Int /\ y \in Int
        /\ s - b = vR /\ a - b = y /\ vg * vE \in Int
    BY <2>2
  <2>7. Cong(vQ, a) /\ Cong(vQ, s) /\ Cong(vg, c)
    BY <2>3, <2>4, <2>5
  <2> HIDE DEF a, b, s
  <2>8. Cong(s, a)
    BY <2>2, <2>6, <2>7, CongSymmetric, CongTransitive
  <2>9. Cong(s - b, a - b)
    BY <2>6, <2>8, CongReflexive, CongPlus
  <2> HIDE DEF c
  <2>10. Cong(vg * vE, y)
    BY <2>2, <2>6, <2>7, CongReflexive, CongTimes
  <2>11. Cong(vR, y)
    BY <2>6, <2>9
  <2> HIDE DEF y
  <2>12. Cong(vR, vg * vE)
    BY <2>2, <2>6, <2>10, <2>11, CongSymmetric, CongTransitive
  <2> QED BY <2>12 DEF vR, vg, vE
<1> HIDE DEF S
<1> DEFINE T == Image(code.at, S)
<1>90. /\ T \in SUBSET Field /\ Cardinality(T) > M
       /\ \A x \in T : Cong(Eval(M, R, x), Eval(N, g, x) * Eval(e, E, x))
  BY <1>5, <1>9, PointImage DEF Image
<1> HIDE DEF T
<1>10. (\A k \in 0..N : g[k] = 0) /\ (\A k \in 0..M : R[k] = 0)
  <2>1. code.e \in Nat /\ E \in Poly(code.e) /\ E[code.e] = 1 /\ g \in Poly(N)
    BY <1>0, <1>1, <1>8
  <2>2. R \in Poly(N + code.e) /\ \A k \in 0..(N + code.e) : k >= code.e => R[k] = 0
    BY <1>0, <1>2, <1>3
  <2>3. T \in SUBSET Field /\ Cardinality(T) > N + code.e
    BY <1>0, <1>90
  <2>4. \A x \in T : Cong(Eval(N + code.e, R, x), Eval(N, g, x) * Eval(code.e, E, x))
    BY <1>0, <1>90
  <2>5. (\A k \in 0..N : g[k] = 0) /\ (\A k \in 0..(N + code.e) : R[k] = 0)
    BY <2>1, <2>2, <2>3, <2>4, NoSmallMultiple
  <2> QED BY <1>0, <2>5
<1>11. ASSUME NEW k \in 0..N
       PROVE  h[k] = f[k]
  <2>1. f[k] \in Field /\ h[k] \in Field /\ f[k] \in Int /\ h[k] \in Int
    BY <1>7, FieldFacts
  <2> DEFINE a == f[k] - h[k]
  <2>2. a \in Int /\ a % p = 0
    BY <1>8, <1>10, <2>1
  <2> HIDE DEF a
  <2>3. Cong(a, 0)
    BY <2>2, SameRemainder, FieldFacts
  <2>4. PICK u \in Int : a - 0 = p * u
    BY <2>3 DEF Cong
  <2>5. f[k] - h[k] = p * u
    BY <2>1, <2>4 DEF a
  <2>6. Cong(f[k], h[k])
    BY <2>5 DEF Cong
  <2> QED BY <2>1, <2>6, CongInField
<1>12. h = f
  <2>1. h = [k \in 0..N |-> h[k]] /\ f = [k \in 0..N |-> f[k]]
    BY <1>3, <1>6 DEF Poly
  <2>2. [k \in 0..N |-> h[k]] = [k \in 0..N |-> f[k]]
    BY <1>11
  <2> QED BY <2>1, <2>2
<1> QED BY <1>0, <1>10, <1>12 DEF h, R, Q, E

-----------------------------------------------------------------------------
(* BerlekampWelch.  The elimination.                                       *)

\* The system of the component being decoded says what the elimination's does.
Word == words[Len(polys) + 1]
Equivalent(M, word) ==
  M \in Matrices /\ \A z \in Assignments : Solves(z, M) <=> Solves(z, Original(word))

\* Before column k: a pivot's column is 1 in its row only, and the rows without
\* a pivot are 0.
Echelon(M, P, k) ==
  /\ P \in Seq(0..(Unknowns - 1)) /\ Len(P) <= code.m
  /\ \A i \in 1..Len(P) : \A x \in Points : M[x][P[i]] = IF x = i THEN 1 ELSE 0
  /\ \A x \in Points : x > Len(P) => \A j \in 0..(k - 1) : M[x][j] = 0

\* A column without a candidate is 0 below the pivots.
LEMMA EchelonGrows ==
  ASSUME code \in Codes, NEW M \in Matrices, NEW P, NEW k \in 0..(Unknowns - 1), Echelon(M, P, k),
         \A x \in Points : x > Len(P) => M[x][k] = 0
  PROVE  Echelon(M, P, k + 1)
<1>1. \A j \in 0..((k + 1) - 1) : j \in 0..(k - 1) \/ j = k
  OBVIOUS
<1> QED BY <1>1 DEF Echelon

\* A step of the elimination, with the first candidate for the pivot's row.
LEMMA PivotStep ==
  ASSUME code \in Codes, NEW M \in Matrices, NEW P, NEW k \in 0..(Unknowns - 1), Echelon(M, P, k),
         Len(P) < code.m, NEW s \in (Len(P) + 1)..code.m, M[s][k] # 0
  PROVE  /\ Reduce(Swap(M, Len(P) + 1, s), Len(P) + 1, k) \in Matrices
         /\ \A z \in Assignments :
              Solves(z, Reduce(Swap(M, Len(P) + 1, s), Len(P) + 1, k)) <=> Solves(z, M)
         /\ Echelon(Reduce(Swap(M, Len(P) + 1, s), Len(P) + 1, k), Append(P, k), k + 1)
<1>0. PICK r \in Nat : r = Len(P) + 1
  BY DEF Echelon
<1> DEFINE S == Swap(M, r, s)
           R == Reduce(S, r, k)
           A == Append(P, k)
<1>1. /\ code.m \in Nat /\ P \in Seq(0..(Unknowns - 1)) /\ Len(P) \in Nat /\ Len(P) = r - 1
      /\ r \in Points /\ s \in Points /\ s \in Nat /\ s >= r /\ r <= code.m
      /\ \A x \in Points : x \in Int
  BY <1>0, CodeFacts DEF Echelon
<1>2. /\ S \in Matrices
      /\ \A x \in Points : S[x] = IF x = s THEN M[r] ELSE IF x = r THEN M[s] ELSE M[x]
      /\ \A z : Solves(z, S) <=> Solves(z, M)
  BY <1>1, SwapKeeps
<1>3. S[r][k] = M[s][k] /\ S[r] = M[s]
  BY <1>1, <1>2
<1> HIDE DEF S
<1>4. /\ R \in Matrices
      /\ \A z \in Assignments : Solves(z, R) <=> Solves(z, S)
      /\ \A x \in Points : R[x][k] = IF x = r THEN 1 ELSE 0
      /\ \A j \in 0..Unknowns : S[r][j] = 0 => \A x \in Points : R[x][j] = S[x][j]
  BY <1>1, <1>2, <1>3, ReduceKeeps
<1> HIDE DEF R
<1>5. /\ A \in Seq(0..(Unknowns - 1)) /\ Len(A) = r /\ A[r] = k
      /\ \A i \in 1..(r - 1) : A[i] = P[i] /\ P[i] \in 0..(Unknowns - 1) /\ P[i] \in 0..Unknowns
  <2>0. PICK T : T = 0..(Unknowns - 1)
    OBVIOUS
  <2>1. P \in Seq(T) /\ k \in T /\ \A j \in T : j \in 0..Unknowns
    BY <1>1, <2>0, CodeFacts, UnknownsType
  <2>2. /\ A \in Seq(T) /\ Len(A) = Len(P) + 1
        /\ \A i \in 1..(Len(P) + 1) : A[i] = IF i = Len(P) + 1 THEN k ELSE P[i]
    BY <2>1
  <2>3. \A i \in 1..Len(P) : P[i] \in T
    BY <2>1
  <2> HIDE DEF A
  <2>4. Len(A) = r /\ A[r] = k
    BY <1>0, <1>1, <2>2
  <2>5. \A i \in 1..(r - 1) : A[i] = P[i] /\ P[i] \in T
    BY <1>0, <1>1, <2>2, <2>3
  <2> QED BY <2>0, <2>1, <2>2, <2>4, <2>5
<1> HIDE DEF A
<1>6. ASSUME NEW i \in 1..(r - 1), NEW x \in Points
      PROVE  R[x][A[i]] = IF x = i THEN 1 ELSE 0
  <2> DEFINE j == P[i]
  <2>1. j \in 0..Unknowns /\ A[i] = j /\ i # s /\ i # r /\ i \in 1..Len(P)
    BY <1>1, <1>5
  <2>2. \A y \in Points : M[y][j] = IF y = i THEN 1 ELSE 0
    <3>1. \A l \in 1..Len(P) : \A y \in Points : M[y][P[l]] = IF y = l THEN 1 ELSE 0
      BY DEF Echelon
    <3> QED BY <2>1, <3>1
  <2> HIDE DEF j
  <2>3. S[r][j] = 0
    BY <1>1, <1>3, <2>1, <2>2
  <2>4. R[x][j] = S[x][j]
    BY <1>4, <2>1, <2>3
  <2>5. S[x][j] = IF x = i THEN 1 ELSE 0
    BY <1>1, <1>2, <2>1, <2>2
  <2> QED BY <2>1, <2>4, <2>5
<1>7. ASSUME NEW x \in Points, x > r, NEW j \in 0..((k + 1) - 1)
      PROVE  R[x][j] = 0
  <2>1. CASE j = k
    BY <1>1, <1>4, <1>7, <2>1
  <2>2. CASE j # k
    <3>1. j \in 0..(k - 1) /\ j \in 0..Unknowns
      BY <2>2, CodeFacts, UnknownsType
    <3>2. \A y \in Points : y >= r => M[y][j] = 0
      <4>1. \A y \in Points : y > Len(P) => \A l \in 0..(k - 1) : M[y][l] = 0
        BY DEF Echelon
      <4>2. \A y \in Points : y >= r => y > Len(P)
        BY <1>1
      <4> QED BY <3>1, <4>1, <4>2
    <3>3. S[r][j] = 0
      BY <1>1, <1>3, <3>2
    <3>4. R[x][j] = S[x][j]
      BY <1>4, <3>1, <3>3
    <3>5. S[x][j] = 0
      <4>1. x # r /\ x >= r /\ r >= r
        BY <1>1, <1>7
      <4>2. M[x][j] = 0 /\ M[r][j] = 0
        BY <1>1, <3>2, <4>1
      <4> QED BY <1>2, <4>1, <4>2
    <3> QED BY <3>4, <3>5
  <2> QED BY <2>1, <2>2
<1>8. \A i \in 1..Len(A) : i = r \/ i \in 1..(r - 1)
  BY <1>5
<1>9. Echelon(R, A, k + 1)
  <2>1. ASSUME NEW i \in 1..Len(A), NEW x \in Points
        PROVE  R[x][A[i]] = IF x = i THEN 1 ELSE 0
    <3>1. CASE i = r
      BY <1>4, <1>5, <3>1
    <3>2. CASE i \in 1..(r - 1)
      BY <1>6, <3>2
    <3> QED BY <1>8, <3>1, <3>2
  <2>2. Len(A) <= code.m /\ \A x \in Points : x > Len(A) => x > r
    BY <1>1, <1>5
  <2> QED BY <1>5, <1>7, <2>1, <2>2 DEF Echelon
<1>10. \A z \in Assignments : Solves(z, R) <=> Solves(z, M)
  BY <1>2, <1>4
<1> QED BY <1>0, <1>4, <1>9, <1>10 DEF R, S, A

\* What is read from the echelon form is a solution, unless there is none.
LEMMA SolutionSolves ==
  ASSUME code \in Codes, system \in Matrices, Echelon(system, pivots, Unknowns), ~Inconsistent
  PROVE  Solution \in Assignments /\ Solves(Solution, system)
<1>0. PICK N \in Nat : N = Unknowns
  BY CodeFacts, UnknownsType
<1> DEFINE z == Solution
           P == pivots
<1>1. /\ code.d \in Nat /\ code.e \in Nat /\ code.m \in Nat /\ P \in Seq(0..(N - 1))
      /\ Len(P) \in Nat /\ DOMAIN P = 1..Len(P)
      /\ \A i \in 1..Len(P) : i \in Points /\ P[i] \in 0..(N - 1)
      /\ \A x \in Points : x \in Int
  BY <1>0, CodeFacts DEF Echelon, Points
<1>2. \A x \in Points : system[x] \in Rows /\ system[x][N] \in Field /\ system[x][N] \in Int
                        /\ \A k \in 0..(N - 1) : system[x][k] \in Field
  BY <1>0, FieldFacts DEF Matrices, Rows, Poly
<1>3. \A i \in 1..Len(P) : \A x \in Points : system[x][P[i]] = IF x = i THEN 1 ELSE 0
  BY DEF Echelon
<1>4. ASSUME NEW i \in 1..Len(P)
      PROVE  z[P[i]] = system[i][N]
  <2>1. \A j \in DOMAIN P : P[j] = P[i] => j = i
    BY <1>1, <1>3
  <2>2. (CHOOSE j \in DOMAIN P : P[j] = P[i]) = i
    BY <1>1, <2>1
  <2> QED BY <1>0, <1>1, <2>2 DEF Solution
<1>5. \A k \in 0..(N - 1) : (\A i \in 1..Len(P) : P[i] # k) => z[k] = 0
  BY <1>0, <1>1 DEF Solution
<1>6. z \in Assignments
  <2>1. z = [k \in 0..(N - 1) |-> z[k]]
    BY <1>0 DEF Solution
  <2> HIDE DEF z, P
  <2>2. \A k \in 0..(N - 1) : z[k] \in Field
    BY <1>1, <1>2, <1>4, <1>5, FieldFacts
  <2> QED BY <1>0, <2>1, <2>2 DEF Assignments
<1> HIDE DEF z, P
<1>7. ASSUME NEW x \in Points
      PROVE  Holds(system[x], z)
  <2>1. CASE x <= Len(P)
    <3> DEFINE J == P[x]
    <3>1. x \in 1..Len(P) /\ J \in 0..(N - 1)
      BY <1>1, <2>1, CodeFacts
    <3>2. system[x][J] = 1 /\ z[J] = system[x][N]
      BY <1>3, <1>4, <3>1
    <3>3. ASSUME NEW k \in 0..(Unknowns - 1), k # J
          PROVE  system[x][k] = 0 \/ z[k] = 0
      <4>1. CASE \E i \in 1..Len(P) : P[i] = k
        BY <1>3, <3>3, <4>1
      <4>2. CASE ~ \E i \in 1..Len(P) : P[i] = k
        BY <1>0, <1>5, <4>2
      <4> QED BY <4>1, <4>2
    <3> HIDE DEF J
    <3>4. Cong(Dot(system[x], z), system[x][J] * z[J])
      BY <1>0, <1>1, <1>2, <1>6, <3>1, <3>3, DotSparse
    <3>5. system[x][J] * z[J] = system[x][N]
      BY <1>2, <3>2
    <3>6. Dot(system[x], z) \in Field
      BY <1>1, <1>2, <1>6, DotType
    <3>7. Dot(system[x], z) = system[x][N]
      BY <1>2, <3>4, <3>5, <3>6, CongInField
    <3> QED BY <1>0, <3>7 DEF Holds
  <2>2. CASE ~(x <= Len(P))
    <3>1. \A k \in 0..(Unknowns - 1) : system[x][k] = 0
      BY <1>1, <2>2 DEF Echelon, P
    <3>2. -1 \notin 0..(Unknowns - 1)
      OBVIOUS
    <3>3. Dot(system[x], z) = 0
      BY <1>1, <1>2, <1>6, <3>1, <3>2, DotSparse
    <3>4. system[x][Unknowns] = 0
      BY <3>1 DEF Inconsistent
    <3> QED BY <3>3, <3>4 DEF Holds
  <2> QED BY <2>1, <2>2
<1>8. Solves(z, system)
  BY <1>7 DEF Solves, Holds
<1> QED BY <1>6, <1>8 DEF z

\* A system that has a solution is not found inconsistent.
LEMMA SolvableConsistent ==
  ASSUME code \in Codes, system \in Matrices, NEW z \in Assignments, Solves(z, system)
  PROVE  ~Inconsistent
<1> SUFFICES ASSUME NEW x \in Points, \A k \in 0..(Unknowns - 1) : system[x][k] = 0
             PROVE  system[x][Unknowns] = 0
  BY DEF Inconsistent
<1>1. system[x] \in Rows /\ code.d \in Nat /\ code.e \in Nat
  BY CodeFacts DEF Matrices
<1>2. -1 \notin 0..(Unknowns - 1)
  OBVIOUS
<1>3. Dot(system[x], z) = 0
  BY <1>1, <1>2, DotSparse
<1> QED BY <1>3 DEF Solves
-----------------------------------------------------------------------------
(* BerlekampWelch.  The polynomial that is read from the solution.         *)

\* The state BuildSystem, EliminateColumn and ReadSolution share.
Reading(word) ==
  /\ code \in Codes /\ code.m >= Unknowns /\ word \in [1..code.m -> Field]
  /\ Equivalent(system, word) /\ Echelon(system, pivots, Unknowns)

Quot == Divide(Numerator, Locator).quot
Rem == Divide(Numerator, Locator).rem

\* ReadSolution's test for word.
Found(word) ==
  /\ ~Inconsistent
  /\ \A k \in DOMAIN Rem : Rem[k] = 0
  /\ Cardinality(Mismatches(Quot, word)) <= code.e

\* What ReadSolution reads when the system is consistent.
LEMMA QuotientType ==
  ASSUME NEW word, Reading(word), ~Inconsistent
  PROVE  /\ Quot \in Poly(code.d) /\ DOMAIN Rem = 0..(code.d + code.e)
         /\ Solution \in Assignments /\ Solves(Solution, Original(word))
         /\ Numerator = Top(Solution) /\ Locator = Bottom(Solution)
<1>1. Solution \in Assignments /\ Solves(Solution, system)
  BY SolutionSolves DEF Reading, Equivalent
<1>2. Solves(Solution, Original(word))
  BY <1>1 DEF Reading, Equivalent
<1>3. Numerator = Top(Solution) /\ Locator = Bottom(Solution)
  BY DEF Numerator, Locator, Top, Bottom
<1>4. code \in Codes /\ code.d \in Nat /\ code.e \in Nat
  BY CodeFacts DEF Reading
<1>5. /\ Numerator \in Poly(code.d + code.e)
      /\ Locator \in Poly(code.e) /\ Locator[code.e] = 1
  BY <1>1, <1>3, <1>4, AssignmentParts
<1>6. Divide(Numerator, Locator) \in Partial
  BY <1>4, <1>5, DivisionExact
<1>7. Quot \in Poly(code.d) /\ DOMAIN Rem = 0..(code.d + code.e)
  BY <1>6 DEF Partial, Quot, Rem, Poly
<1> QED BY <1>1, <1>2, <1>3, <1>7

\* Where a polynomial is near the values, it is the one that is found.
LEMMA ReadRight ==
  ASSUME NEW word, Reading(word), NEW f \in Poly(code.d),
         Cardinality(Mismatches(f, word)) <= code.e
  PROVE  Found(word) /\ Quot = f
<1>1. code \in Codes /\ system \in Matrices
  BY DEF Reading, Equivalent
<1>2. PICK E : E \in Locators(f, word)
  BY <1>1, LocatorExists
<1>3. PICK z \in Assignments : Solves(z, Original(word))
  BY <1>1, <1>2, AnswerSolves DEF Reading
<1>4. Solves(z, system)
  BY <1>3 DEF Reading, Equivalent
<1>5. ~Inconsistent
  BY <1>1, <1>4, SolvableConsistent
<1>6. /\ Solution \in Assignments /\ Solves(Solution, Original(word))
      /\ Numerator = Top(Solution) /\ Locator = Bottom(Solution)
      /\ DOMAIN Rem = 0..(code.d + code.e)
  BY <1>5, QuotientType
<1>7. Quot = f /\ \A k \in 0..(code.d + code.e) : Rem[k] = 0
  BY <1>6, SolutionDecodes DEF Reading, Quot, Rem
<1> QED BY <1>5, <1>6, <1>7 DEF Found

-----------------------------------------------------------------------------
(* BerlekampWelch.  The states of a run of the decoder.                    *)

DecodeInputs ==
  /\ code \in Codes
  /\ words \in Inputs[code]
  /\ fast => Len(words) = 1
  /\ phase \in {"sample", "build", "eliminate", "read", "done"}

\* What is decoded so far is near the values.
UnderWay ==
  phase # "done" =>
    /\ result = {}
    /\ polys \in Seq(Poly(code.d)) /\ Len(polys) < Len(words)
    /\ \A k \in 1..Len(polys) : polys[k] \in Near(k)

\* The fast path was taken when it could be.
FastAnswer ==
  IF code.m > code.d /\ EnoughAgree(Interpolate(words[1]), words[1])
  THEN {<<Interpolate(words[1])>>} ELSE {}
FastFirst ==
  /\ phase = "sample" => fast
  /\ fast /\ phase \in {"build", "eliminate", "read"} => FastAnswer = {}
  /\ fast /\ phase = "done" /\ code.m < Unknowns => result = FastAnswer

Eliminating ==
  /\ phase \in {"eliminate", "read"} =>
       /\ code.m >= Unknowns
       /\ Equivalent(system, Word)
       /\ Echelon(system, pivots, IF phase = "read" THEN Unknowns ELSE col)
  /\ phase = "eliminate" => col \in 0..(Unknowns - 1) /\ Len(pivots) < code.m

DecodeInv == DecodeInputs /\ UnderWay /\ FastFirst /\ Eliminating /\ DecodesNearest
\* Every component has one value for each of the code's points.
LEMMA WordTypes ==
  ASSUME DecodeInputs
  PROVE  /\ code \in Codes /\ Len(words) \in Nat /\ Len(words) > 0
         /\ words \in Seq([1..code.m -> Field])
         /\ \A k \in 1..Len(words) : words[k] \in [1..code.m -> Field]
         /\ 1 \in 1..Len(words)
<1>1. words \in Seq([1..code.m -> Field]) /\ words # <<>> /\ code \in Codes
  BY CodeAssumption DEF DecodeInputs
<1>2. PICK T : T = [1..code.m -> Field]
  OBVIOUS
<1>3. words \in Seq(T) /\ words # <<>>
  BY <1>1, <1>2
<1>4. Len(words) \in Nat /\ Len(words) > 0 /\ \A k \in 1..Len(words) : words[k] \in T
  BY <1>3
<1> QED BY <1>1, <1>2, <1>4

\* No component of a decodable answer differs at more positions than all do.
LEMMA ComponentsNear ==
  ASSUME code \in Codes, NEW fs \in Decodable, Len(words) \in Nat, NEW k \in 1..Len(words)
  PROVE  fs[k] \in Near(k)
<1>1. /\ fs \in [1..Len(words) -> Poly(code.d)] /\ Cardinality(ErrorPositions(fs)) <= code.e
      /\ DOMAIN fs = 1..Len(words) /\ code.e \in Nat
  BY CodeFacts DEF Decodable
<1> DEFINE A == ErrorPositions(fs)
           B == Mismatches(fs[k], words[k])
<1>2. A \in SUBSET Points /\ B \in SUBSET A
  BY <1>1, MismatchSets DEF ErrorPositions
<1> HIDE DEF A, B
<1>3. IsFiniteSet(A) /\ IsFiniteSet(B) /\ Cardinality(B) <= Cardinality(A)
  BY <1>2, CodeFacts, FS_Subset
<1>4. Cardinality(A) \in Nat /\ Cardinality(B) \in Nat
  BY <1>3, FS_CardinalityType
<1>5. Cardinality(B) <= code.e
  BY <1>1, <1>3, <1>4 DEF A
<1> QED BY <1>1, <1>5 DEF B, Near

\* With enough points no more than one polynomial is near the values.
LEMMA NearUnique ==
  ASSUME code \in Codes, code.m >= Unknowns, NEW k, NEW f \in Near(k), NEW g \in Near(k)
  PROVE  f = g
<1> DEFINE a == Cardinality(Mismatches(f, words[k]))
           b == Cardinality(Mismatches(g, words[k]))
<1>1. /\ f \in Poly(code.d) /\ g \in Poly(code.d) /\ a \in Nat /\ b \in Nat
      /\ a <= code.e /\ b <= code.e
  BY MismatchSets DEF Near
<1>2. code.m \in Nat /\ code.d \in Nat /\ code.e \in Nat /\ code.m >= code.d + code.e + 1 + code.e
  BY CodeFacts, UnknownsType
<1> HIDE DEF a, b
<1>3. a + b + code.d < code.m
  BY <1>1, <1>2
<1> QED BY <1>1, <1>3, Overlap DEF a, b

\* The fast path counts agreements, the decoder errors.
LEMMA EnoughAgreeMeans ==
  ASSUME code \in Codes, NEW f, NEW word
  PROVE  EnoughAgree(f, word) <=> Cardinality(Mismatches(f, word)) <= code.e
BY MismatchSets, CodeFacts DEF EnoughAgree

\* One component: an answer is a polynomial near the values.
LEMMA OneComponent ==
  ASSUME DecodeInputs, Len(words) = 1
  PROVE  /\ \A f \in Near(1) : <<f>> \in Decodable
         /\ \A fs \in Decodable : fs = <<fs[1]>> /\ fs[1] \in Near(1)
<1>1. ASSUME NEW f \in Near(1)
      PROVE  <<f>> \in Decodable
  <2>1. f \in Poly(code.d) /\ Cardinality(Mismatches(f, words[1])) <= code.e
    BY DEF Near
  <2>2. <<f>> \in [1..Len(words) -> Poly(code.d)]
    BY <2>1
  <2>3. ErrorPositions(<<f>>) = Mismatches(f, words[1])
    BY DEF ErrorPositions
  <2> QED BY <2>1, <2>2, <2>3 DEF Decodable
<1>2. ASSUME NEW fs \in Decodable
      PROVE  fs = <<fs[1]>> /\ fs[1] \in Near(1)
  <2>1. fs \in [1..1 -> Poly(code.d)]
    BY DEF Decodable
  <2>2. fs = <<fs[1]>>
    BY <2>1
  <2>3. fs[1] \in Near(1)
    BY WordTypes, ComponentsNear
  <2> QED BY <2>2, <2>3
<1> QED BY <1>1, <1>2
\* A step of the decoder leaves the code and the values alone.
LEMMA DecodeFrame ==
  ASSUME code' = code, words' = words
  PROVE  /\ Points' = Points /\ Unknowns' = Unknowns /\ Rows' = Rows /\ Assignments' = Assignments
         /\ \A M, word : Equivalent(M, word)' <=> Equivalent(M, word)
         /\ \A M, P, k : Echelon(M, P, k)' <=> Echelon(M, P, k)
         /\ \A k : Near(k)' = Near(k)
         /\ Decodable' = Decodable
         /\ FastAnswer' = FastAnswer
<1>1. Points' = Points /\ Unknowns' = Unknowns /\ Rows' = Rows /\ Assignments' = Assignments
  BY DEF Points, Unknowns, Rows, Assignments, Poly
<1>2. \A row, z : Dot(row, z)' = Dot(row, z)
  BY DEF Dot, Unknowns
<1>3. \A M, z : Solves(z, M)' <=> Solves(z, M)
  BY <1>1, <1>2 DEF Solves
<1>4. \A f, word : Mismatches(f, word)' = Mismatches(f, word)
  BY DEF Mismatches, Points
<1>5. \A x, y : Row(x, y)' = Row(x, y)
  BY DEF Row, Powers, Unknowns
<1>6. \A word : Original(word)' = Original(word)
  BY <1>1, <1>5 DEF Original
<1>7. \A M, word : Equivalent(M, word)' <=> Equivalent(M, word)
  BY <1>1, <1>3, <1>6 DEF Equivalent, Matrices
<1>8. \A M, P, k : Echelon(M, P, k)' <=> Echelon(M, P, k)
  BY <1>1 DEF Echelon
<1>9. \A k : Near(k)' = Near(k)
  BY <1>4 DEF Near
<1>10. \A fs : ErrorPositions(fs)' = ErrorPositions(fs)
  BY <1>4 DEF ErrorPositions
<1>11. Decodable' = Decodable
  BY <1>10 DEF Decodable
<1>12. FastAnswer' = FastAnswer
  <2>1. \A word : Interpolate(word)' = Interpolate(word)
    BY DEF Interpolate
  <2>2. \A f, word : EnoughAgree(f, word)' <=> EnoughAgree(f, word)
    BY <1>4 DEF EnoughAgree
  <2>3. Interpolate(words[1])' = Interpolate(words[1])
    BY <2>1
  <2>4. EnoughAgree(Interpolate(words[1]), words[1])' <=> EnoughAgree(Interpolate(words[1]), words[1])
    BY <2>2, <2>3
  <2> QED BY <2>3, <2>4 DEF FastAnswer
<1> QED BY <1>1, <1>7, <1>8, <1>9, <1>11, <1>12

\* The invariant holds when decoding starts.
LEMMA DecodeInitially == DecodeInit => DecodeInv
<1> SUFFICES ASSUME DecodeInit PROVE DecodeInv
  OBVIOUS
<1>1. DecodeInputs /\ phase \in {"sample", "build"} /\ (phase = "sample" <=> fast)
  BY DEF DecodeInit, DecodeInputs
<1>2. UnderWay
  BY <1>1, WordTypes DEF DecodeInit, UnderWay
<1>3. FastFirst
  BY <1>1 DEF FastFirst
<1> QED BY <1>1, <1>2, <1>3 DEF DecodeInv, Eliminating, DecodesNearest

\* The fast path returns its candidate only if it is a right answer.
LEMMA SampleKeeps ==
  ASSUME DecodeInv, Sample
  PROVE  DecodeInv'
<1> DEFINE candidate == Interpolate(words[1])
           answers == code.m > code.d /\ EnoughAgree(candidate, words[1])
<1>1. /\ DecodeInputs /\ phase = "sample" /\ fast /\ Len(words) = 1 /\ result = {}
      /\ polys \in Seq(Poly(code.d)) /\ Len(polys) < Len(words)
      /\ \A k \in 1..Len(polys) : polys[k] \in Near(k)
      /\ words[1] \in [1..code.m -> Field] /\ code \in Codes
  BY WordTypes DEF DecodeInv, DecodeInputs, UnderWay, FastFirst, Sample
<1>2. /\ code' = code /\ words' = words /\ fast' = fast /\ polys' = polys
      /\ IF answers THEN phase' = "done" /\ result' = {<<candidate>>}
                    ELSE phase' = "build" /\ result' = result
  BY DEF Sample
<1>3. FastAnswer = IF answers THEN {<<candidate>>} ELSE {}
  BY DEF FastAnswer
<1>4. DecodeInputs'
  BY <1>1, <1>2 DEF DecodeInputs
<1>5. UnderWay'
  BY <1>1, <1>2, DecodeFrame DEF UnderWay
<1>6. FastFirst'
  BY <1>1, <1>2, <1>3, DecodeFrame DEF FastFirst
<1>7. Eliminating'
  BY <1>2 DEF Eliminating
<1>8. ASSUME answers
      PROVE  /\ {<<candidate>>} \subseteq Decodable
             /\ code.m >= Unknowns => {<<candidate>>} = Decodable
  <2>1. candidate \in Near(1)
    BY <1>1, <1>8, Candidate, EnoughAgreeMeans DEF Near
  <2>2. <<candidate>> \in Decodable
    BY <1>1, <2>1, OneComponent
  <2>3. ASSUME code.m >= Unknowns, NEW fs \in Decodable
        PROVE  fs = <<candidate>>
    BY <1>1, <2>1, <2>3, OneComponent, NearUnique
  <2> QED BY <2>2, <2>3
<1>9. DecodesNearest'
  BY <1>1, <1>2, <1>8, DecodeFrame DEF DecodesNearest
<1> QED BY <1>4, <1>5, <1>6, <1>7, <1>9 DEF DecodeInv

\* With too few points nothing is returned; with enough the elimination starts.
LEMMA BuildKeeps ==
  ASSUME DecodeInv, BuildSystem
  PROVE  DecodeInv'
<1>1. /\ DecodeInputs /\ phase = "build" /\ result = {}
      /\ polys \in Seq(Poly(code.d)) /\ Len(polys) < Len(words)
      /\ \A k \in 1..Len(polys) : polys[k] \in Near(k)
      /\ fast => FastAnswer = {}
      /\ code \in Codes /\ code.m \in Nat /\ code.m > 0
      /\ Word \in [1..code.m -> Field]
  <2>1. /\ DecodeInputs /\ phase = "build" /\ result = {}
        /\ polys \in Seq(Poly(code.d)) /\ Len(polys) < Len(words)
        /\ \A k \in 1..Len(polys) : polys[k] \in Near(k)
        /\ fast => FastAnswer = {}
    BY DEF DecodeInv, UnderWay, FastFirst, BuildSystem
  <2>2. Len(polys) \in Nat
    BY <2>1
  <2> QED BY <2>1, <2>2, WordTypes, CodeFacts DEF Word
<1>2. /\ code' = code /\ words' = words /\ fast' = fast /\ polys' = polys /\ result' = result
      /\ phase' \in {"done", "eliminate"}
      /\ phase' = "done" => code.m < Unknowns
  BY DEF BuildSystem
<1>3. DecodeInputs'
  BY <1>1, <1>2 DEF DecodeInputs
<1>4. UnderWay'
  BY <1>1, <1>2, DecodeFrame DEF UnderWay
<1>5. FastFirst'
  BY <1>1, <1>2, DecodeFrame DEF FastFirst
<1>6. DecodesNearest'
  <2>1. code.m >= Unknowns => ~(code.m < Unknowns)
    BY <1>1, CodeFacts, UnknownsType
  <2> QED BY <1>1, <1>2, <2>1, DecodeFrame DEF DecodesNearest
<1>7. ASSUME phase' = "eliminate"
      PROVE  /\ code.m >= Unknowns /\ system' = Original(Word) /\ col' = 0 /\ pivots' = <<>>
             /\ Equivalent(system', Word) /\ Echelon(system', pivots', col')
             /\ col' \in 0..(Unknowns - 1) /\ Len(pivots') < code.m
  <2>1. code.m >= Unknowns /\ system' = Original(Word) /\ col' = 0 /\ pivots' = <<>>
    BY <1>7 DEF BuildSystem, Original, Word
  <2>2. Original(Word) \in Matrices
    BY <1>1, OriginalRows
  <2>3. Equivalent(Original(Word), Word)
    BY <2>2 DEF Equivalent
  <2>4. Echelon(Original(Word), <<>>, 0)
    BY <1>1, <2>1 DEF Echelon
  <2>5. 0 \in 0..(Unknowns - 1)
    BY <1>1, CodeFacts, UnknownsType
  <2> QED BY <1>1, <2>1, <2>3, <2>4, <2>5
<1>8. Eliminating'
  BY <1>2, <1>7, DecodeFrame DEF Eliminating, Word
<1> QED BY <1>3, <1>4, <1>5, <1>6, <1>8 DEF DecodeInv

\* A column of the elimination keeps the solutions and extends the echelon form.
LEMMA EliminateKeeps ==
  ASSUME DecodeInv, EliminateColumn
  PROVE  DecodeInv'
<1> DEFINE r == Len(pivots) + 1
           candidates == {x \in r..code.m : system[x][col] # 0}
<1>1. /\ DecodeInputs /\ phase = "eliminate" /\ result = {}
      /\ polys \in Seq(Poly(code.d)) /\ Len(polys) < Len(words)
      /\ \A k \in 1..Len(polys) : polys[k] \in Near(k)
      /\ fast => FastAnswer = {}
      /\ code \in Codes /\ code.m >= Unknowns
      /\ Equivalent(system, Word) /\ Echelon(system, pivots, col)
      /\ col \in 0..(Unknowns - 1) /\ Len(pivots) < code.m
  BY DEF DecodeInv, DecodeInputs, UnderWay, FastFirst, Eliminating, EliminateColumn
<1>2. /\ code' = code /\ words' = words /\ fast' = fast /\ polys' = polys /\ result' = result
      /\ IF candidates = {} THEN system' = system /\ pivots' = pivots
         ELSE /\ system' = Reduce(Swap(system, r, Min(candidates)), r, col)
              /\ pivots' = Append(pivots, col)
      /\ col' = col + 1
      /\ phase' = IF col' = Unknowns \/ Len(pivots') = code.m THEN "read" ELSE phase
  BY DEF EliminateColumn
<1>3. DecodeInputs'
  BY <1>1, <1>2 DEF DecodeInputs
<1>4. UnderWay'
  BY <1>1, <1>2, DecodeFrame DEF UnderWay
<1>5. FastFirst'
  BY <1>1, <1>2, DecodeFrame DEF FastFirst
<1>6. DecodesNearest'
  BY <1>1, <1>2 DEF DecodesNearest
<1>7. system \in Matrices /\ Len(pivots) \in Nat /\ code.m \in Nat /\ Unknowns \in Nat /\ r \in Nat
  BY <1>1, CodeFacts, UnknownsType DEF Equivalent, Echelon
<1>8. Equivalent(system', Word) /\ Echelon(system', pivots', col + 1)
  <2>1. CASE candidates = {}
    <3>1. ASSUME NEW x \in Points, x > Len(pivots)
          PROVE  system[x][col] = 0
      <4>1. x \in r..code.m
        BY <1>1, <1>7, <3>1, CodeFacts
      <4> QED BY <2>1, <4>1
    <3>2. Echelon(system, pivots, col + 1)
      BY <1>1, <1>7, <3>1, EchelonGrows
    <3> QED BY <1>1, <1>2, <2>1, <3>2
  <2>2. CASE candidates # {}
    <3> DEFINE s == Min(candidates)
    <3>1. s \in candidates
      <4>1. candidates \in SUBSET Nat
        BY <1>7
      <4> HIDE DEF candidates
      <4>2. \E x \in candidates : \A y \in candidates : x <= y
        BY <2>2, <4>1, LeastNatural
      <4> QED BY <4>2 DEF Min
    <3>2. s \in r..code.m /\ system[s][col] # 0
      BY <3>1
    <3>3. /\ system' = Reduce(Swap(system, r, s), r, col)
          /\ pivots' = Append(pivots, col)
      BY <1>2, <2>2
    <3> HIDE DEF s, candidates
    <3>4. /\ system' \in Matrices
          /\ \A z \in Assignments : Solves(z, system') <=> Solves(z, system)
          /\ Echelon(system', pivots', col + 1)
      BY <1>1, <1>7, <3>2, <3>3, PivotStep
    <3> QED BY <1>1, <3>4 DEF Equivalent
  <2> QED BY <2>1, <2>2
<1>9. ASSUME phase' = "read"
      PROVE  Echelon(system', pivots', Unknowns)
  <2>1. col + 1 = Unknowns \/ Len(pivots') = code.m
    BY <1>1, <1>2, <1>9
  <2>2. CASE col + 1 = Unknowns
    BY <1>8, <2>2
  <2>3. CASE Len(pivots') = code.m
    BY <1>1, <1>8, <2>3, CodeFacts DEF Echelon
  <2> QED BY <2>1, <2>2, <2>3
<1>10. ASSUME phase' # "read"
       PROVE  phase' = "eliminate" /\ col' \in 0..(Unknowns - 1) /\ Len(pivots') < code.m
  <2>1. phase' = "eliminate" /\ col + 1 # Unknowns /\ Len(pivots') # code.m
    BY <1>1, <1>2, <1>10
  <2>2. Len(pivots') <= code.m /\ Len(pivots') \in Nat
    BY <1>8 DEF Echelon
  <2> QED BY <1>1, <1>2, <1>7, <2>1, <2>2
<1>11. Eliminating'
  BY <1>1, <1>2, <1>8, <1>9, <1>10, DecodeFrame DEF Eliminating, Word
<1> QED BY <1>3, <1>4, <1>5, <1>6, <1>11 DEF DecodeInv

\* A component's polynomial is the only one near its values, or there is none.
LEMMA ReadKeeps ==
  ASSUME DecodeInv, ReadSolution
  PROVE  DecodeInv'
<1> DEFINE i == Len(polys) + 1
<1>1. /\ DecodeInputs /\ phase = "read" /\ result = {}
      /\ polys \in Seq(Poly(code.d)) /\ Len(polys) < Len(words)
      /\ \A k \in 1..Len(polys) : polys[k] \in Near(k)
      /\ fast => FastAnswer = {}
      /\ code \in Codes /\ code.m >= Unknowns
      /\ Equivalent(system, Word) /\ Echelon(system, pivots, Unknowns)
  BY DEF DecodeInv, DecodeInputs, UnderWay, FastFirst, Eliminating, ReadSolution
<1>2. /\ code' = code /\ words' = words /\ fast' = fast
      /\ \/ Found(Word) /\ Finish(Append(polys, Quot))
         \/ ~Found(Word) /\ phase' = "done" /\ polys' = polys /\ result' = result
  BY DEF ReadSolution, Found, Quot, Rem, Word
<1>3. Len(polys) \in Nat /\ Len(words) \in Nat /\ i \in 1..Len(words) /\ Word = words[i]
  BY <1>1, WordTypes DEF Word
<1>4. Reading(Word)
  BY <1>1, <1>3, WordTypes DEF Reading
<1>5. \A f \in Near(i) : Found(Word) /\ Quot = f
  BY <1>3, <1>4, ReadRight DEF Near
<1>6. DecodeInputs'
  BY <1>1, <1>2 DEF DecodeInputs, Finish
<1>7. Eliminating' /\ (phase' = "build" \/ phase' = "done")
  BY <1>2 DEF Eliminating, Finish
\* No polynomial is found for a component: there is none for all of them.
<1>8. CASE ~Found(Word) /\ phase' = "done" /\ polys' = polys /\ result' = result
  <2>1. Decodable = {}
    BY <1>1, <1>3, <1>5, <1>8, ComponentsNear
  <2>2. ~(code.m < Unknowns)
    BY <1>1, CodeFacts, UnknownsType
  <2>3. UnderWay'
    BY <1>8 DEF UnderWay
  <2>4. FastFirst'
    BY <1>2, <1>8, <2>2, DecodeFrame DEF FastFirst
  <2>5. DecodesNearest'
    BY <1>1, <1>2, <1>8, <2>1, DecodeFrame DEF DecodesNearest
  <2> QED BY <1>6, <1>7, <2>3, <2>4, <2>5 DEF DecodeInv
<1>9. CASE Found(Word) /\ Finish(Append(polys, Quot))
  <2> DEFINE fs == Append(polys, Quot)
  <2>1. Quot \in Poly(code.d) /\ Quot \in Near(i)
    BY <1>3, <1>4, <1>9, QuotientType DEF Found, Near
  <2>2. /\ fs \in Seq(Poly(code.d)) /\ Len(fs) = i
        /\ \A k \in 1..i : fs[k] = IF k = i THEN Quot ELSE polys[k]
    <3>1. PICK T : T = Poly(code.d)
      OBVIOUS
    <3>2. polys \in Seq(T) /\ Quot \in T
      BY <1>1, <2>1, <3>1
    <3>3. fs \in Seq(T) /\ Len(fs) = i /\ \A k \in 1..i : fs[k] = IF k = i THEN Quot ELSE polys[k]
      BY <3>2
    <3> QED BY <3>1, <3>3
  <2> HIDE DEF fs
  <2>3. \A k \in 1..i : fs[k] \in Near(k)
    <3>1. \A k \in 1..i : k = i \/ k \in 1..Len(polys)
      BY <1>3
    <3> QED BY <1>1, <2>1, <2>2, <3>1
  <2>4. polys' = fs
    BY <1>9 DEF Finish, fs
  <2>5. CASE Len(fs) < Len(words)
    <3>1. phase' = "build" /\ result' = {}
      BY <1>1, <1>9, <2>5 DEF Finish, fs
    <3>2. UnderWay'
      BY <1>2, <2>2, <2>3, <2>4, <2>5, <3>1, DecodeFrame DEF UnderWay
    <3>3. FastFirst'
      BY <1>1, <1>2, <3>1, DecodeFrame DEF FastFirst
    <3>4. DecodesNearest'
      BY <3>1 DEF DecodesNearest
    <3> QED BY <1>6, <1>7, <3>2, <3>3, <3>4 DEF DecodeInv
  <2>6. CASE ~(Len(fs) < Len(words))
    <3>1. i = Len(words)
      BY <1>3, <2>2, <2>6
    <3>2. /\ phase' = "done"
          /\ result' = IF Cardinality(ErrorPositions(fs)) <= code.e THEN {fs} ELSE {}
      BY <1>9, <2>6 DEF Finish, fs
    <3>3. fs \in [1..Len(words) -> Poly(code.d)] /\ fs = [k \in 1..Len(words) |-> fs[k]]
      <4>1. PICK T : T = Poly(code.d)
        OBVIOUS
      <4>2. fs \in Seq(T) /\ Len(fs) = Len(words)
        BY <2>2, <3>1, <4>1
      <4>3. fs \in [1..Len(words) -> T]
        BY <4>2
      <4> QED BY <4>1, <4>3
    <3>4. result' \subseteq Decodable
      BY <3>2, <3>3 DEF Decodable
    <3>5. ASSUME NEW gs \in Decodable
          PROVE  gs \in result'
      <4>1. gs = [k \in 1..Len(words) |-> gs[k]] /\ Cardinality(ErrorPositions(gs)) <= code.e
        BY DEF Decodable
      <4>2. ASSUME NEW k \in 1..Len(words)
            PROVE  gs[k] = fs[k]
        <5>1. gs[k] \in Near(k) /\ fs[k] \in Near(k)
          BY <1>1, <1>3, <2>3, <3>1, ComponentsNear
        <5> QED BY <1>1, <5>1, NearUnique
      <4>3. gs = fs
        BY <3>3, <4>1, <4>2
      <4> QED BY <3>2, <4>1, <4>3
    <3>6. DecodesNearest'
      BY <1>2, <3>4, <3>5, DecodeFrame DEF DecodesNearest
    <3>7. FastFirst'
      <4>1. ~(code.m < Unknowns)
        BY <1>1, CodeFacts, UnknownsType
      <4> QED BY <1>2, <3>2, <4>1, DecodeFrame DEF FastFirst
    <3>8. UnderWay'
      BY <3>2 DEF UnderWay
    <3> QED BY <1>6, <1>7, <3>6, <3>7, <3>8 DEF DecodeInv
  <2> QED BY <2>5, <2>6
<1> QED BY <1>2, <1>8, <1>9

\* The invariant of every run of the decoder.
LEMMA DecodeInvariant == DecodeSpec => []DecodeInv
<1>1. DecodeInit => DecodeInv
  BY DecodeInitially
<1>2. DecodeInv /\ [DecodeNext]_decodeVars => DecodeInv'
  <2> SUFFICES ASSUME DecodeInv, [DecodeNext]_decodeVars
               PROVE  DecodeInv'
    OBVIOUS
  <2>1. CASE Sample
    BY <2>1, SampleKeeps
  <2>2. CASE BuildSystem
    BY <2>2, BuildKeeps
  <2>3. CASE EliminateColumn
    BY <2>3, EliminateKeeps
  <2>4. CASE ReadSolution
    BY <2>4, ReadKeeps
  <2>5. CASE UNCHANGED decodeVars
    <3>1. /\ code' = code /\ words' = words /\ fast' = fast /\ phase' = phase /\ system' = system
          /\ col' = col /\ pivots' = pivots /\ polys' = polys /\ result' = result
      BY <2>5 DEF decodeVars
    <3>2. DecodeInputs' /\ UnderWay' /\ FastFirst' /\ Eliminating' /\ DecodesNearest'
      BY <3>1, DecodeFrame
      DEF DecodeInv, DecodeInputs, UnderWay, FastFirst, Eliminating, DecodesNearest, Word
    <3> QED BY <3>2 DEF DecodeInv
  <2> QED BY <2>1, <2>2, <2>3, <2>4, <2>5 DEF DecodeNext
<1> QED BY <1>1, <1>2, PTL DEF DecodeSpec

\* For every prime, code and word of values: berlekamp_welch_decode and its vector
\* form return the polynomials within max_errors of the values when the code has
\* d + 2e + 1 points at least and there are any, None when there are none, and
\* with fewer points never a polynomial that is further away.
THEOREM NearestIsDecoded == DecodeSpec => []DecodesNearest
<1>1. DecodeInv => DecodesNearest
  BY DEF DecodeInv
<1> QED BY <1>1, DecodeInvariant, PTL

\* For every prime, code and word of values: no step of solve_linear_mod loses the
\* right polynomial, times any monic locator of the wrong values.
THEOREM AnswersSurvive == DecodeSpec => []AnswerIsKept
<1>1. DecodeInv => AnswerIsKept
  <2> SUFFICES ASSUME DecodeInv, phase \in {"eliminate", "read"},
                      NEW f \in Near(Len(polys) + 1), NEW E \in Locators(f, Word)
               PROVE  Solves(Answer(Product(code.d, f, E), E), system)
    BY DEF AnswerIsKept, Answer, Word
  <2>1. /\ DecodeInputs /\ Equivalent(system, Word) /\ f \in Poly(code.d)
        /\ polys \in Seq(Poly(code.d)) /\ Len(polys) < Len(words)
    BY DEF DecodeInv, UnderWay, Eliminating, Near
  <2>2. Len(polys) + 1 \in 1..Len(words)
    BY <2>1, WordTypes
  <2>3. code \in Codes /\ Word \in [1..code.m -> Field]
    BY <2>1, <2>2, WordTypes DEF Word
  <2> QED BY <2>1, <2>3, AnswerSolves DEF Equivalent
<1> QED BY <1>1, DecodeInvariant, PTL

\* A polynomial through the first d + 1 values differs from the others at most.
LEMMA SampleErrors ==
  ASSUME code \in Codes, code.m > code.d, NEW f, NEW word,
         \A x \in 1..(code.d + 1) : Eval(code.d, f, code.at[x]) = word[x]
  PROVE  code.m >= code.d + 1 + Cardinality(Mismatches(f, word))
<1> DEFINE S == Mismatches(f, word)
           L == (code.d + 2)..code.m
<1>1. code.m \in Nat /\ code.d \in Nat /\ code.d + 2 \in Int /\ code.m \in Int
  BY CodeFacts
<1>2. S \in SUBSET L
  <2> SUFFICES ASSUME NEW x \in S PROVE x \in L
    OBVIOUS
  <2>1. x \in Points /\ x \in Int /\ 1 <= x /\ x <= code.m /\ x \notin 1..(code.d + 1)
    BY CodeFacts DEF Mismatches
  <2> QED BY <1>1, <2>1
<1> HIDE DEF S
<1>3. IsFiniteSet(L) /\ Cardinality(L) <= code.m - code.d - 1 /\ Cardinality(L) \in Nat
  <2>1. IsFiniteSet(L) /\ Cardinality(L) = IF code.d + 2 > code.m THEN 0 ELSE code.m - (code.d + 2) + 1
    BY <1>1, FS_Interval
  <2>2. Cardinality(L) \in Nat
    BY <2>1, FS_CardinalityType
  <2> HIDE DEF L
  <2> QED BY <1>1, <2>1, <2>2
<1>4. Cardinality(S) <= Cardinality(L) /\ Cardinality(S) \in Nat
  <2> HIDE DEF L
  <2>1. IsFiniteSet(S) /\ Cardinality(S) <= Cardinality(L)
    BY <1>2, <1>3, FS_Subset
  <2> QED BY <2>1, FS_CardinalityType
<1> QED BY <1>1, <1>3, <1>4 DEF S

\* For every prime, code and word of values: what berlekamp_welch_decode returns is
\* one of the Outcomes with which the protocol models replace it.
THEOREM OutcomesSound == DecodeSpec => []OutcomesCover
<1>1. DecodeInv => OutcomesCover
  <2> SUFFICES ASSUME DecodeInv, phase = "done", fast, NEW f \in Poly(code.d)
               PROVE  (CASE result = {} -> "none" [] result = {<<f>>} -> "right" [] OTHER -> "wrong")
                        \in Outcomes(code.m, code.d, code.e, Cardinality(Mismatches(f, words[1])))
    BY DEF OutcomesCover
  <2>1. /\ DecodeInputs /\ Len(words) = 1 /\ code \in Codes
        /\ result \subseteq Decodable /\ (code.m >= Unknowns => result = Decodable)
        /\ code.m < Unknowns => result = FastAnswer
        /\ words[1] \in [1..code.m -> Field]
    BY WordTypes DEF DecodeInv, DecodeInputs, FastFirst, DecodesNearest
  <2> DEFINE word == words[1]
             k == Cardinality(Mismatches(f, word))
             c == Interpolate(word)
  <2>2. PICK m \in Nat, d1 \in Nat, e \in Nat :
          m = code.m /\ d1 = code.d /\ e = code.e /\ Unknowns = d1 + 2 * e + 1
    BY <2>1, CodeFacts DEF Unknowns
  <2>3. k \in Nat
    BY <2>1, MismatchSets
  <2>4. \A g \in Near(1) : g # f => m <= d1 + e + k
    <3> SUFFICES ASSUME NEW g \in Near(1), g # f PROVE m <= d1 + e + k
      OBVIOUS
    <3> DEFINE b == Cardinality(Mismatches(g, word))
    <3>1. g \in Poly(code.d) /\ b \in Nat /\ b <= e
      BY <2>1, <2>2, MismatchSets DEF Near
    <3>2. ~(k + b + code.d < code.m)
      BY <2>1, <3>1, Overlap
    <3> HIDE DEF k, b
    <3> QED BY <2>2, <2>3, <3>1, <3>2
  <2>5. m > d1 => /\ c \in Poly(code.d)
                  /\ k = 0 => f = c
                  /\ f = c => m >= d1 + 1 + k
    <3> SUFFICES ASSUME m > d1
                 PROVE  c \in Poly(code.d) /\ (k = 0 => f = c) /\ (f = c => m >= d1 + 1 + k)
      OBVIOUS
    <3>1. /\ c \in Poly(code.d) /\ \A x \in 1..(code.d + 1) : Eval(code.d, c, code.at[x]) = word[x]
          /\ (\A x \in 1..(code.d + 1) : Eval(code.d, f, code.at[x]) = word[x]) => f = c
      BY <2>1, <2>2, Candidate
    <3>2. ASSUME k = 0, NEW x \in 1..(code.d + 1)
          PROVE  Eval(code.d, f, code.at[x]) = word[x]
      <4>1. Mismatches(f, word) = {}
        BY <2>1, <3>2, MismatchSets, FS_EmptySet
      <4>2. x \in Points
        BY <2>2 DEF Points
      <4> QED BY <4>1, <4>2 DEF Mismatches
    <3>3. f = c => m >= d1 + 1 + k
      BY <2>1, <2>2, <3>1, SampleErrors
    <3> QED BY <3>1, <3>2, <3>3
  <2>6. f \in Near(1) <=> k <= e
    BY <2>2 DEF Near
  <2>7. \A fs \in result : fs = <<fs[1]>> /\ fs[1] \in Near(1)
    BY <2>1, OneComponent
  <2>8. m >= Unknowns /\ k <= e => result = {<<f>>}
    <3> SUFFICES ASSUME m >= Unknowns, k <= e PROVE result = {<<f>>}
      OBVIOUS
    <3>1. <<f>> \in result
      BY <2>1, <2>2, <2>6, OneComponent
    <3>2. \A fs \in result : fs[1] = f
      BY <2>1, <2>2, <2>6, <2>7, NearUnique
    <3> QED BY <2>7, <3>1, <3>2
  <2>9. m < Unknowns => result = IF m > d1 /\ Cardinality(Mismatches(c, word)) <= e
                                 THEN {<<c>>} ELSE {}
    BY <2>1, <2>2, EnoughAgreeMeans DEF FastAnswer
  <2> HIDE DEF k, c
  <2>10. CASE result = {}
    <3>1. m <= d1 \/ k > e \/ (k > 0 /\ m <= d1 + 2 * e)
      <4>1. CASE m >= Unknowns
        <5>1. ~(k <= e)
          BY <2>8, <2>10, <4>1
        <5> QED BY <2>2, <2>3, <5>1
      <4>2. CASE m < Unknowns
        <5>1. ~(m > d1 /\ Cardinality(Mismatches(c, word)) <= e)
          BY <2>9, <2>10, <4>2
        <5>2. m > d1 /\ k = 0 => Cardinality(Mismatches(c, word)) = 0
          BY <2>5 DEF k
        <5>3. m > d1 => k # 0
          BY <2>2, <5>1, <5>2
        <5> QED BY <2>2, <2>3, <4>2, <5>3
      <4> QED BY <2>2, <4>1, <4>2
    <3>2. "none" \in Outcomes(m, d1, e, k)
      BY <3>1 DEF Outcomes
    <3> QED BY <2>2, <2>10, <3>2 DEF k
  <2>11. CASE result = {<<f>>}
    <3>1. f \in Near(1) /\ k <= e
      BY <2>6, <2>7, <2>11
    <3>2. m >= d1 + 1 + k
      <4>1. CASE m >= Unknowns
        BY <2>2, <2>3, <3>1, <4>1
      <4>2. CASE m < Unknowns
        <5>1. m > d1 /\ <<f>> = <<c>>
          BY <2>9, <2>11, <4>2
        <5> QED BY <2>5, <5>1
      <4> QED BY <2>2, <4>1, <4>2
    <3>3. "right" \in Outcomes(m, d1, e, k)
      BY <3>1, <3>2 DEF Outcomes
    <3> QED BY <2>2, <2>11, <3>3 DEF k
  <2>12. CASE result # {} /\ result # {<<f>>}
    <3>1. PICK fs \in result : fs[1] # f
      BY <2>7, <2>12
    <3>2. fs[1] \in Near(1) /\ m <= d1 + e + k
      BY <2>4, <2>7, <3>1
    <3>3. k > 0 /\ d1 + 1 <= m
      <4>1. CASE m >= Unknowns
        BY <2>2, <2>3, <2>8, <2>12, <4>1
      <4>2. CASE m < Unknowns
        <5>1. m > d1 /\ result = {<<c>>}
          BY <2>9, <2>12, <4>2
        <5>2. f # c
          BY <2>12, <5>1
        <5> QED BY <2>2, <2>3, <2>5, <5>1, <5>2
      <4> QED BY <2>2, <4>1, <4>2
    <3>4. "wrong" \in Outcomes(m, d1, e, k)
      BY <3>2, <3>3 DEF Outcomes
    <3> QED BY <2>2, <2>12, <3>4 DEF k
  <2> QED BY <2>10, <2>11, <2>12
<1> QED BY <1>1, DecodeInvariant, PTL
=============================================================================
