-------------------------------- MODULE Vss --------------------------------
(***************************************************************************)
(* One instance of verifiable secret sharing (protocols/vss.py): run_vss   *)
(* at every node.  Node k plays P_k of three consecutive committees in     *)
(* turn: it forwards its slice of the dealer's polynomial as lines (com1), *)
(* decodes its column of lines, broadcasts the rows it complains about and *)
(* forwards the values of its lines (com2), and from everybody's complaints*)
(* and values reconstructs its share (com3).                               *)
(*                                                                         *)
(* Field elements and polynomials are abstracted to right or wrong: equal  *)
(* to what the dealer's polynomial gives, or not (an invalid line, replaced*)
(* by 0, is wrong).  A message is in the set of those sent from the moment *)
(* its sender has sent it; a receiver that has not acted yet stands for a  *)
(* message still on its way, and a receiver that times out for a lost one. *)
(***************************************************************************)
EXTENDS Integers, FiniteSets, Covers

CONSTANTS
  n, t,        \* parties per committee; errors each decoding corrects
  Dealer,
  ByzRow,      \* com1 parties that run the byzantine_com1_rank branch
  ByzCol,      \* com2 parties that do not run this code
  Targets,     \* bound: what faulty parties send wrong lines to, and accuse
  MayFail,     \* bound: nodes whose run may end in an exception
  CoverOf      \* CoverOf[E]: minimum_vertex_cover_from_complaints

Party == 1..n

Covers == [U : SUBSET Party, V : SUBSET Party]

\* The complaints there can be while every column that runs the code is right
\* about whom it accuses, and the covers worth comparing theirs with.
Possible == SUBSET ((ByzRow \X Targets) \union (Targets \X ByzCol))
Rivals == [U : SUBSET (ByzRow \union Targets), V : SUBSET (Targets \union ByzCol)]

\* run_vss_party refuses any other number of parties.
ASSUME PartyAssumption ==
  /\ n \in Nat /\ t \in Nat /\ n >= 4 * t + 1
  /\ Dealer \in Party
  /\ ByzRow \subseteq Party /\ ByzCol \subseteq Party /\ Targets \subseteq Party

\* What theorem CoverForVss says of the code's algorithm, whatever the complaints.
ASSUME CoverAssumption ==
  \A E \in Possible :
    LET found == CoverOf[E]
    IN  /\ found \in Covers
        /\ IsCover(E, found)
        /\ \A c \in Rivals : IsCover(E, c) => Size(found) <= Size(c)

VARIABLES
  pc,          \* pc[k]: the stage node k is in
  slices,      \* parties whose slice the dealer has sent
  lines,       \* com1 parties that have sent their lines
  wrong,       \* wrong[i]: columns to which com1 party i sent a wrong line
  accusers,    \* com2 parties whose ij_set has been broadcast
  accused,     \* accused[j]: the rows in that set
  scalars,     \* com2 parties that have sent the values of their lines
  cover,       \* cover[k]: the cover node k computed
  share        \* share[k]: "none", or what node k's share is

vars == <<pc, slices, lines, wrong, accusers, accused, scalars, cover, share>>

Stage == {"com1", "com2", "scalars", "public", "com3", "done", "failed"}
NoCover == [U |-> {}, V |-> {}]

Init ==
  /\ pc = [k \in Party |-> "com1"]
  /\ slices = {}
  /\ lines = {}
  /\ wrong = [i \in Party |-> {}]
  /\ accusers = {}
  /\ accused = [j \in Party |-> {}]
  /\ scalars = {}
  /\ cover = [k \in Party |-> NoCover]
  /\ share = [k \in Party |-> "none"]

Go(k, from, to) == pc[k] = from /\ pc' = [pc EXCEPT ![k] = to]

-----------------------------------------------------------------------------
(* Decoding.                                                               *)

\* berlekamp_welch_decode with m points, e of them wrong, degree t and at most
\* t errors.  Another polynomial agrees with the right one in t points at most,
\* and is only returned if it agrees with m - t points.
Decode_FewerErrors(m, e) == IF e < t THEN {"right"} ELSE {"none"}

Decode(m, e) ==
  IF e <= t THEN {"right"}
  ELSE {"none"} \union (IF e >= m - 2 * t THEN {"wrong"} ELSE {})

\* Rows whose line to column j is wrong.
WrongRows(j) == {i \in Party : j \in wrong[i]}

Complaints_InvalidOnly(j) == {{}}

\* _com2_process_column: the rows that differ from the decoded column; all of
\* them when nothing is decoded, any t of them when something else is.
Complaints(j) ==
  LET decoded == Decode(n, Cardinality(WrongRows(j)))
  IN  {B \in SUBSET Party :
         \/ "right" \in decoded /\ B = WrongRows(j)
         \/ "none" \in decoded /\ B = Party
         \/ "wrong" \in decoded /\ Cardinality(B) <= t}

-----------------------------------------------------------------------------
(* The stages.                                                             *)

Deal_ToOthers(i) ==
  /\ pc[Dealer] # "failed"
  /\ i \notin slices /\ i # Dealer
  /\ slices' = slices \union {i}
  /\ UNCHANGED <<pc, lines, wrong, accusers, accused, scalars, cover, share>>

\* The dealer's slices are sent by one task per destination.
Deal(i) ==
  /\ pc[Dealer] # "failed"
  /\ i \notin slices
  /\ slices' = slices \union {i}
  /\ UNCHANGED <<pc, lines, wrong, accusers, accused, scalars, cover, share>>

\* _com1_forward_slice.  The dealer's node starts once it has dealt.
Com1ForwardSlice(k) ==
  /\ Go(k, "com1", "com2")
  /\ k \in slices
  /\ k = Dealer => slices = Party
  /\ lines' = lines \union {k}
  /\ \E W \in IF k \in ByzRow THEN SUBSET Targets ELSE {{}} :
       wrong' = [wrong EXCEPT ![k] = W]
  /\ UNCHANGED <<slices, accusers, accused, scalars, cover, share>>

\* _com2_process_column, and the broadcast of its result, which comes before
\* the scalars.
Com2ProcessColumn(k) ==
  /\ Go(k, "com2", "scalars")
  /\ lines = Party
  /\ accusers' = accusers \union {k}
  /\ \E B \in IF k \in ByzCol THEN SUBSET Targets ELSE Complaints(k) :
       accused' = [accused EXCEPT ![k] = B]
  /\ UNCHANGED <<slices, lines, wrong, scalars, cover, share>>

\* The values of the lines as they were received, whatever is wrong with them.
Com2SendScalars(k) ==
  /\ Go(k, "scalars", "public")
  /\ scalars' = scalars \union {k}
  /\ UNCHANGED <<slices, lines, wrong, accusers, accused, cover, share>>

\* build_disagreement_matrix
Disagreement == {e \in Party \X Party : e[1] \in accused[e[2]]}

GivenUp_OneSide(c) == Size(c) > t

GivenUp(c) == Size(c) > 2 * t

Public_Early(k) ==
  /\ pc[k] = "public"
  /\ LET c == CoverOf[Disagreement]
     IN  /\ cover' = [cover EXCEPT ![k] = c]
         /\ Go(k, "public", IF GivenUp(c) THEN "done" ELSE "com3")
         /\ share' = IF GivenUp(c) THEN [share EXCEPT ![k] = "default"] ELSE share
  /\ UNCHANGED <<slices, lines, wrong, accusers, accused, scalars>>

\* _collect_ij_sets and retained_sets_from_complaints.  Without retained sets
\* the share is the default one and no scalar is waited for.
Public(k) ==
  /\ accusers = Party
  /\ pc[k] = "public"
  /\ LET c == CoverOf[Disagreement]
     IN  /\ cover' = [cover EXCEPT ![k] = c]
         /\ \/ /\ ~GivenUp(c)
               /\ Go(k, "public", "com3")
               /\ UNCHANGED share
            \/ /\ GivenUp(c)
               /\ Go(k, "public", "done")
               /\ share' = [share EXCEPT ![k] = "default"]
  /\ UNCHANGED <<slices, lines, wrong, accusers, accused, scalars>>

\* Columns whose value for row i may be wrong: a wrong line may still have the
\* right value at k, and a column that does not run this code sends anything.
Suspect(i) == ByzCol \union wrong[i]

RowOutcomes(i) == UNION {Decode(n, e) : e \in 0..Cardinality(Suspect(i))}

Retained_Columns(c) == Party \ c.V

Retained(c) == Party \ c.U

\* Retained rows that need not be decoded right, and the sets of those that are.
Unsure(c) == {i \in Retained(c) : RowOutcomes(i) # {"right"}}
RightRows(c) == {(Retained(c) \ Unsure(c)) \union S : S \in SUBSET Unsure(c)}

\* The first m members of S.
First(S, m) == {i \in S : Cardinality({j \in S : j < i}) < m}

ShareOutcomes_AnyRows(c, right, bad) ==
  IF First(Retained(c), t + 1) \subseteq right THEN {"right"} ELSE {"right", "wrong"}

\* reconstruct_share_at_z: each retained row is decoded over all columns; then
\* t + 1 decoded rows are interpolated, or, when more than t columns are
\* covered, all retained rows are decoded, the failed ones counting as 0.
ShareOutcomes(c, right, bad) ==
  LET decoded == right \union bad
      points  == Cardinality(Retained(c))
  IN  IF Cardinality(c.V) <= t
      THEN IF Cardinality(decoded) < t + 1 THEN {"default"}
           ELSE IF First(decoded, t + 1) \subseteq right THEN {"right"}
           ELSE {"right", "wrong"}
      ELSE IF points < 3 * t + 1 THEN {"default"}
           ELSE {IF d = "none" THEN "default" ELSE d :
                   d \in UNION {Decode(points, e) :
                           e \in Cardinality(bad)..(points - Cardinality(right))}}

\* What decoding the retained rows may give: rows decoded right, rows decoded
\* as something else, and the others not at all.
RowResults(c) ==
  {r \in [right : RightRows(c), bad : SUBSET Unsure(c)] :
     /\ r.right \intersect r.bad = {}
     /\ \A i \in r.right : "right" \in RowOutcomes(i)
     /\ \A i \in r.bad : "wrong" \in RowOutcomes(i)
     /\ \A i \in Retained(c) \ (r.right \union r.bad) : "none" \in RowOutcomes(i)}

Shares(c) == UNION {ShareOutcomes(c, r.right, r.bad) : r \in RowResults(c)}

\* _com3_reconstruct_share
Com3Reconstruct(k) ==
  /\ Go(k, "com3", "done")
  /\ scalars = Party
  /\ \E s \in Shares(cover[k]) : share' = [share EXCEPT ![k] = s]
  /\ UNCHANGED <<slices, lines, wrong, accusers, accused, scalars, cover>>

\* A receive times out, or a send raises; the run of the node ends.
Fail(k) ==
  /\ k \in MayFail
  /\ pc[k] \notin {"done", "failed"}
  /\ pc' = [pc EXCEPT ![k] = "failed"]
  /\ UNCHANGED <<slices, lines, wrong, accusers, accused, scalars, cover, share>>

Step(k) ==
  \/ Com1ForwardSlice(k)
  \/ Com2ProcessColumn(k)
  \/ Com2SendScalars(k)
  \/ Public(k)
  \/ Com3Reconstruct(k)

Next ==
  \/ \E i \in Party : Deal(i)
  \/ \E k \in Party : Step(k)
  \/ \E k \in Party : Fail(k)

Spec == Init /\ [][Next]_vars

\* As long as a task can run, one of those that can is run.
FairSpec ==
  Spec /\ WF_vars((\E i \in Party : Deal(i)) \/ (\E k \in Party : Step(k)))

-----------------------------------------------------------------------------
(* Properties.                                                             *)

\* The faults the protocol is built for: t parties of each committee.
FaultBound == Cardinality(ByzRow) <= t /\ Cardinality(ByzCol) <= t

TypeOK ==
  /\ pc \in [Party -> Stage]
  /\ slices \subseteq Party
  /\ lines \subseteq Party
  /\ wrong \in [Party -> SUBSET Party]
  /\ accusers \subseteq Party
  /\ accused \in [Party -> SUBSET Party]
  /\ scalars \subseteq Party
  /\ cover \in [Party -> Covers]
  /\ share \in [Party -> {"none", "right", "wrong", "default"}]

Decided(k) == pc[k] = "com3" \/ share[k] # "none"

\* A column that runs the code accuses exactly the rows that sent it a wrong
\* line; no row that follows the protocol is left out because of it.
AccusesWrongRows ==
  \A j \in accusers \ ByzCol : accused[j] = WrongRows(j)

\* All nodes leave out the same rows and columns: otherwise their shares would
\* be points of different polynomials.
CoverAgreement ==
  \A k, l \in Party : Decided(k) /\ Decided(l) => cover[k] = cover[l]

\* Within the fault bound, the complaints never add up to a cover so large that
\* a node gives up and takes the default share.
NobodyGivesUp == \A k \in Party : Decided(k) => ~GivenUp(cover[k])

\* What a retained row may have wrong lies in the covered columns and in those
\* of faulty column parties, never in so many that another row is decoded.
ErrorsCovered ==
  \A k \in Party : Decided(k) =>
    \A i \in Retained(cover[k]) :
      /\ Suspect(i) \subseteq cover[k].V \union ByzCol
      /\ Cardinality(Suspect(i)) <= 2 * t

\* The run of a node never ends with a share that is not the dealer's.
SharesRight == \A k \in Party : share[k] \in {"none", "right"}

Ideal == INSTANCE VssIdeal
         WITH Parties <- Party, dealt <- slices = Party, out <- share

ImplementsIdeal == Ideal!IdealSpec

\* When no receive times out, every node ends with a share.
Termination ==
  <>((\E k \in Party : pc[k] = "failed") \/ (\A k \in Party : pc[k] = "done"))
=============================================================================
