------------------------------ MODULE VssBatch ------------------------------
(***************************************************************************)
(* Verifiable secret sharing of a vector of secrets (run_vss_batch in      *)
(* protocols/vss.py).  The nodes go through the stages of run_vss once;    *)
(* each message carries the lines, complaints or values of all secrets.    *)
(* Decoding, the cover and the retained sets are those of each secret, and *)
(* a node that gives some of them up waits for the values of the others.   *)
(*                                                                         *)
(* One(b) is the run of run_vss that secret b sees: module Vss, of which   *)
(* this module takes what a stage computes from the messages it receives.  *)
(***************************************************************************)
EXTENDS Integers, FiniteSets

CONSTANTS
  n, t, Dealer, ByzRow, ByzCol, Targets, MayFail, CoverOf,  \* as in Vss
  Batch,       \* the secrets, by their index
  Chosen,      \* any one of them
  Lies         \* bound: the columns a faulty row may lie to about one secret

Party == 1..n

\* run_vss_batch refuses an empty vector; run_vss_party_batch another n.
ASSUME BatchAssumption ==
  /\ Chosen \in Batch
  /\ n \in Nat /\ t \in Nat /\ n >= 4 * t + 1
  /\ Dealer \in Party
  /\ Lies \subseteq SUBSET Targets /\ Targets \subseteq Party

VARIABLES
  pc,          \* pc[k]: the stage node k is in
  slices,      \* parties whose slices the dealer has sent
  lines,       \* com1 parties that have sent their lines
  wrong,       \* wrong[i][b]: columns to which i sent a wrong line of secret b
  accusers,    \* com2 parties whose ij_set_batch has been broadcast
  accused,     \* accused[j][b]: the rows in it for secret b
  scalars,     \* com2 parties that have sent their table of values
  cover,       \* cover[k][b]: the cover node k computed for secret b
  share        \* share[k][b]: node k's share of secret b

vars == <<pc, slices, lines, wrong, accusers, accused, scalars, cover, share>>

NoCover == [U |-> {}, V |-> {}]

\* retained_sets_from_complaints found no sets to retain.
GivenUp(c) == Cardinality(c.U) + Cardinality(c.V) > 2 * t

\* The run of Vss that one secret sees.  A secret that was given up has its
\* share, the default, from then on.
PcOf(b)    == [k \in Party |-> IF GivenUp(cover[k][b]) THEN "done" ELSE pc[k]]
ShareOf(b) == [k \in Party |-> IF GivenUp(cover[k][b]) THEN "default" ELSE share[k][b]]
Of(x, b)   == [k \in Party |-> x[k][b]]

One(b) == INSTANCE Vss WITH
  pc <- PcOf(b), share <- ShareOf(b),
  wrong <- Of(wrong, b), accused <- Of(accused, b), cover <- Of(cover, b)

\* The ways to choose for each secret one of its outcomes.
Each(S) == {f \in [Batch -> UNION {S[b] : b \in Batch}] : \A b \in Batch : f[b] \in S[b]}
ForAll(x) == [b \in Batch |-> x]

Init ==
  /\ pc = [k \in Party |-> "com1"]
  /\ slices = {}
  /\ lines = {}
  /\ wrong = [i \in Party |-> ForAll({})]
  /\ accusers = {}
  /\ accused = [j \in Party |-> ForAll({})]
  /\ scalars = {}
  /\ cover = [k \in Party |-> ForAll(NoCover)]
  /\ share = [k \in Party |-> ForAll("none")]

Go(k, from, to) == pc[k] = from /\ pc' = [pc EXCEPT ![k] = to]

-----------------------------------------------------------------------------
(* The stages.                                                             *)

\* run_vss_dealer_batch: one message with all slices to each party.
Deal(i) ==
  /\ pc[Dealer] # "failed"
  /\ i \notin slices
  /\ slices' = slices \union {i}
  /\ UNCHANGED <<pc, lines, wrong, accusers, accused, scalars, cover, share>>

\* _com1_forward_slice_batch
Com1ForwardSlice(k) ==
  /\ Go(k, "com1", "com2")
  /\ k \in slices
  /\ k = Dealer => slices = Party
  /\ lines' = lines \union {k}
  /\ \E W \in IF k \in ByzRow THEN [Batch -> Lies] ELSE {ForAll({})} :
       wrong' = [wrong EXCEPT ![k] = W]
  /\ UNCHANGED <<slices, accusers, accused, scalars, cover, share>>

\* What a column complains about, secret by secret.
Accusations(k) ==
  Each([b \in Batch |-> IF k \in ByzCol THEN SUBSET Targets ELSE One(b)!Complaints(k)])

\* _com2_process_column_batch and the broadcast of its result.
Com2ProcessColumn(k) ==
  /\ Go(k, "com2", "scalars")
  /\ lines = Party
  /\ accusers' = accusers \union {k}
  /\ \E A \in Accusations(k) : accused' = [accused EXCEPT ![k] = A]
  /\ UNCHANGED <<slices, lines, wrong, scalars, cover, share>>

Com2SendScalars_IfClean(k) ==
  /\ Go(k, "scalars", "public")
  /\ scalars' = IF accused[k] = ForAll({}) THEN scalars \union {k} ELSE scalars
  /\ UNCHANGED <<slices, lines, wrong, accusers, accused, cover, share>>

\* _com2_send_scalars_batch: one table with the values of all lines.
Com2SendScalars(k) ==
  /\ Go(k, "scalars", "public")
  /\ scalars' = scalars \union {k}
  /\ UNCHANGED <<slices, lines, wrong, accusers, accused, cover, share>>

Needed_AllOrNothing(c) == IF \E b \in Batch : GivenUp(c[b]) THEN {} ELSE Batch

\* needed_batches: the secrets with retained sets.
Needed(c) == {b \in Batch : ~GivenUp(c[b])}

\* _collect_ij_sets_batch and the loop over the secrets that follows it.  The
\* values are waited for when some secret needs them.
Public(k) ==
  /\ accusers = Party
  /\ pc[k] = "public"
  /\ LET c == [b \in Batch |-> CoverOf[One(b)!Disagreement]]
     IN  /\ cover' = [cover EXCEPT ![k] = c]
         /\ \/ /\ Needed(c) # {}
               /\ Go(k, "public", "com3")
               /\ UNCHANGED share
            \/ /\ Needed(c) = {}
               /\ Go(k, "public", "done")
               /\ share' = [share EXCEPT ![k] = ForAll("default")]
  /\ UNCHANGED <<slices, lines, wrong, accusers, accused, scalars>>

\* _com3_reconstruct_shares_batch: from one table of each column, the shares of
\* the needed secrets; the others keep the default.
Com3Reconstruct(k) ==
  /\ Go(k, "com3", "done")
  /\ scalars = Party
  /\ \E s \in Each([b \in Batch |-> IF b \in Needed(cover[k])
                                    THEN One(b)!Shares(cover[k][b]) ELSE {"default"}]) :
       share' = [share EXCEPT ![k] = s]
  /\ UNCHANGED <<slices, lines, wrong, accusers, accused, scalars, cover>>

\* A receive times out, or a send raises; the run of the node ends.
Fail(k) ==
  /\ k \in MayFail
  /\ pc[k] \notin {"done", "failed"}
  /\ pc' = [pc EXCEPT ![k] = "failed"]
  /\ UNCHANGED <<slices, lines, wrong, accusers, accused, scalars, cover, share>>

Step(k) ==
  \/ Com1ForwardSlice(k)
  \/ Com2ProcessColumn(k)
  \/ Com2SendScalars(k)
  \/ Public(k)
  \/ Com3Reconstruct(k)

Next ==
  \/ \E i \in Party : Deal(i)
  \/ \E k \in Party : Step(k)
  \/ \E k \in Party : Fail(k)

Spec == Init /\ [][Next]_vars

\* As long as a task can run, one of those that can is run.
FairSpec ==
  Spec /\ WF_vars((\E i \in Party : Deal(i)) \/ (\E k \in Party : Step(k)))

-----------------------------------------------------------------------------
(* Properties.                                                             *)

\* Whichever secret is chosen, it is shared as if it were alone: what rows lie
\* about the others, and that those are given up, has no effect on it, although
\* all travel in the same messages.
Alone == INSTANCE Vss WITH
  pc <- PcOf(Chosen), share <- ShareOf(Chosen),
  wrong <- Of(wrong, Chosen), accused <- Of(accused, Chosen), cover <- Of(cover, Chosen)

ImplementsVss == Alone!Spec

\* When no receive times out, every node ends with a share of every secret,
\* also when only some of the secrets are given up.
Termination ==
  <>(\/ \E k \in Party : pc[k] = "failed"
     \/ \A k \in Party : pc[k] = "done" /\ \A b \in Batch : share[k][b] # "none")
=============================================================================
