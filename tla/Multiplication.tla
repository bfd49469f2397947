--------------------------- MODULE Multiplication ---------------------------
(***************************************************************************)
(* One multiplication (protocols/multiplication.py) at every node, with    *)
(* the resharing of its mask (protocols/resharing.py).  Node k sends each  *)
(* node a point of its masks, decodes its own masks S_t and S_2t, opens    *)
(* x y - S_2t by broadcast, reshares S_t to the next layer and adds both.  *)
(*                                                                         *)
(* A value is "right" (the one that honest nodes would compute from the    *)
(* right shares), "any" (it need not be that one) or "none".  A receive    *)
(* counts frames, not senders: the transport may send a frame twice, and   *)
(* the call then returns without some node's message.                      *)
(***************************************************************************)
EXTENDS Decoding, FiniteSets

CONSTANTS
  n, t,
  Faulty,     \* nodes whose values are arbitrary
  MayFail,    \* bound: nodes whose run may end in an exception
  Repeats     \* bound: frames that are received twice

Party == 1..n

\* MPCConfig.create refuses other thresholds.
ASSUME PartyAssumption ==
  /\ n \in Nat /\ t \in Nat /\ n >= 4 * t + 1
  /\ Faulty \subseteq Party
  /\ Repeats \in Nat

VARIABLES
  pc,        \* pc[k]: the stage of node k
  sent,      \* sent[m]: nodes that have sent their messages of kind m
  lost,      \* lost[k][m]: senders that node k's receive of kind m has missed
  repeated,  \* frames that were received twice
  st, s2t,   \* the masks node k has decoded
  d,         \* d[k]: what node k has broadcast
  delta,     \* delta[k]: the opened difference
  out        \* out[k]: the product share; "zero" is the default for no result

vars == <<pc, sent, lost, repeated, st, s2t, d, delta, out>>

Stage == {"masks", "decode", "open", "reshare", "done", "failed"}
Kind == {"mul_mask_eval", "mul_d", "rs_mu"}
Nothing == [k \in Party |-> "none"]

Init ==
  /\ pc = [k \in Party |-> "masks"]
  /\ sent = [m \in Kind |-> {}]
  /\ lost = [k \in Party |-> [m \in Kind |-> 0]]
  /\ repeated = 0
  /\ st = Nothing
  /\ s2t = Nothing
  /\ d = Nothing
  /\ delta = Nothing
  /\ out = Nothing

Go(k, from, to) == pc[k] = from /\ pc' = [pc EXCEPT ![k] = to]
Send(k, m) == sent' = [sent EXCEPT ![m] = @ \union {k}]

-----------------------------------------------------------------------------
(* Receiving and decoding.                                                 *)

\* recv_until for n messages: everybody's, or some twice and others not.
Heard(m) ==
  {S \in SUBSET sent[m] :
     n - Cardinality(S) <= Repeats - repeated /\ n - Cardinality(S) <= Cardinality(S)}

Count(k, m, S) ==
  /\ lost' = [lost EXCEPT ![k][m] = n - Cardinality(S)]
  /\ repeated' = repeated + n - Cardinality(S)

\* robust_reconstruct: without errors to correct, the first points decide.
Reconstruct(points, errors) ==
  IF points = 0 THEN {"none"}
  ELSE IF t > 0 THEN Outcomes(points, t, t, errors)
  ELSE IF errors = 0 THEN {"right"} ELSE {"right", "wrong"}

DecodeDelta_FewPoints(points, errors) == Outcomes(points, 2 * t, t, errors)

DecodeDelta_AllPoints(points, errors) ==
  IF points < n THEN {"none"} ELSE Outcomes(points, 2 * t, t, errors)

DecodeDelta(points, errors) ==
  IF points < 4 * t + 1 THEN {"none"} ELSE Outcomes(points, 2 * t, t, errors)

DecodeRow(points, errors) ==
  IF points < n THEN {"none"} ELSE Outcomes(points, t, t, errors)

\* A value that need not be right may be.
Value(o) == IF o = "wrong" THEN "any" ELSE o
Errors(S, unsure) == 0..Cardinality(S \intersect unsure)

MaskValues(S) ==
  {Value(o) : o \in UNION {Reconstruct(Cardinality(S), e) : e \in Errors(S, Faulty)}}

UnsureTerms == {i \in Party : d[i] # "right"}
DeltaValues(S) ==
  {Value(o) : o \in UNION {DecodeDelta(Cardinality(S), e) : e \in Errors(S, UnsureTerms)}}

\* A row sent by a node with another mask is wrong in every point.
UnsureRows == Faulty \union {i \in Party : st[i] # "right"}
RowValues(S) ==
  {Value(o) : o \in UNION {DecodeRow(Cardinality(S), e) : e \in Errors(S, UnsureRows)}}

-----------------------------------------------------------------------------
(* The stages.                                                             *)

\* run_mul up to the masks' last message ("mask_prep").
SendMasks(k) ==
  /\ Go(k, "masks", "decode")
  /\ Send(k, "mul_mask_eval")
  /\ UNCHANGED <<lost, repeated, st, s2t, d, delta, out>>

Abort_OneMask(a, b) == a = "none"

Abort(a, b) == a = "none" \/ b = "none"

\* S_t = a and S_2t = b; the masked product is broadcast, unless one is missing.
BroadcastProduct(k, S, a, b) ==
  /\ Count(k, "mul_mask_eval", S)
  /\ st' = [st EXCEPT ![k] = a]
  /\ s2t' = [s2t EXCEPT ![k] = b]
  /\ \/ /\ Abort(a, b)
        /\ Go(k, "decode", "done")
        /\ out' = [out EXCEPT ![k] = "zero"]
        /\ UNCHANGED <<sent, d>>
     \/ /\ ~Abort(a, b)
        /\ Go(k, "decode", "open")
        /\ d' = [d EXCEPT ![k] = IF k \in Faulty THEN "any" ELSE b]
        /\ Send(k, "mul_d")
        /\ UNCHANGED out
  /\ UNCHANGED delta

\* The difference opens to a, and run_resharing sends the points of its row.
SendRow(k, S, a) ==
  /\ Count(k, "mul_d", S)
  /\ \/ /\ a = "none"
        /\ Go(k, "open", "done")
        /\ out' = [out EXCEPT ![k] = "zero"]
        /\ UNCHANGED <<sent, delta>>
     \/ /\ a # "none"
        /\ Go(k, "open", "reshare")
        /\ delta' = [delta EXCEPT ![k] = a]
        /\ Send(k, "rs_mu")
        /\ UNCHANGED out
  /\ UNCHANGED <<st, s2t, d>>

\* The reshared mask is a.  When there is none it is 0, and is added all the
\* same.
AddMask(k, S, a) ==
  /\ Go(k, "reshare", "done")
  /\ Count(k, "rs_mu", S)
  /\ out' = [out EXCEPT ![k] =
               IF a = "right" /\ delta[k] = "right" THEN "right" ELSE "any"]
  /\ UNCHANGED <<sent, st, s2t, d, delta>>

\* A receive times out, or a send raises; the run of the node ends.
Fail(k) ==
  /\ k \in MayFail
  /\ pc[k] \notin {"done", "failed"}
  /\ pc' = [pc EXCEPT ![k] = "failed"]
  /\ UNCHANGED <<sent, lost, repeated, st, s2t, d, delta, out>>

\* What is heard matters in the stage that receives it only.
Step(k) ==
  \/ SendMasks(k)
  \/ pc[k] = "decode" /\ \E S \in Heard("mul_mask_eval") : \E a, b \in MaskValues(S) : BroadcastProduct(k, S, a, b)
  \/ pc[k] = "open" /\ \E S \in Heard("mul_d") : \E a \in DeltaValues(S) : SendRow(k, S, a)
  \/ pc[k] = "reshare" /\ \E S \in Heard("rs_mu") : \E a \in RowValues(S) : AddMask(k, S, a)

Next ==
  \/ \E k \in Party : Step(k)
  \/ \E k \in Party : Fail(k)

Spec == Init /\ [][Next]_vars

\* As long as a node can take a step, one of those that can takes it.
FairSpec == Spec /\ WF_vars(\E k \in Party : Step(k))

-----------------------------------------------------------------------------
(* Properties.                                                             *)

\* The faults the protocol is built for.
FaultBound == Cardinality(Faulty) <= t

\* No node has missed more senders of masks than their decoding can spare.
MasksHeard == \A k \in Party : lost[k]["mul_mask_eval"] <= n - (3 * t + 1)

TypeOK ==
  /\ pc \in [Party -> Stage]
  /\ sent \in [Kind -> SUBSET Party]
  /\ lost \in [Party -> [Kind -> 0..Repeats]]
  /\ repeated \in 0..Repeats
  /\ st \in [Party -> {"none", "right", "any"}]
  /\ s2t \in [Party -> {"none", "right", "any"}]
  /\ d \in [Party -> {"none", "right", "any"}]
  /\ delta \in [Party -> {"none", "right", "any"}]
  /\ out \in [Party -> {"none", "right", "any", "zero"}]
  /\ \A k \in sent["mul_d"] : st[k] # "none" /\ s2t[k] # "none" /\ d[k] # "none"

\* Within the fault bound a frame that is received twice costs nobody's share
\* but the receiver's, unless masks become undecodable, and costs that one only
\* in the stages that count the senders: the opening then has no result, and
\* the resharing adds 0.
SharesRight ==
  MasksHeard => \A k \in Party \ Faulty :
    pc[k] = "done" =>
      /\ out[k] = "zero" => lost[k]["mul_d"] > n - (4 * t + 1)
      /\ out[k] = "any" => lost[k]["rs_mu"] > 0

Aborted(k) ==
  pc[k] \in {"open", "reshare", "done"} /\ (st[k] = "none" \/ s2t[k] = "none")

\* A node that cannot decode its masks stays silent.  No other node opens the
\* difference then, unless it takes a frame received twice for the missing one.
AbortStopsAll ==
  \A k, l \in Party : Aborted(k) /\ delta[l] # "none" => lost[l]["mul_d"] > 0

\* When no receive times out, masks are decodable and no opening misses more
\* senders than it can spare, every node ends.  A node whose opening does ends without sending its
\* row, and nobody else's resharing returns; with n = 4t + 1 one is too many.
Termination ==
  <>(\/ \E k \in Party : pc[k] = "failed" \/ lost[k]["mul_d"] > n - (4 * t + 1)
     \/ ~MasksHeard
     \/ \A k \in Party : pc[k] = "done")
=============================================================================
