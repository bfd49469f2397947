----------------------------- MODULE NodeInbox -----------------------------
(***************************************************************************)
(* The inbound path of one NodeProcess (network/node.py): the connection   *)
(* handlers that queue messages, the pending_messages list and the inbox   *)
(* index that mirror each other, the condition variable, the recv_until    *)
(* calls of the protocol tasks, and the cleanup calls of the stage runner. *)
(*                                                                         *)
(* A message is its arrival number and its kind; the kind is all that      *)
(* filters, inbox keys and cleanup look at.  The pending list is in        *)
(* arrival order throughout, so it is modelled as a set of messages and    *)
(* "the first ones in the list" as "the oldest ones".                      *)
(* The event loop runs one task at a time: an action is what a task does   *)
(* between two awaits.                                                     *)
(***************************************************************************)
EXTENDS Naturals, FiniteSets, Arrivals

CONSTANTS
  Kinds,          \* kinds of messages
  Buckets,        \* the inbox keys
  NoBucket,       \* recv_until called without an inbox_key
  BucketOf,       \* BucketOf[kd]: message_inbox_key of the kind
  LayerOf,        \* LayerOf[b]: dst_layer of an inbox key
  InstanceOf,     \* InstanceOf[b]: protocol and instance_id of an inbox key
  Receivers,      \* the recv_until calls made on the node
  Wanted,         \* Wanted[r]: kinds that pass the filter_fn of call r
  Index,          \* Index[r]: the inbox_key of call r, or NoBucket
  Need,           \* Need[r]: expected_count of call r
  CleanLayers,    \* layers given to clear_before_layer
  CleanInstances, \* (protocol, instance_id) pairs given to clear_instance_state
  MaxMessages     \* bound: messages that arrive in a behaviour

ASSUME KindAssumption ==
  /\ NoBucket \notin Buckets
  /\ BucketOf \in [Kinds -> Buckets]
  /\ LayerOf \in [Buckets -> Nat]
  /\ CleanLayers \subseteq Nat
  /\ MaxMessages \in Nat

\* Every caller builds filter and key from the same layer, protocol,
\* instance and type, and asks for at least one message.
ASSUME ReceiverAssumption ==
  /\ Wanted \in [Receivers -> SUBSET Kinds]
  /\ Index \in [Receivers -> Buckets \union {NoBucket}]
  /\ \A r \in Receivers :
        Index[r] # NoBucket => \A kd \in Wanted[r] : BucketOf[kd] = Index[r]
  /\ Need \in [Receivers -> Nat \ {0}]

VARIABLES
  arrived,   \* number of messages read from the network so far
  stored,    \* in _queue_inbound, past _store_inbound, waiting for the lock
  pending,   \* pending_messages
  inbox,     \* inbox; an absent key is an empty bucket
  status,    \* status[r]: where call r is
  matched    \* matched[r]: what call r has removed so far (its local list)

vars == <<arrived, stored, pending, inbox, status, matched>>

M == INSTANCE Mailbox
       WITH Seqs <- 0..MaxMessages, avail <- pending, got <- matched

Status == {"idle", "waiting", "notified", "done", "timedout"}

InBucket(S, b) == {m \in S : BucketOf[m.kind] = b}

TypeOK ==
  /\ arrived \in Nat
  /\ stored \in SUBSET M!Message
  /\ pending \in SUBSET M!Message
  /\ inbox \in [Buckets -> SUBSET M!Message]
  /\ status \in [Receivers -> Status]
  /\ matched \in [Receivers -> SUBSET M!Message]

Init ==
  /\ arrived = 0
  /\ stored = {}
  /\ pending = {}
  /\ inbox = [b \in Buckets |-> {}]
  /\ status = [r \in Receivers |-> "idle"]
  /\ matched = [r \in Receivers |-> {}]

-----------------------------------------------------------------------------
(* Arrival.                                                                *)

\* A connection handler, or a local delivery, enters _queue_inbound.
StoreInbound(kd) ==
  /\ arrived < MaxMessages
  /\ arrived' = arrived + 1
  /\ stored' = stored \union {[seq |-> arrived, kind |-> kd]}
  /\ UNCHANGED <<pending, inbox, status, matched>>

NotifyAll_One ==
  LET asleep == {r \in Receivers : status[r] = "waiting"}
  IN  IF asleep = {} THEN status
      ELSE [status EXCEPT ![CHOOSE r \in asleep : TRUE] = "notified"]

NotifyAll_Indexed ==
  [r \in Receivers |->
     IF status[r] = "waiting" /\ Index[r] # NoBucket THEN "notified" ELSE status[r]]

\* notify_all: every task inside the condition's wait() will run again.
NotifyAll ==
  [r \in Receivers |-> IF status[r] = "waiting" THEN "notified" ELSE status[r]]

\* The condition's lock is granted in the order it was asked for.
QueueInbound ==
  \E m \in stored :
    /\ \A other \in stored : m.seq <= other.seq
    /\ stored' = stored \ {m}
    /\ pending' = pending \union {m}
    /\ inbox' = [inbox EXCEPT ![BucketOf[m.kind]] = @ \union {m}]
    /\ status' = NotifyAll
    /\ UNCHANGED <<arrived, matched>>

-----------------------------------------------------------------------------
(* recv_until.                                                             *)

Missing(r) == Need[r] - Cardinality(matched[r])

CollectIndexed_Newest(r) ==
  IF Index[r] = NoBucket THEN {}
  ELSE LET A == M!Accepted(inbox[Index[r]], r)
       IN  {m \in A : Cardinality({x \in A : x.seq > m.seq}) < Missing(r)}

\* _collect_indexed: the oldest accepted messages of the call's own bucket.
CollectIndexed(r) ==
  IF Index[r] = NoBucket THEN {}
  ELSE Oldest(M!Accepted(inbox[Index[r]], r), Missing(r))

\* _scan_pending: what is still missing, from the rest of the pending list.
ScanPending(r, indexed) ==
  Oldest(M!Accepted(pending \ indexed, r), Missing(r) - Cardinality(indexed))

Remove_ListOnly(indexed, scanned) ==
  /\ pending' = pending \ (indexed \union scanned)
  /\ inbox' = [b \in Buckets |-> inbox[b] \ indexed]

Remove_IndexOnly(indexed, scanned) ==
  /\ pending' = pending \ scanned
  /\ inbox' = [b \in Buckets |-> inbox[b] \ (indexed \union scanned)]

\* Both helpers take a message out of the list and out of its bucket.
Remove(indexed, scanned) ==
  /\ pending' = pending \ (indexed \union scanned)
  /\ inbox' = [b \in Buckets |-> inbox[b] \ (indexed \union scanned)]

\* One pass of the while loop: entered first, or woken up holding the lock.
\* It returns with enough messages; otherwise it waits again, or raises when
\* the deadline has passed meanwhile.
RecvPass(r) ==
  LET indexed == CollectIndexed(r)
      scanned == ScanPending(r, indexed)
      all     == matched[r] \union indexed \union scanned
  IN  /\ status[r] \in {"idle", "notified"}
      /\ Remove(indexed, scanned)
      /\ matched' = [matched EXCEPT ![r] = all]
      /\ \/ /\ Cardinality(all) >= Need[r]
            /\ status' = [status EXCEPT ![r] = "done"]
         \/ /\ Cardinality(all) < Need[r]
            /\ status' = [status EXCEPT ![r] = "waiting"]
         \/ /\ Cardinality(all) < Need[r]
            /\ status[r] = "notified"
            /\ status' = [status EXCEPT ![r] = "timedout"]
      /\ UNCHANGED <<arrived, stored>>

\* wait_for gives up: also when a notification is already on its way, and
\* without looking at the list again.  What the call had removed stays removed.
WaitTimeout(r) ==
  /\ status[r] \in {"waiting", "notified"}
  /\ status' = [status EXCEPT ![r] = "timedout"]
  /\ UNCHANGED <<arrived, stored, pending, inbox, matched>>

-----------------------------------------------------------------------------
(* Cleanup by the stage runner; it takes no lock.                          *)

ClearBeforeLayer(layer) ==
  /\ inbox' = [b \in Buckets |-> IF LayerOf[b] < layer THEN {} ELSE inbox[b]]
  /\ pending' = {m \in pending : LayerOf[BucketOf[m.kind]] >= layer}
  /\ UNCHANGED <<arrived, stored, status, matched>>

ClearInstanceState(inst) ==
  /\ inbox' = [b \in Buckets |-> IF InstanceOf[b] = inst THEN {} ELSE inbox[b]]
  /\ pending' = {m \in pending : InstanceOf[BucketOf[m.kind]] # inst}
  /\ UNCHANGED <<arrived, stored, status, matched>>

Next ==
  \/ \E kd \in Kinds : StoreInbound(kd)
  \/ QueueInbound
  \/ \E r \in Receivers : RecvPass(r)
  \/ \E r \in Receivers : WaitTimeout(r)
  \/ \E layer \in CleanLayers : ClearBeforeLayer(layer)
  \/ \E inst \in CleanInstances : ClearInstanceState(inst)

Spec == Init /\ [][Next]_vars

\* The event loop runs every task that is ready; nothing forces a message to
\* arrive, a deadline to pass or a cleanup to be called.
FairSpec ==
  /\ Spec
  /\ WF_vars(QueueInbound)
  /\ \A r \in Receivers : WF_vars(RecvPass(r))

-----------------------------------------------------------------------------
(* Properties.                                                             *)

Available == pending \union UNION {matched[r] : r \in Receivers}
Known == stored \union Available

\* No two messages share an arrival number, and the handlers still waiting for
\* the lock hold the youngest ones: messages become available in the order in
\* which they arrived, although each arrives in two steps.
Numbered ==
  /\ arrived <= MaxMessages
  /\ IsFiniteSet(pending)
  /\ \A m \in Known : m.seq < arrived
  /\ \A m, p \in Known : m.seq = p.seq => m = p
  /\ \A s \in stored, m \in Available : m.seq < s.seq

\* The list and the index hold the same messages: neither the two collecting
\* helpers nor the two cleanup calls may let them drift apart, or a message
\* would be delivered twice or never found.
Mirror == \A b \in Buckets : inbox[b] = InBucket(pending, b)

\* A message is waiting in the list, or was handed to one call, never both
\* and never to two calls, whichever of the two paths took it.
DeliveredOnce ==
  /\ \A r \in Receivers : matched[r] \intersect (stored \union pending) = {}
  /\ \A r, q \in Receivers : r # q => matched[r] \intersect matched[q] = {}

\* Of one kind, what was handed over is older than what still waits.
KindFifo ==
  \A r \in Receivers : \A m \in matched[r], p \in pending \union stored :
     m.kind = p.kind => m.seq < p.seq

\* No lost wakeup: a call that sleeps in the condition has nothing to collect.
NoLostWakeup ==
  \A r \in Receivers :
     status[r] = "waiting" => M!Accepted(pending, r) = {}

\* A call never removes more than expected_count messages, and it has returned
\* exactly when it has them all.
ExactCount ==
  \A r \in Receivers :
     /\ IsFiniteSet(matched[r])
     /\ Cardinality(matched[r]) <= Need[r]
     /\ Cardinality(matched[r]) = Need[r] <=> status[r] = "done"

\* Every step is a step of the mailbox or leaves it alone.
ImplementsMailbox == M!MailboxSpec

EnoughArrived(r) ==
  /\ status[r] \in {"waiting", "notified"}
  /\ Cardinality(M!Accepted(stored \union pending, r)) >= Missing(r)

\* When as many messages as a waiting call needs have reached the node, it does
\* not go on waiting beside them: it returns or raises, or a competing call or
\* a cleanup takes some away.
EnoughIsReceived == \A r \in Receivers : EnoughArrived(r) ~> ~EnoughArrived(r)
=============================================================================
