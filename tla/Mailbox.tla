------------------------------ MODULE Mailbox ------------------------------
(***************************************************************************)
(* What a node's inbound path promises to the protocol tasks of that node: *)
(* messages become available in arrival order, a task receives the oldest  *)
(* available messages its filter accepts and never more than it asked for, *)
(* a message goes to one task only, and cleanup discards whole kinds of    *)
(* messages.  There is no index, no condition variable and no timeout      *)
(* here: NodeInbox is the code's implementation of this promise.           *)
(***************************************************************************)
EXTENDS Naturals, FiniteSets, Arrivals

CONSTANTS
  Seqs,       \* arrival numbers, naturals
  Kinds,      \* what a filter or an inbox key can tell about a message
  Receivers,  \* the recv_until calls of the node's tasks
  Wanted,     \* Wanted[r]: the kinds accepted by the filter of call r
  Need        \* Need[r]: expected_count of call r

VARIABLES
  avail,      \* messages available to every task
  got         \* got[r]: the messages handed to call r

Message == [seq : Seqs, kind : Kinds]

Accepted(S, r) == {m \in S : m.kind \in Wanted[r]}

mailboxVars == <<avail, got>>

MailboxInit ==
  /\ avail = {}
  /\ got = [r \in Receivers |-> {}]

\* A message arrives; it is younger than all the messages still known.
Put(m) ==
  /\ \A x \in avail \union UNION {got[r] : r \in Receivers} : x.seq < m.seq
  /\ avail' = avail \union {m}
  /\ UNCHANGED got

\* Call r is handed the oldest messages it accepts, up to what it still needs.
Take(r) ==
  LET taken == Oldest(Accepted(avail, r), Need[r] - Cardinality(got[r]))
  IN  /\ avail' = avail \ taken
      /\ got' = [got EXCEPT ![r] = @ \union taken]

\* Cleanup forgets every available message of some kinds.
Discard(K) ==
  /\ avail' = {m \in avail : m.kind \notin K}
  /\ UNCHANGED got

MailboxNext ==
  \/ \E m \in Message : Put(m)
  \/ \E r \in Receivers : Take(r)
  \/ \E K \in SUBSET Kinds : Discard(K)

MailboxSpec == MailboxInit /\ [][MailboxNext]_mailboxVars
=============================================================================
