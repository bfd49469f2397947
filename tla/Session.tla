------------------------------- MODULE Session -------------------------------
(***************************************************************************)
(* One run: the processes of the nodes, from start_server to stop_server   *)
(* (network/node.py), and the driver that has launched them and collects   *)
(* what they put into its queue.  The drivers differ:                      *)
(*   "ping"      run_ping_benchmark (network/coordinator.py);              *)
(*   "protocol"  run_vss_multiprocess and those of MUL, RS and RG;         *)
(*   "mpc"       run_cubempc_multiprocess;                                 *)
(*   "repeat"    _run_one_repeat of the stage runner, on one machine.      *)
(* What a node runs between connecting and stopping is a number of rounds: *)
(* a message to every peer, then the wait for theirs.                      *)
(*                                                                         *)
(* Timeouts are long: one strikes only after something has gone wrong; one *)
(* that strikes too early counts as a fault.  A message that a connection  *)
(* has taken is delivered: PeerLink is about networks that fail.           *)
(***************************************************************************)
EXTENDS Naturals, FiniteSets

CONSTANTS
  N,          \* n
  Kinds,      \* drivers looked at
  Early,      \* nodes that return without the last wait (vss.py:339)
  Rounds,     \* rounds of a protocol
  MaxFaults   \* bound: nodes at which something goes wrong

ASSUME SessionAssumption ==
  /\ N \in Nat /\ N > 1
  /\ Rounds \in Nat /\ Rounds > 1 /\ MaxFaults \in Nat
  /\ Kinds \subseteq {"ping", "protocol", "mpc", "repeat"}

Node == 0..(N - 1)

VARIABLES
  kind,    \* the driver of this run
  phase,   \* phase[k]: how far the process of node k is
  conn,    \* conn[k][j]: the connection of k to j, "dead" when j has gone
  round,   \* round[k]: the round node k is in
  sent,    \* sent[k]: <<r, j>> when k has sent j its message of round r
  item,    \* item[k]: what node k has put into the queue
  hung,    \* nodes whose process goes on no more
  killed,  \* nodes whose process ended by a signal
  faults,  \* nodes at which something went wrong
  driver,  \* how far the driver is
  got      \* nodes whose item the driver has taken

node == <<phase, conn, round, sent, item>>
vars == <<kind, node, hung, killed, faults, driver, got>>

Last == IF kind = "ping" THEN 2 ELSE Rounds

\* A node pings the next one and says hello to all.
Targets(k, r) ==
  IF kind = "ping" /\ r = 1 THEN {(k + 1) % N} ELSE Node \ {k}

\* The messages <<j, q>> node k waits for in round r.  A ping node has sent
\* everything before it waits.
Awaited(k, r) ==
  {m \in Node \X (1..Last) :
     /\ k \in Targets(m[1], m[2])
     /\ \/ kind = "ping" /\ r = Last
        \/ kind # "ping" /\ m[2] = r /\ ~(r = Last /\ k \in Early)}

Init ==
  /\ kind \in Kinds
  /\ phase = [k \in Node |-> "starting"]
  /\ conn = [k \in Node |-> [j \in Node |-> "none"]]
  /\ round = [k \in Node |-> 1]
  /\ sent = [k \in Node |-> {}]
  /\ item = [k \in Node |-> "none"]
  /\ hung = {} /\ killed = {} /\ faults = {}
  /\ driver = "collecting"
  /\ got = {}

-----------------------------------------------------------------------------
(* A node.                                                                 *)

In(k, p) == phase[k] = p /\ k \notin hung
Goto(k, p) == phase' = [phase EXCEPT ![k] = p]

Listening(j) == phase[j] \in {"connecting", "running", "closing"}

\* start_server: only a ping node does not connect to its peers first.
Listen(k) ==
  /\ In(k, "starting")
  /\ Goto(k, IF kind = "ping" THEN "running" ELSE "connecting")
  /\ UNCHANGED <<conn, round, sent, item>>

\* connect_peers tries a peer until it listens.
Connect(k, j) ==
  /\ In(k, "connecting") /\ j # k
  /\ conn[k][j] = "none" /\ Listening(j)
  /\ conn' = [conn EXCEPT ![k][j] = "open"]
  /\ UNCHANGED <<phase, round, sent, item>>

\* All peers are connected.
Begin(k) ==
  /\ In(k, "connecting")
  /\ \A j \in Node \ {k} : conn[k][j] # "none"
  /\ Goto(k, "running")
  /\ UNCHANGED <<conn, round, sent, item>>

ToSend(k) == {j \in Targets(k, round[k]) : <<round[k], j>> \notin sent[k]}

\* A message goes over the connection there is, or a new one.  To a peer that
\* has gone it may still seem to go.
Send(k, j) ==
  /\ In(k, "running") /\ j \in ToSend(k)
  /\ \/ conn[k][j] # "none" /\ UNCHANGED conn
     \/ /\ conn[k][j] = "none" /\ Listening(j)
        /\ conn' = [conn EXCEPT ![k][j] = "open"]
  /\ sent' = [sent EXCEPT ![k] = @ \union {<<round[k], j>>}]
  /\ UNCHANGED <<phase, round, item>>

Arrived(k) == \A m \in Awaited(k, round[k]) : <<m[2], k>> \in sent[m[1]]

\* All messages are there; after the last round stop_server begins.
Advance(k) ==
  /\ In(k, "running")
  /\ ToSend(k) = {} /\ Arrived(k)
  /\ IF round[k] < Last
     THEN round' = [round EXCEPT ![k] = @ + 1] /\ UNCHANGED phase
     ELSE Goto(k, "closing") /\ UNCHANGED round
  /\ UNCHANGED <<conn, sent, item>>

\* close_peer_connections, one after the other.
Close(k, j) ==
  /\ In(k, "closing") /\ conn[k][j] # "none"
  /\ conn' = [conn EXCEPT ![k][j] = "none"]
  /\ UNCHANGED <<phase, round, sent, item>>

\* mutant: the server is closed and waited for before the connections
CloseServer_First(k) ==
  /\ In(k, "closing")
  /\ Goto(k, "waiting")
  /\ UNCHANGED <<conn, round, sent, item>>

\* mutant: closing the server closes the connections it has accepted
CloseServer_Clients(k) ==
  /\ In(k, "closing")
  /\ \A j \in Node : conn[k][j] = "none"
  /\ Goto(k, "waiting")
  /\ conn' = [j \in Node |-> [conn[j] EXCEPT ![k] = IF @ = "open" THEN "dead" ELSE @]]
  /\ UNCHANGED <<round, sent, item>>

\* Then the server takes no more connections; those it has stay open.
CloseServer(k) ==
  /\ In(k, "closing")
  /\ \A j \in Node : conn[k][j] = "none"
  /\ Goto(k, "waiting")
  /\ UNCHANGED <<conn, round, sent, item>>

\* mutant: wait_closed does not wait, and the process ends
Stopped_AtOnce(k) ==
  /\ In(k, "waiting")
  /\ Goto(k, "leaving")
  /\ item' = [item EXCEPT ![k] = "result"]
  /\ conn' = [j \in Node |-> [conn[j] EXCEPT ![k] = IF @ = "open" THEN "dead" ELSE @]]
  /\ UNCHANGED <<round, sent>>

\* wait_closed returns when the peers have closed their connections; then the
\* worker puts its result.
Stopped(k) ==
  /\ In(k, "waiting")
  /\ \A j \in Node : conn[j][k] # "open"
  /\ Goto(k, "leaving")
  /\ item' = [item EXCEPT ![k] = "result"]
  /\ UNCHANGED <<conn, round, sent>>

Exit(k) ==
  /\ In(k, "leaving")
  /\ Goto(k, "ended")
  /\ UNCHANGED <<conn, round, sent, item>>

NodeStep(k) ==
  \/ Listen(k) \/ Begin(k) \/ Advance(k) \/ CloseServer(k) \/ Stopped(k) \/ Exit(k)
  \/ \E j \in Node : Connect(k, j) \/ Send(k, j) \/ Close(k, j)

-----------------------------------------------------------------------------
(* What goes wrong.                                                        *)

\* The connections of k and to k when its process, or its event loop, ends.
WithoutNode(k) ==
  [a \in Node |->
     [b \in Node |->
        IF a = k THEN "none"
        ELSE IF b = k /\ conn[a][b] = "open" THEN "dead" ELSE conn[a][b]]]

\* An exception: the worker puts it instead of a result.
Fail(k) ==
  /\ Goto(k, "leaving")
  /\ conn' = WithoutNode(k)
  /\ item' = [item EXCEPT ![k] = "error"]
  /\ UNCHANGED <<round, sent>>

\* A send fails twice: nobody listens there.  In a run without faults the
\* startup delay of a ping node is long enough.
Refused(k, j) ==
  /\ In(k, "running") /\ j \in ToSend(k)
  /\ conn[k][j] # "open" /\ ~Listening(j)
  /\ phase[j] = "starting" => faults # {}
  /\ Fail(k)

\* A receive, or connect_peers, waits in vain.
TimeOut(k) ==
  /\ faults # {}
  /\ \/ In(k, "connecting") /\ \E j \in Node \ {k} : conn[k][j] = "none"
     \/ In(k, "running") /\ ToSend(k) = {} /\ ~Arrived(k)
  /\ Fail(k)

Die(k) ==
  /\ Goto(k, "ended")
  /\ conn' = WithoutNode(k)
  /\ killed' = killed \union {k}
  /\ UNCHANGED <<round, sent, item>>

\* A process is killed, hangs, or raises in start_server or in a protocol.
Fault(k) ==
  /\ Cardinality(faults) < MaxFaults
  /\ faults' = faults \union {k}
  /\ phase[k] # "ended" /\ k \notin hung
  /\ \/ Die(k) /\ UNCHANGED hung
     \/ hung' = hung \union {k} /\ UNCHANGED <<node, killed>>
     \/ /\ phase[k] \in {"starting", "connecting", "running"}
        /\ Fail(k) /\ UNCHANGED <<hung, killed>>

-----------------------------------------------------------------------------
(* The driver.                                                             *)

\* An item is taken; some drivers raise at the first error.
Collect(k) ==
  /\ driver = "collecting"
  /\ k \notin got /\ item[k] # "none"
  /\ got' = got \union {k}
  /\ driver' = IF item[k] = "error" /\ kind \in {"protocol", "mpc"} THEN "gaveUp"
               ELSE IF got' = Node THEN "joining" ELSE driver
  /\ UNCHANGED <<node, hung, killed>>

Deadline ==
  /\ driver = "collecting" /\ faults # {}
  /\ driver' = "joining"
  /\ UNCHANGED <<node, hung, killed, got>>

\* terminate_all ends what still runs, join_worker_processes after a while.
Reap(k) ==
  /\ driver = "joining" /\ phase[k] # "ended"
  /\ kind = "ping" \/ (kind = "protocol" /\ faults # {})
  /\ Die(k)
  /\ UNCHANGED <<hung, driver, got>>

\* All results are there, and no process of a protocol ended badly.
Whole ==
  /\ got = Node /\ \A k \in Node : item[k] = "result"
  /\ kind # "ping" => killed = {}
  /\ kind = "mpc" => \A k \in Node : phase[k] = "ended"

\* The two that terminate nobody give up joining.
Finish ==
  /\ driver = "joining"
  /\ \/ \A k \in Node : phase[k] = "ended"
     \/ kind \in {"mpc", "repeat"} /\ faults # {}
  /\ driver' = IF Whole THEN "succeeded" ELSE "gaveUp"
  /\ UNCHANGED <<node, hung, killed, got>>

DriverStep == Deadline \/ Finish \/ \E k \in Node : Collect(k) \/ Reap(k)

Step ==
  /\ \/ DriverStep
     \/ /\ \E k \in Node : NodeStep(k) \/ TimeOut(k) \/ \E j \in Node : Refused(k, j)
        /\ UNCHANGED <<hung, killed, driver, got>>
  /\ UNCHANGED <<kind, faults>>

Next == Step \/ ((\E k \in Node : Fault(k)) /\ UNCHANGED <<kind, driver, got>>)

Spec == Init /\ [][Next]_vars

\* As long as a process that has not hung can take a step, one is taken: nodes
\* and driver run on their own.  Nothing makes something go wrong.
FairSpec == Spec /\ WF_vars(Step)

-----------------------------------------------------------------------------
\* stop_server is a barrier: a node that has stopped has nothing to expect any
\* more from a node that goes on, also when it did not wait for it itself
\* (node.py:287-292, vss.py:339), and whatever goes wrong elsewhere.
StopIsBarrier ==
  \A j, k \in Node :
    item[k] = "result" =>
      \/ \A r \in 1..Last : k \in Targets(j, r) => <<r, k>> \in sent[j]
      \/ phase[j] \in {"leaving", "ended"}

\* A run fails only when something has gone wrong: no node's stopping makes a
\* send of another one fail, and no driver gives up a run of which all nodes
\* are well (node.py:252-292, coordinator.py:37-49, 96-112).
FailureHasCause ==
  faults = {} => driver # "gaveUp" /\ \A k \in Node : item[k] # "error"

\* Every run ends, and so does every process of it, whatever has gone wrong:
\* no two nodes wait for each other to close.  Only a process that hangs may
\* be left, and keep others, and not by the ping driver (node.py:287-292,
\* coordinator.py:125-153).
Termination ==
  <>(/\ driver \in {"succeeded", "gaveUp"}
     /\ kind = "ping" \/ hung = {} => \A k \in Node : phase[k] = "ended")
=============================================================================
