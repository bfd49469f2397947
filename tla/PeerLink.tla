------------------------------ MODULE PeerLink ------------------------------
(***************************************************************************)
(* The frames a node sends to one peer (network/node.py, _write_framed and *)
(* what it calls).  Every frame is sent by a task of its own; the tasks    *)
(* share the registered writer and the lock of the peer.  A frame is tried *)
(* twice.  An action is what a task does between two awaits.               *)
(*                                                                         *)
(* The network may break a connection, with what is in flight on it, and   *)
(* may refuse to open one.  That a connection is broken shows late: until  *)
(* then writing to it looks fine.                                          *)
(***************************************************************************)
EXTENDS Naturals, Sequences, FiniteSets

CONSTANTS
  Frame,        \* frames, one per sending task
  MaxBreaks,    \* bound: connections the network breaks
  MaxRefusals,  \* bound: connections it refuses
  Conn,         \* bound: the connections 1, 2, ... that can be opened
  None          \* no connection

ASSUME LinkAssumption ==
  /\ MaxBreaks \in Nat /\ MaxRefusals \in Nat
  /\ Conn \subseteq Nat /\ 1 \in Conn /\ None \notin Conn

VARIABLES
  pc,          \* pc[f]: where the task of f is
  attempt,     \* attempt[f]: 1 or 2
  writer,      \* writer[f]: its local variable, or what it waits to be closed
  on,          \* on[f]: the connections that took f, oldest first
  queue,       \* the peer's lock: its holder and those waiting, in order
  registered,  \* peer_writers[dst]
  link,        \* link[c]: the state of connection c
  flight,      \* flight[c]: frames on their way
  delivered,   \* delivered[f]: copies the peer has received
  cut,         \* connections the network broke
  refused      \* how many it refused

vars == <<pc, attempt, writer, on, queue, registered, link, flight, delivered,
          cut, refused>>

Stage == {"start", "opening", "queued", "draining", "failing", "closing",
          "done", "raised"}

\* "broken" shows as a working connection; "closing" has been closed by this
\* node and still flushes; "lost" is what connection_lost has been called for.
State == {"unused", "open", "broken", "closing", "lost"}
IsClosing(c) == link[c] \in {"closing", "lost"}

Init ==
  /\ pc = [f \in Frame |-> "start"]
  /\ attempt = [f \in Frame |-> 1]
  /\ writer = [f \in Frame |-> None]
  /\ on = [f \in Frame |-> <<>>]
  /\ queue = <<>>
  /\ registered = 1
  /\ link = [c \in Conn |-> IF c = 1 THEN "open" ELSE "unused"]
  /\ flight = [c \in Conn |-> {}]
  /\ delivered = [f \in Frame |-> 0]
  /\ cut = {}
  /\ refused = 0

-----------------------------------------------------------------------------
(* Steps of a task.                                                        *)

\* writer.write: connection c takes f, or drops it as it is closed and drain is
\* going to raise.  A closed one that still flushes does either, or both.
Transmit(f, c) ==
  \/ /\ link'[c] \in {"open", "broken"} \/ (link'[c] = "closing" /\ flight[c] # {})
     /\ pc' = [pc EXCEPT ![f] = "draining"] \/ (IsClosing(c) /\ pc' = [pc EXCEPT ![f] = "failing"])
     /\ on' = [on EXCEPT ![f] = Append(@, c)]
     /\ flight' = [flight EXCEPT ![c] = IF link'[c] = "broken" THEN @ ELSE @ \union {f}]
  \/ /\ link'[c] \in {"closing", "lost"}
     /\ pc' = [pc EXCEPT ![f] = "failing"]
     /\ UNCHANGED <<on, flight>>

\* mutant: no lock
Enter_NoLock(f, c) ==
  /\ writer' = [writer EXCEPT ![f] = c]
  /\ queue' = Append(queue, f)
  /\ Transmit(f, c)

\* "async with" the peer's lock: at once when nobody has it.
Enter(f, c) ==
  /\ writer' = [writer EXCEPT ![f] = c]
  /\ queue' = Append(queue, f)
  /\ \/ queue = <<>> /\ Transmit(f, c)
     \/ /\ queue # <<>>
        /\ pc' = [pc EXCEPT ![f] = "queued"]
        /\ UNCHANGED <<on, flight>>

\* _get_peer_writer finds a writer that is not closing.
UseRegistered(f) ==
  /\ pc[f] = "start"
  /\ registered # None /\ ~IsClosing(registered)
  /\ UNCHANGED link
  /\ Enter(f, registered)
  /\ UNCHANGED <<attempt, registered, delivered, cut, refused>>

AfterClose(c) ==
  IF link[c] = "open" THEN "closing" ELSE IF link[c] = "broken" THEN "lost" ELSE link[c]

\* _close_peer_writer takes the writer registered now and closes it; its
\* caller goes on when it is lost.
CloseRegistered(f) ==
  /\ registered' = None
  /\ writer' = [writer EXCEPT ![f] = registered]
  /\ link' = [c \in Conn |-> IF c = registered THEN AfterClose(c) ELSE link[c]]

\* _connect_peer: the old writer is closed first.
Connect(f) ==
  /\ pc[f] = "start"
  /\ registered # None => IsClosing(registered)
  /\ pc' = [pc EXCEPT ![f] = "opening"]
  /\ CloseRegistered(f)
  /\ UNCHANGED <<attempt, on, queue, flight, delivered, cut, refused>>

Closed(f) == writer[f] # None => link[writer[f]] = "lost"

\* The new writer is registered, over one that another task may have opened.
Opened(f, c) ==
  /\ pc[f] = "opening" /\ Closed(f)
  /\ link[c] = "unused" /\ \A b \in Conn : link[b] = "unused" => c <= b
  /\ link' = [link EXCEPT ![c] = "open"]
  /\ registered' = c
  /\ Enter(f, c)
  /\ UNCHANGED <<attempt, delivered, cut, refused>>

\* The lock is handed to the task that has waited longest.
Woken(f) ==
  /\ pc[f] = "queued" /\ queue # <<>> /\ Head(queue) = f
  /\ UNCHANGED link
  /\ Transmit(f, writer[f])
  /\ UNCHANGED <<attempt, writer, queue, registered, delivered, cut, refused>>

\* drain returns.  When this node has closed the connection it also does.
Drained(f) ==
  /\ pc[f] = "draining"
  /\ link[writer[f]] = "lost" => writer[f] \notin cut
  /\ pc' = [pc EXCEPT ![f] = "done"]
  /\ queue' = Tail(queue)
  /\ UNCHANGED <<attempt, writer, on, registered, link, flight, delivered, cut, refused>>

\* mutant: the lock is not given back when drain raises
Release_OnReturn == queue

Release == Tail(queue)

\* drain raises: the lock is given back, and the writer that is registered
\* now is closed, which need not be the one that failed.
DrainRaises(f) ==
  /\ \/ pc[f] = "failing"
     \/ pc[f] = "draining" /\ link[writer[f]] \in {"broken", "lost"} /\ writer[f] \in cut
  /\ queue' = Release
  /\ pc' = [pc EXCEPT ![f] = "closing"]
  /\ registered' = None
  /\ writer' = [writer EXCEPT ![f] = registered]
  /\ link' = [c \in Conn |->
                IF c = writer[f] THEN "lost"
                ELSE IF c = registered THEN AfterClose(c) ELSE link[c]]
  /\ UNCHANGED <<attempt, on, flight, delivered, cut, refused>>

\* The network refuses the connection: as above, without the lock.
Refuse(f) ==
  /\ pc[f] = "opening" /\ Closed(f)
  /\ refused < MaxRefusals
  /\ refused' = refused + 1
  /\ pc' = [pc EXCEPT ![f] = "closing"]
  /\ CloseRegistered(f)
  /\ UNCHANGED <<attempt, on, queue, flight, delivered, cut>>

\* mutant: the last exception is not raised again
Retry_NoRaise(f) ==
  /\ pc[f] = "closing" /\ Closed(f)
  /\ pc' = [pc EXCEPT ![f] = IF attempt[f] = 1 THEN "start" ELSE "done"]
  /\ attempt' = [attempt EXCEPT ![f] = 2]
  /\ UNCHANGED <<writer, on, queue, registered, link, flight, delivered, cut, refused>>

\* The second attempt, or the exception when that was it.
Retry(f) ==
  /\ pc[f] = "closing" /\ Closed(f)
  /\ pc' = [pc EXCEPT ![f] = IF attempt[f] = 1 THEN "start" ELSE "raised"]
  /\ attempt' = [attempt EXCEPT ![f] = 2]
  /\ UNCHANGED <<writer, on, queue, registered, link, flight, delivered, cut, refused>>

-----------------------------------------------------------------------------
(* The network and the event loop.                                         *)

\* connection_lost is called for a connection that is closed, or broken.
Lose(c) ==
  /\ link[c] \in {"closing", "broken"}
  /\ link' = [link EXCEPT ![c] = "lost"]
  /\ UNCHANGED <<pc, attempt, writer, on, queue, registered, flight, delivered, cut, refused>>

\* The peer's _handle_client reads a frame.
Receive(c, f) ==
  /\ f \in flight[c]
  /\ flight' = [flight EXCEPT ![c] = @ \ {f}]
  /\ delivered' = [delivered EXCEPT ![f] = @ + 1]
  /\ UNCHANGED <<pc, attempt, writer, on, queue, registered, link, cut, refused>>

\* A connection breaks.
Break(c) ==
  /\ Cardinality(cut) < MaxBreaks
  /\ link[c] \in {"open", "closing"} \/ flight[c] # {}
  /\ cut' = cut \union {c}
  /\ link' = [link EXCEPT ![c] = IF @ = "open" THEN "broken" ELSE "lost"]
  /\ flight' = [flight EXCEPT ![c] = {}]
  /\ UNCHANGED <<pc, attempt, writer, on, queue, registered, delivered, refused>>

TaskStep(f) ==
  \/ UseRegistered(f)
  \/ Connect(f)
  \/ \E c \in Conn : Opened(f, c)
  \/ Woken(f)
  \/ Drained(f)
  \/ DrainRaises(f)
  \/ Retry(f)

LoopStep(c) == Lose(c) \/ \E f \in Frame : Receive(c, f)

Next ==
  \/ \E f \in Frame : TaskStep(f) \/ Refuse(f)
  \/ \E c \in Conn : LoopStep(c) \/ Break(c)

Spec == Init /\ [][Next]_vars

\* As long as a task or the event loop can take a step, one is taken.  Nothing
\* makes the network fail.
FairSpec ==
  Spec /\ WF_vars((\E f \in Frame : TaskStep(f)) \/ (\E c \in Conn : LoopStep(c)))

-----------------------------------------------------------------------------
TypeOK ==
  /\ pc \in [Frame -> Stage]
  /\ attempt \in [Frame -> 1..2]
  /\ writer \in [Frame -> Conn \union {None}]
  /\ on \in [Frame -> Seq(Conn)]
  /\ queue \in Seq(Frame)
  /\ registered \in Conn \union {None}
  /\ link \in [Conn -> State]
  /\ flight \in [Conn -> SUBSET Frame]
  /\ delivered \in [Frame -> Nat]
  /\ cut \subseteq Conn
  /\ refused \in Nat

Last(f) == on[f][Len(on[f])]

\* A frame whose send has returned has been received, is on its way, or went
\* with a connection that the network broke: what tasks do to each other's
\* connections (node.py:200-204, 217, 262-264) loses none.
NoQuietLoss ==
  \A f \in Frame :
    pc[f] = "done" =>
      /\ on[f] # <<>>
      /\ delivered[f] > 0 \/ Last(f) \in cut \/ f \in flight[Last(f)]

Twice(f) == Len(on[f]) > 1

\* The loss of one connection makes one frame at most be written again that
\* may have been received already (node.py:254-264): only the holder of the
\* lock is between write and drain.
OneRepeatPerConnection ==
  \A f, g \in Frame : f # g /\ Twice(f) /\ Twice(g) => on[f][1] # on[g][1]

\* Every send returns or raises, whatever breaks and in whatever order the
\* tasks close and open connections; the lock is always given back.
Settled == <>(\A f \in Frame : pc[f] \in {"done", "raised"})
=============================================================================
