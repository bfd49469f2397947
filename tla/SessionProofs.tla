---------------------------- MODULE SessionProofs ----------------------------
(* Theorems of Session, for every number of nodes, rounds and faults, and  *)
(* every set of nodes that return early.                                   *)
EXTENDS Session, TLAPS

USE DEF Node

Phase == {"starting", "connecting", "running", "closing", "waiting",
          "leaving", "ended"}

Typed ==
  /\ kind \in Kinds
  /\ phase \in [Node -> Phase]
  /\ conn \in [Node -> [Node -> {"none", "open", "dead"}]]
  /\ round \in [Node -> 1..Last]
  /\ sent \in [Node -> SUBSET ((1..Last) \X Node)]
  /\ item \in [Node -> {"none", "result", "error"}]

\* An open connection leads to a process that goes on, a dead one to a process
\* that has gone without a result; connect_peers leaves no peer out.
Links ==
  /\ \A k, j \in Node :
       conn[k][j] = "open" =>
         phase[j] \in {"connecting", "running", "closing", "waiting"}
  /\ \A k, j \in Node :
       conn[k][j] = "dead" =>
         phase[j] \in {"leaving", "ended"} /\ item[j] # "result"
  /\ \A k, j \in Node :
       kind # "ping" /\ phase[k] = "running" /\ j # k => conn[k][j] # "none"

\* Only a process that has left the event loop has put something.
Items ==
  \A k \in Node : item[k] # "none" => phase[k] \in {"leaving", "ended"}

\* What node j has sent by the time it is this far.
Sends ==
  \A j \in Node :
    /\ phase[j] \in {"starting", "connecting"} => sent[j] = {} /\ round[j] = 1
    /\ \A r \in 1..Last, k \in Node :
         /\ k \in Targets(j, r)
         /\ \/ phase[j] = "running" /\ r < round[j]
            \/ phase[j] \in {"closing", "waiting"}
         => <<r, k>> \in sent[j]

\* Node k has done all rounds.
Beyond(k) == phase[k] \in {"closing", "waiting"} \/ item[k] = "result"

\* Whom a node has heard by the time it is this far: early or not, it has
\* heard everybody once.
Heard ==
  \A k, j \in Node :
    j # k =>
      /\ kind # "ping" /\ (Beyond(k) \/ (phase[k] = "running" /\ round[k] > 1))
           => <<1, k>> \in sent[j]
      /\ kind = "ping" /\ Beyond(k)
           => \A r \in 1..Last : k \in Targets(j, r) => <<r, k>> \in sent[j]

NodeInv == Typed /\ Links /\ Items /\ Sends /\ Heard

\* While nothing has gone wrong, who has gone has put a result.
Blameless ==
  faults = {} =>
    /\ \A k \in Node : phase[k] \in {"leaving", "ended"} => item[k] = "result"
    /\ kind # "ping" => killed = {}
    /\ driver = "joining" => got = Node
    /\ driver # "gaveUp"

\* The driver has taken only what was put.
Taken == got \subseteq Node /\ \A k \in got : item[k] # "none"

IInv == NodeInv /\ Blameless /\ Taken

-----------------------------------------------------------------------------
LEMMA LastFacts ==
  ASSUME Typed
  PROVE  /\ Last \in Nat /\ Last > 1
         /\ kind # "ping" => Last = Rounds
         /\ kind = "ping" => Last = 2
         /\ \A j \in Node, r \in 1..Last : Targets(j, r) \subseteq Node
BY SessionAssumption DEF Last, Targets

LEMMA SameRun ==
  ASSUME kind' = kind
  PROVE  Last' = Last /\ \A j, r : Targets(j, r)' = Targets(j, r)
BY DEF Last, Targets

\* Starting, connecting, closing and leaving: nothing is sent.
LEMMA QuietSteps ==
  ASSUME NodeInv, NEW k \in Node, kind' = kind,
         \/ Listen(k) \/ Begin(k) \/ CloseServer(k) \/ Stopped(k) \/ Exit(k)
         \/ \E j \in Node : Connect(k, j) \/ Close(k, j)
  PROVE  NodeInv'
<1>1. /\ Last' = Last /\ \A j, r : Targets(j, r)' = Targets(j, r)
      /\ Last \in Nat /\ Last > 1
  BY SameRun, LastFacts DEF NodeInv
<1>2. CASE Listen(k)
  BY <1>1, <1>2 DEF NodeInv, Typed, Links, Items, Sends, Heard, Beyond, Phase,
     Listen, In, Goto
<1>3. CASE Begin(k)
  BY <1>1, <1>3 DEF NodeInv, Typed, Links, Items, Sends, Heard, Beyond, Phase,
     Begin, In, Goto
<1>4. CASE CloseServer(k)
  <2> USE <1>1, <1>4 DEF NodeInv, CloseServer, In, Goto
  <2>1. Typed'
    BY DEF Typed, Phase
  <2>2. Links'
    BY DEF Typed, Links, Phase
  <2>3. Items'
    BY DEF Typed, Items, Phase
  <2>4. Sends'
    BY DEF Typed, Sends, Phase
  <2>5. Heard'
    BY DEF Typed, Items, Sends, Heard, Beyond, Phase
  <2> QED
    BY <2>1, <2>2, <2>3, <2>4, <2>5
<1>5. CASE Stopped(k)
  <2> USE <1>1, <1>5 DEF NodeInv, Stopped, In, Goto
  <2>1. Typed'
    BY DEF Typed, Phase
  <2>2. Links'
    BY DEF Typed, Links, Phase
  <2>3. Items'
    BY DEF Typed, Items, Phase
  <2>4. Sends'
    BY DEF Typed, Sends, Phase
  <2>5. Heard'
    BY DEF Typed, Items, Sends, Heard, Beyond, Phase
  <2> QED
    BY <2>1, <2>2, <2>3, <2>4, <2>5
<1>6. CASE Exit(k)
  BY <1>1, <1>6 DEF NodeInv, Typed, Links, Items, Sends, Heard, Beyond, Phase,
     Exit, In, Goto
<1>7. ASSUME NEW j \in Node, Connect(k, j)
      PROVE  NodeInv'
  BY <1>1, <1>7 DEF NodeInv, Typed, Links, Items, Sends, Heard, Beyond, Phase,
     Connect, Listening, In
<1>8. ASSUME NEW j \in Node, Close(k, j)
      PROVE  NodeInv'
  BY <1>1, <1>8 DEF NodeInv, Typed, Links, Items, Sends, Heard, Beyond, Phase,
     Close, In
<1> QED
  BY <1>2, <1>3, <1>4, <1>5, <1>6, <1>7, <1>8

LEMMA SendStep ==
  ASSUME NodeInv, NEW k \in Node, NEW j \in Node, kind' = kind, Send(k, j)
  PROVE  NodeInv'
<1>1. /\ Last' = Last /\ \A a, r : Targets(a, r)' = Targets(a, r)
      /\ Last \in Nat /\ Last > 1
  BY SameRun, LastFacts DEF NodeInv
<1>2. <<round[k], j>> \in (1..Last) \X Node
  BY DEF NodeInv, Typed
<1>3. \A a \in Node : sent[a] \subseteq sent'[a]
  BY DEF NodeInv, Typed, Send
<1>4. /\ conn' \in [Node -> [Node -> {"none", "open", "dead"}]]
      /\ \A a, b \in Node :
           \/ conn'[a][b] = conn[a][b]
           \/ conn'[a][b] = "open" /\ Listening(b)
      /\ sent' \in [Node -> SUBSET ((1..Last) \X Node)]
      /\ phase' = phase /\ round' = round /\ item' = item
  <2>1. CASE conn' = conn
    BY <1>2, <2>1 DEF NodeInv, Typed, Send
  <2>2. CASE Listening(j) /\ conn' = [conn EXCEPT ![k][j] = "open"]
    <3>1. sent' \in [Node -> SUBSET ((1..Last) \X Node)]
      BY <1>2 DEF NodeInv, Typed, Send
    <3> QED
      BY <2>2, <3>1 DEF NodeInv, Typed, Send
  <2> QED
    BY <2>1, <2>2 DEF Send
<1>5. Typed' /\ Links' /\ Items'
  <2>1. Typed'
    BY <1>1, <1>4 DEF NodeInv, Typed
  <2>2. Links'
    BY <1>4 DEF NodeInv, Typed, Links, Listening
  <2>3. Items'
    BY <1>4 DEF NodeInv, Items
  <2> QED
    BY <2>1, <2>2, <2>3
<1>6. Sends'
  BY <1>1, <1>3 DEF NodeInv, Typed, Sends, Send, In
<1>7. Heard'
  BY <1>1, <1>3 DEF NodeInv, Typed, Heard, Beyond, Send
<1> QED
  BY <1>5, <1>6, <1>7 DEF NodeInv

\* The end of a round, where what a node has heard and sent is settled.
LEMMA AdvanceStep ==
  ASSUME NodeInv, NEW k \in Node, kind' = kind, Advance(k)
  PROVE  NodeInv'
<1>1. /\ Last' = Last /\ \A a, r : Targets(a, r)' = Targets(a, r)
      /\ Last \in Nat /\ Last > 1
      /\ kind # "ping" => Last = Rounds
      /\ kind = "ping" => Last = 2
  BY SameRun, LastFacts DEF NodeInv
<1>2. /\ phase[k] = "running" /\ round[k] \in 1..Last
      /\ item[k] = "none"
  BY DEF NodeInv, Typed, Items, Advance, In
<1>3. \A r \in 1..round[k], j \in Node : j \in Targets(k, r) => <<r, j>> \in sent[k]
  BY <1>1, <1>2 DEF NodeInv, Typed, Sends, Advance, ToSend, Targets
<1>4. /\ phase' \in [Node -> Phase] /\ round' \in [Node -> 1..Last]
      /\ \A a \in Node \ {k} : phase'[a] = phase[a] /\ round'[a] = round[a]
      /\ \/ round[k] < Last /\ round'[k] = round[k] + 1 /\ phase'[k] = "running"
         \/ round[k] = Last /\ round'[k] = Last /\ phase'[k] = "closing"
      /\ conn' = conn /\ sent' = sent /\ item' = item
  <2>1. CASE round[k] < Last
    <3>1. phase' = phase /\ round' = [round EXCEPT ![k] = @ + 1]
      BY <2>1 DEF Advance
    <3>2. conn' = conn /\ sent' = sent /\ item' = item
      BY DEF Advance
    <3> QED
      BY <1>1, <1>2, <2>1, <3>1, <3>2 DEF NodeInv, Typed
  <2>2. CASE round[k] = Last
    <3>1. phase' = [phase EXCEPT ![k] = "closing"] /\ round' = round
      BY <1>1, <2>2 DEF Advance, Goto
    <3>2. conn' = conn /\ sent' = sent /\ item' = item
      BY DEF Advance
    <3> QED
      BY <1>1, <1>2, <2>2, <3>1, <3>2 DEF NodeInv, Typed, Phase
  <2> QED
    BY <1>1, <1>2, <2>1, <2>2
<1>5. Typed' /\ Links' /\ Items'
  BY <1>1, <1>2, <1>4 DEF NodeInv, Typed, Links, Items
<1>6. Sends'
  BY <1>1, <1>2, <1>3, <1>4 DEF NodeInv, Typed, Sends
<1>7. ASSUME NEW j \in Node, j # k, kind # "ping"
      PROVE  <<1, k>> \in sent[j]
  <2>1. CASE round[k] = 1
    <3>1. <<j, 1>> \in Awaited(k, 1)
      BY <1>1, <1>7, <2>1 DEF Awaited, Targets
    <3> QED
      BY <3>1, <2>1 DEF Advance, Arrived
  <2>2. CASE round[k] > 1
    BY <1>2, <1>7, <2>2 DEF NodeInv, Heard
  <2> QED
    BY <1>2, <2>1, <2>2 DEF NodeInv, Typed
<1>8. ASSUME NEW j \in Node, kind = "ping", round[k] = Last,
             NEW r \in 1..Last, k \in Targets(j, r)
      PROVE  <<r, k>> \in sent[j]
  <2>1. <<j, r>> \in Awaited(k, Last)
    BY <1>8 DEF Awaited
  <2> QED
    BY <2>1, <1>8 DEF Advance, Arrived
<1>9. Heard'
  BY <1>1, <1>2, <1>4, <1>7, <1>8 DEF NodeInv, Heard, Beyond
<1> QED
  BY <1>5, <1>6, <1>9 DEF NodeInv

\* A process ends, or leaves its event loop with an exception.
LEMMA GoneStep ==
  ASSUME NodeInv, NEW k \in Node, kind' = kind,
         \/ Fail(k) /\ phase[k] \in {"starting", "connecting", "running"}
         \/ Die(k)
  PROVE  NodeInv'
<1>1. /\ Last' = Last /\ \A a, r : Targets(a, r)' = Targets(a, r)
      /\ Last \in Nat /\ Last > 1
  BY SameRun, LastFacts DEF NodeInv
<1>2. /\ phase' \in [Node -> Phase] /\ phase'[k] \in {"leaving", "ended"}
      /\ \A a \in Node \ {k} : phase'[a] = phase[a] /\ item'[a] = item[a]
      /\ item' \in [Node -> {"none", "result", "error"}]
      /\ item'[k] = "result" => item[k] = "result"
      /\ round' = round /\ sent' = sent /\ conn' = WithoutNode(k)
  BY DEF NodeInv, Typed, Phase, Fail, Die, Goto
<1>3. Typed'
  BY <1>1, <1>2 DEF NodeInv, Typed, WithoutNode
<1>4. ASSUME NEW a \in Node, NEW b \in Node
      PROVE  /\ conn'[a][b] = "open" => conn[a][b] = "open" /\ b # k
             /\ conn'[a][b] = "dead" =>
                  conn[a][b] = "dead" \/ (conn[a][b] = "open" /\ b = k)
             /\ a # k /\ conn[a][b] # "none" => conn'[a][b] # "none"
  BY <1>2 DEF WithoutNode
<1>5. \A a \in Node : conn[a][k] = "open" => item'[k] # "result"
  BY <1>2 DEF NodeInv, Links, Items
<1>6. Links'
  BY <1>2, <1>4, <1>5 DEF NodeInv, Links
<1>7. Items'
  BY <1>2 DEF NodeInv, Items
<1>8. Sends'
  BY <1>1, <1>2 DEF NodeInv, Sends
<1>9. Heard'
  BY <1>1, <1>2 DEF NodeInv, Heard, Beyond
<1> QED
  BY <1>3, <1>6, <1>7, <1>8, <1>9 DEF NodeInv

-----------------------------------------------------------------------------
LEMMA NodeInvKept ==
  ASSUME NodeInv, [Next]_vars
  PROVE  NodeInv'
<1>1. CASE UNCHANGED <<kind, node>>
  BY <1>1 DEF NodeInv, Typed, Links, Items, Sends, Heard, Beyond, Last, Targets, node
<1>2. ASSUME NEW k \in Node, NodeStep(k), kind' = kind
      PROVE  NodeInv'
  BY <1>2, QuietSteps, SendStep, AdvanceStep DEF NodeStep
<1>3. ASSUME NEW k \in Node, TimeOut(k) \/ \E j \in Node : Refused(k, j), kind' = kind
      PROVE  NodeInv'
  BY <1>3, GoneStep DEF TimeOut, Refused, In
<1>4. ASSUME NEW k \in Node, Fault(k), kind' = kind
      PROVE  NodeInv'
  BY <1>1, <1>4, GoneStep DEF Fault
<1>5. ASSUME DriverStep, kind' = kind
      PROVE  NodeInv'
  BY <1>1, <1>5, GoneStep DEF DriverStep, Deadline, Finish, Collect, Reap
<1> QED
  BY <1>1, <1>2, <1>3, <1>4, <1>5 DEF Next, Step, vars

LEMMA InitInv == Init => IInv
<1> SUFFICES ASSUME Init PROVE IInv
  OBVIOUS
<1>1. Last \in Nat /\ Last > 1
  BY SessionAssumption DEF Last
<1>2. Typed
  BY <1>1 DEF Init, Typed, Phase
<1>3. Links /\ Items /\ Sends /\ Heard
  BY <1>1 DEF Init, Links, Items, Sends, Heard, Beyond
<1> QED
  BY <1>2, <1>3 DEF Init, IInv, NodeInv, Blameless, Taken

\* While nothing has gone wrong a node that still has something to send to
\* another one is not refused.
LEMMA NobodyIsRefused ==
  ASSUME IInv, faults = {}, NEW k \in Node, NEW j \in Node
  PROVE  ~Refused(k, j)
<1> SUFFICES ASSUME Refused(k, j) PROVE FALSE
  OBVIOUS
<1>1. /\ phase[k] = "running" /\ j \in Targets(k, round[k])
      /\ <<round[k], j>> \notin sent[k] /\ round[k] \in 1..Last
      /\ conn[k][j] \in {"none", "dead"}
      /\ phase[j] \in {"waiting", "leaving", "ended"}
  <2>1. /\ phase \in [Node -> Phase] /\ round[k] \in 1..Last
        /\ conn[k][j] \in {"none", "open", "dead"}
    BY DEF IInv, NodeInv, Typed
  <2>2. phase[j] \in Phase
    BY <2>1
  <2>3. /\ phase[k] = "running" /\ j \in ToSend(k)
        /\ conn[k][j] # "open" /\ ~Listening(j) /\ phase[j] # "starting"
    BY DEF Refused, In
  <2> QED
    BY <2>1, <2>2, <2>3 DEF Phase, ToSend, Listening
<1>2. j # k
  BY <1>1
<1>3. Beyond(j)
  BY <1>1 DEF IInv, Blameless, Beyond
<1>4. CASE kind = "ping"
  BY <1>1, <1>2, <1>3, <1>4 DEF IInv, NodeInv, Heard
<1>5. CASE kind # "ping"
  <2>1. conn[k][j] = "dead"
    BY <1>1, <1>2, <1>5 DEF IInv, NodeInv, Links
  <2> QED
    BY <2>1 DEF IInv, NodeInv, Links, Blameless
<1> QED
  BY <1>4, <1>5

LEMMA TakenKept ==
  ASSUME IInv, [Next]_vars
  PROVE  Taken'
<1>1. \A k \in Node : item[k] # "none" => item'[k] # "none"
  <2>1. ASSUME NEW k \in Node, NodeStep(k)
        PROVE  \A a \in Node : item[a] # "none" => item'[a] # "none"
    BY <2>1 DEF IInv, NodeInv, Typed, NodeStep, Listen, Begin, Advance, CloseServer,
       Stopped, Exit, Connect, Send, Close
  <2>2. ASSUME NEW k \in Node, Fail(k) \/ Die(k)
        PROVE  \A a \in Node : item[a] # "none" => item'[a] # "none"
    BY <2>2 DEF IInv, NodeInv, Typed, Fail, Die
  <2> QED
    BY <2>1, <2>2 DEF Next, Step, DriverStep, Deadline, Finish, Collect, Reap,
       TimeOut, Refused, Fault, node, vars
<1>2. got' = got \/ \E k \in Node : item[k] # "none" /\ got' = got \union {k}
  <2>1. CASE DriverStep
    BY <2>1 DEF DriverStep, Deadline, Finish, Collect, Reap
  <2>2. CASE got' = got
    BY <2>2
  <2> QED
    BY <2>1, <2>2 DEF Next, Step, vars
<1> QED
  BY <1>1, <1>2 DEF IInv, Taken

LEMMA BlamelessKept ==
  ASSUME IInv, [Next]_vars
  PROVE  Blameless'
<1> SUFFICES ASSUME faults' = {}
             PROVE  /\ \A a \in Node : phase'[a] \in {"leaving", "ended"}
                                         => item'[a] = "result"
                    /\ kind' # "ping" => killed' = {}
                    /\ driver' = "joining" => got' = Node
                    /\ driver' # "gaveUp"
  BY DEF Blameless
<1>1. \A k \in Node : ~Fault(k)
  BY DEF Fault
<1>2. /\ faults = {} /\ kind' = kind
      /\ \/ DriverStep
         \/ UNCHANGED <<killed, driver, got>>
  BY <1>1 DEF Next, Step, vars
<1>3. /\ \A a \in Node : phase[a] \in {"leaving", "ended"} => item[a] = "result"
      /\ kind # "ping" => killed = {}
      /\ driver = "joining" => got = Node
      /\ driver # "gaveUp"
  BY <1>2 DEF IInv, Blameless
<1>4. CASE DriverStep
  <2>1. CASE Deadline
    BY <1>2, <2>1 DEF Deadline
  <2>2. CASE Finish
    <3>1. \A a \in Node : phase[a] = "ended"
      BY <1>2, <2>2 DEF Finish
    <3>2. Whole
      BY <1>3, <2>2, <3>1 DEF Finish, Whole
    <3> QED
      BY <1>2, <1>3, <2>2, <3>2 DEF Finish, node
  <2>3. ASSUME NEW k \in Node, Collect(k)
        PROVE  /\ phase' = phase /\ item' = item /\ killed' = killed
               /\ driver' = "joining" => got' = Node
               /\ driver' # "gaveUp"
    <3>1. item[k] = "result"
      BY <1>3, <2>3 DEF Collect, IInv, NodeInv, Items
    <3> QED
      BY <1>3, <2>3, <3>1 DEF Collect, node
  <2>4. ASSUME NEW k \in Node, Reap(k)
        PROVE  /\ item' = item /\ kind = "ping" /\ UNCHANGED <<driver, got>>
               /\ \A a \in Node \ {k} : phase'[a] = phase[a]
               /\ item[k] = "result"
    <3>1. kind = "ping" /\ got = Node
      BY <1>2, <1>3, <2>4 DEF Reap
    <3>2. item[k] = "result"
      BY <1>3, <3>1 DEF IInv, Taken, NodeInv, Items
    <3> QED
      BY <2>4, <3>1, <3>2 DEF Reap, Die, Goto, IInv, NodeInv, Typed
  <2> QED
    BY <1>2, <1>3, <1>4, <2>1, <2>2, <2>3, <2>4 DEF DriverStep
<1>5. CASE UNCHANGED <<killed, driver, got>>
  <2>1. ASSUME NEW k \in Node, NodeStep(k)
        PROVE  \A a \in Node : phase'[a] \in {"leaving", "ended"} => item'[a] = "result"
    BY <1>3, <2>1 DEF IInv, NodeInv, Typed, NodeStep, Listen, Begin, Advance,
       CloseServer, Stopped, Exit, Connect, Send, Close, In, Goto
  <2>2. \A k \in Node : ~TimeOut(k)
    BY <1>2 DEF TimeOut
  <2>3. \A k, j \in Node : ~Refused(k, j)
    BY <1>2, NobodyIsRefused
  <2>4. CASE UNCHANGED node
    BY <1>2, <1>3, <1>5, <2>4 DEF node
  <2>5. CASE DriverStep
    BY <1>4, <2>5
  <2> QED
    BY <1>1, <1>2, <1>3, <1>5, <2>1, <2>2, <2>3, <2>4, <2>5 DEF Next, Step, vars
<1> QED
  BY <1>2, <1>4, <1>5

\* The inductive invariant holds in every run.
THEOREM Inductive == Spec => []IInv
<1>1. IInv /\ [Next]_vars => IInv'
  BY NodeInvKept, BlamelessKept, TakenKept DEF IInv
<1> QED
  BY <1>1, InitInv, PTL DEF Spec

-----------------------------------------------------------------------------
\* A node that still has something to send is not behind one that has
\* stopped: its connection would be open, or it would not be connected yet and
\* the other could not have heard it.
LEMMA InvBarrier == NodeInv => StopIsBarrier
<1> SUFFICES ASSUME NodeInv, NEW j \in Node, NEW k \in Node, item[k] = "result",
                    phase[j] \notin {"leaving", "ended"},
                    NEW r \in 1..Last, k \in Targets(j, r)
             PROVE  <<r, k>> \in sent[j]
  BY DEF StopIsBarrier
<1>1. phase[k] \in {"leaving", "ended"} /\ j # k /\ Beyond(k)
  BY DEF NodeInv, Items, Beyond
<1>2. CASE kind = "ping"
  BY <1>1, <1>2 DEF NodeInv, Heard
<1>3. CASE kind # "ping"
  <2>1. phase[j] \notin {"starting", "connecting"}
    <3>1. <<1, k>> \in sent[j]
      BY <1>1, <1>3 DEF NodeInv, Heard
    <3> QED
      BY <3>1 DEF NodeInv, Sends
  <2>2. phase[j] # "running"
    <3>1. conn[j][k] \in {"none", "open", "dead"}
      <4>1. conn \in [Node -> [Node -> {"none", "open", "dead"}]]
        BY DEF NodeInv, Typed
      <4> QED
        BY <4>1, Zenon
    <3>2. /\ conn[j][k] # "open" /\ conn[j][k] # "dead"
          /\ phase[j] = "running" => conn[j][k] # "none"
      BY <1>1, <1>3 DEF NodeInv, Links
    <3> QED
      BY <3>1, <3>2
  <2>3. phase[j] \in {"closing", "waiting"}
    BY <2>1, <2>2 DEF NodeInv, Typed, Phase
  <2> QED
    BY <2>3 DEF NodeInv, Sends
<1> QED
  BY <1>2, <1>3

\* stop_server is a barrier for every number of nodes and rounds, every set of
\* nodes that do not wait for the last messages, and any faults.
THEOREM Barrier == Spec => []StopIsBarrier
BY Inductive, InvBarrier, PTL DEF IInv

\* Nothing in the way nodes connect, stop and are collected makes a run fail.
THEOREM Cause == Spec => []FailureHasCause
<1>1. IInv => FailureHasCause
  BY DEF IInv, NodeInv, Items, Blameless, FailureHasCause
<1> QED
  BY <1>1, Inductive, PTL
=============================================================================
