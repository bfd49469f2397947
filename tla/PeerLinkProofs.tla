--------------------------- MODULE PeerLinkProofs ---------------------------
(***************************************************************************)
(* Proofs about PeerLink.  Both properties follow from what the holder of  *)
(* the lock leaves behind: a frame that is not sent once and for all is    *)
(* either being written by the holder, or its first connection is lost.    *)
(***************************************************************************)
EXTENDS PeerLink, SequenceTheorems, TLAPS

\* Nobody but the holder of the lock is between write and drain.
HolderDrains ==
  \A f \in Frame :
    pc[f] \in {"draining", "failing"} => queue # <<>> /\ Head(queue) = f

\* The state of the sends that a connection has taken.
SentOnce(f) == pc[f] = "done" /\ Len(on[f]) = 1
Writing(f) == pc[f] \in {"draining", "failing"} /\ Len(on[f]) = 1 /\ on[f][1] = writer[f]

FirstIsLost ==
  \A f \in Frame :
    on[f] # <<>> => SentOnce(f) \/ Writing(f) \/ link[on[f][1]] = "lost"

OneUnsettled ==
  \A f, g \in Frame :
    f # g /\ on[f] # <<>> /\ on[g] # <<>> /\ on[f][1] = on[g][1]
      => SentOnce(f) \/ SentOnce(g)

\* What is written stays where NoQuietLoss looks for it.
Reached(f) ==
  /\ on[f] # <<>>
  /\ delivered[f] > 0 \/ Last(f) \in cut \/ f \in flight[Last(f)]

WrittenReaches ==
  /\ \A f \in Frame : pc[f] \in {"draining", "done"} => Reached(f)
  /\ \A c \in Conn : link[c] = "broken" => c \in cut

\* Whoever waits for the lock or has it has a writer.
WriterThere ==
  \A f \in Frame : pc[f] \in {"queued", "draining", "failing"} => writer[f] \in Conn

Base == TypeOK /\ HolderDrains /\ WriterThere

IInv == Base /\ FirstIsLost /\ OneUnsettled /\ WrittenReaches

-----------------------------------------------------------------------------
(* Sequences and writing.                                                  *)

LEMMA AppendFacts ==
  ASSUME NEW S, NEW s \in Seq(S), NEW x \in S
  PROVE  /\ Append(s, x) \in Seq(S) /\ Append(s, x) # <<>>
         /\ Len(Append(s, x)) = Len(s) + 1
         /\ Append(s, x)[Len(s) + 1] = x
         /\ s # <<>> => Append(s, x)[1] = s[1] /\ Head(Append(s, x)) = Head(s)
         /\ s = <<>> => Append(s, x)[1] = x /\ Head(Append(s, x)) = x
<1>1. /\ Append(s, x) \in Seq(S) /\ Append(s, x) # <<>>
      /\ Len(Append(s, x)) = Len(s) + 1
      /\ Append(s, x)[Len(s) + 1] = x
      /\ \A i \in 1..Len(s) : Append(s, x)[i] = s[i]
  BY AppendProperties
<1>2. ASSUME s # <<>> PROVE Len(s) \in Nat /\ 1 <= Len(s)
  BY <1>2
<1> QED
  BY <1>1, <1>2

LEMMA LengthFacts ==
  ASSUME NEW S, NEW s \in Seq(S)
  PROVE  /\ Len(s) \in Nat
         /\ s # <<>> <=> Len(s) > 0
         /\ s # <<>> => s[1] \in S /\ s[Len(s)] \in S /\ Tail(s) \in Seq(S)
  OBVIOUS

\* What a writer.write does to the frame, and to nothing else.
LEMMA Transmission ==
  ASSUME TypeOK, NEW f \in Frame, NEW c \in Conn, Transmit(f, c)
  PROVE  /\ pc' \in [Frame -> Stage] /\ on' \in [Frame -> Seq(Conn)]
         /\ flight' \in [Conn -> SUBSET Frame]
         /\ pc'[f] \in {"draining", "failing"}
         /\ \A g \in Frame \ {f} : pc'[g] = pc[g] /\ on'[g] = on[g]
         /\ \/ /\ on'[f] = Append(on[f], c)
               /\ link'[c] # "lost" /\ (link'[c] = "broken" \/ f \in flight'[c])
            \/ on'[f] = on[f] /\ pc'[f] = "failing"
         /\ \A b \in Conn : flight[b] \subseteq flight'[b]
<1>1. CASE /\ link'[c] \in {"open", "broken"} \/ (link'[c] = "closing" /\ flight[c] # {})
           /\ pc' = [pc EXCEPT ![f] = "draining"] \/ (IsClosing(c) /\ pc' = [pc EXCEPT ![f] = "failing"])
           /\ on' = [on EXCEPT ![f] = Append(@, c)]
           /\ flight' = [flight EXCEPT ![c] = IF link'[c] = "broken" THEN @ ELSE @ \union {f}]
  <2>1. Append(on[f], c) \in Seq(Conn)
    BY AppendFacts DEF TypeOK
  <2>2. pc' \in [Frame -> Stage] /\ pc'[f] \in {"draining", "failing"}
        /\ \A g \in Frame \ {f} : pc'[g] = pc[g]
    BY <1>1 DEF TypeOK, Stage
  <2>3. on' \in [Frame -> Seq(Conn)] /\ on'[f] = Append(on[f], c)
        /\ \A g \in Frame \ {f} : on'[g] = on[g]
    BY <1>1, <2>1 DEF TypeOK
  <2>4. /\ flight' \in [Conn -> SUBSET Frame]
        /\ link'[c] = "broken" \/ f \in flight'[c]
        /\ \A b \in Conn : flight[b] \subseteq flight'[b]
    BY <1>1 DEF TypeOK
  <2> QED
    BY <1>1, <2>2, <2>3, <2>4
<1>2. CASE /\ link'[c] \in {"closing", "lost"}
           /\ pc' = [pc EXCEPT ![f] = "failing"]
           /\ UNCHANGED <<on, flight>>
  BY <1>2 DEF TypeOK, Stage
<1> QED
  BY <1>1, <1>2 DEF Transmit

\* A connection that is closed by a task: none comes back, and none breaks.
LostStays ==
  \A c \in Conn : /\ link[c] = "lost" => link'[c] = "lost"
                  /\ link'[c] = "broken" => link[c] = "broken"

LEMMA RegisteredCloses ==
  ASSUME TypeOK, NEW f \in Frame, CloseRegistered(f)
  PROVE  /\ link' \in [Conn -> State] /\ LostStays
         /\ registered' \in Conn \union {None}
         /\ writer' \in [Frame -> Conn \union {None}]
         /\ \A g \in Frame \ {f} : writer'[g] = writer[g]
<1>1. \A c \in Conn : link[c] \in State
  BY DEF TypeOK
<1>2. link' = [c \in Conn |-> IF c = registered THEN AfterClose(c) ELSE link[c]]
  BY DEF CloseRegistered
<1>3. link' \in [Conn -> State] /\ LostStays
  BY <1>1, <1>2 DEF LostStays, AfterClose, State
<1>4. /\ registered' \in Conn \union {None}
      /\ writer' \in [Frame -> Conn \union {None}]
      /\ \A g \in Frame \ {f} : writer'[g] = writer[g]
  BY DEF CloseRegistered, TypeOK
<1> QED
  BY <1>3, <1>4

LEMMA FailureCloses ==
  ASSUME TypeOK, NEW f \in Frame, DrainRaises(f)
  PROVE  /\ link' \in [Conn -> State] /\ LostStays
         /\ registered' \in Conn \union {None}
         /\ writer' \in [Frame -> Conn \union {None}]
         /\ \A g \in Frame \ {f} : writer'[g] = writer[g]
<1>1. \A c \in Conn : link[c] \in State
  BY DEF TypeOK
<1>2. link' = [c \in Conn |->
                 IF c = writer[f] THEN "lost"
                 ELSE IF c = registered THEN AfterClose(c) ELSE link[c]]
  BY DEF DrainRaises
<1>3. \A c \in Conn : /\ link'[c] \in State
                      /\ link[c] = "lost" => link'[c] = "lost"
                      /\ link'[c] = "broken" => link[c] = "broken"
  <2> TAKE c \in Conn
  <2>1. link'[c] = IF c = writer[f] THEN "lost"
                   ELSE IF c = registered THEN AfterClose(c) ELSE link[c]
    BY <1>2
  <2> QED
    BY <1>1, <2>1 DEF AfterClose, State
<1>4. link' \in [Conn -> State]
  <2>1. link' = [c \in Conn |-> link'[c]]
    BY <1>2
  <2> QED
    BY <1>3, <2>1
<1>5. /\ registered' \in Conn \union {None}
      /\ writer' \in [Frame -> Conn \union {None}]
      /\ \A g \in Frame \ {f} : writer'[g] = writer[g]
  BY DEF DrainRaises, TypeOK
<1> QED
  BY <1>3, <1>4, <1>5 DEF LostStays

-----------------------------------------------------------------------------
(* Types, and who is between write and drain.                              *)

LEMMA InitBase == Init => IInv
<1> SUFFICES ASSUME Init PROVE IInv
  OBVIOUS
<1>1. TypeOK
  BY LinkAssumption DEF Init, TypeOK, Stage, State
<1>2. /\ HolderDrains /\ WriterThere /\ FirstIsLost /\ OneUnsettled /\ WrittenReaches
  BY DEF Init, HolderDrains, WriterThere, FirstIsLost, OneUnsettled, WrittenReaches
<1> QED
  BY <1>1, <1>2 DEF IInv, Base

LEMMA EnterKeepsBase ==
  ASSUME Base, NEW f \in Frame, NEW c \in Conn, Enter(f, c)
  PROVE  /\ pc' \in [Frame -> Stage] /\ on' \in [Frame -> Seq(Conn)]
         /\ flight' \in [Conn -> SUBSET Frame]
         /\ writer' \in [Frame -> Conn \union {None}] /\ queue' \in Seq(Frame)
         /\ HolderDrains' /\ WriterThere'
<1>1. /\ queue' = Append(queue, f) /\ queue' \in Seq(Frame) /\ queue' # <<>>
      /\ queue = <<>> => Head(queue') = f
      /\ queue # <<>> => Head(queue') = Head(queue)
  BY AppendFacts DEF Enter, Base, TypeOK
<1>2. /\ writer' \in [Frame -> Conn \union {None}] /\ writer'[f] = c
      /\ \A g \in Frame \ {f} : writer'[g] = writer[g]
  BY DEF Enter, Base, TypeOK
<1>3. CASE queue = <<>> /\ Transmit(f, c)
  <2>1. \A g \in Frame : pc[g] \notin {"draining", "failing"}
    BY <1>3 DEF Base, HolderDrains
  <2> QED
    BY <1>1, <1>2, <1>3, <2>1, Transmission DEF Base, HolderDrains, WriterThere
<1>4. CASE /\ queue # <<>>
           /\ pc' = [pc EXCEPT ![f] = "queued"]
           /\ UNCHANGED <<on, flight>>
  BY <1>1, <1>2, <1>4 DEF Base, TypeOK, HolderDrains, WriterThere, Stage
<1> QED
  BY <1>3, <1>4 DEF Enter

LEMMA StepKeepsBase == Base /\ [Next]_vars => Base'
<1> SUFFICES ASSUME Base, [Next]_vars PROVE Base'
  OBVIOUS
<1> USE DEF Base
<1>1. ASSUME NEW f \in Frame, UseRegistered(f) PROVE Base'
  <2>1. registered \in Conn
    BY <1>1 DEF UseRegistered, TypeOK
  <2> QED
    BY <1>1, <2>1, EnterKeepsBase DEF UseRegistered, TypeOK
<1>2. ASSUME NEW f \in Frame, Connect(f) PROVE Base'
  <2>1. TypeOK'
    BY <1>2, RegisteredCloses DEF Connect, TypeOK, Stage
  <2> QED
    BY <1>2, <2>1, RegisteredCloses DEF Connect, TypeOK, HolderDrains, WriterThere
<1>3. ASSUME NEW f \in Frame, NEW c \in Conn, Opened(f, c) PROVE Base'
  BY <1>3, EnterKeepsBase DEF Opened, TypeOK, State
<1>4. ASSUME NEW f \in Frame, Woken(f) PROVE Base'
  <2>1. writer[f] \in Conn /\ Transmit(f, writer[f])
    BY <1>4 DEF Woken, WriterThere
  <2> QED
    BY <1>4, <2>1, Transmission DEF Woken, TypeOK, HolderDrains, WriterThere
<1>5. ASSUME NEW f \in Frame, Drained(f) \/ DrainRaises(f) PROVE Base'
  <2>1. queue # <<>> /\ Head(queue) = f
    BY <1>5 DEF Drained, DrainRaises, HolderDrains
  <2>2. \A g \in Frame : pc[g] \in {"draining", "failing"} => g = f
    BY <2>1 DEF HolderDrains
  <2>3. queue' \in Seq(Frame)
    <3>1. queue' = Tail(queue)
      BY <1>5 DEF Drained, DrainRaises, Release
    <3>2. queue \in Seq(Frame)
      BY DEF TypeOK
    <3> QED
      BY <2>1, <3>1, <3>2, LengthFacts
  <2>4. ASSUME Drained(f) PROVE TypeOK'
    BY <2>3, <2>4 DEF Drained, TypeOK, Stage
  <2>5. ASSUME DrainRaises(f) PROVE TypeOK'
    <3>1. pc' \in [Frame -> Stage]
      BY <2>5 DEF DrainRaises, TypeOK, Stage
    <3>2. /\ attempt' \in [Frame -> 1..2] /\ on' \in [Frame -> Seq(Conn)]
          /\ flight' \in [Conn -> SUBSET Frame] /\ delivered' \in [Frame -> Nat]
          /\ cut' \subseteq Conn /\ refused' \in Nat
      BY <2>5 DEF DrainRaises, TypeOK
    <3> QED
      BY <2>3, <2>5, <3>1, <3>2, FailureCloses DEF TypeOK
  <2>6. \A g \in Frame : pc'[g] \notin {"draining", "failing"}
    BY <1>5, <2>2 DEF Drained, DrainRaises, TypeOK
  <2>7. \A g \in Frame : pc'[g] = "queued" => pc[g] = "queued" /\ writer'[g] = writer[g]
    BY <1>5 DEF Drained, DrainRaises, TypeOK
  <2> QED
    BY <1>5, <2>4, <2>5, <2>6, <2>7 DEF HolderDrains, WriterThere
<1>6. ASSUME NEW f \in Frame, Refuse(f) PROVE Base'
  <2>1. TypeOK'
    BY <1>6, RegisteredCloses DEF Refuse, TypeOK, Stage
  <2> QED
    BY <1>6, <2>1, RegisteredCloses DEF Refuse, TypeOK, HolderDrains, WriterThere
<1>7. ASSUME NEW f \in Frame, Retry(f) PROVE Base'
  BY <1>7 DEF Retry, TypeOK, Stage, HolderDrains, WriterThere
<1>8. ASSUME NEW c \in Conn, LoopStep(c) \/ Break(c) PROVE Base'
  <2>1. CASE Lose(c)
    BY <2>1 DEF Lose, TypeOK, State, HolderDrains, WriterThere
  <2>2. CASE \E f \in Frame : Receive(c, f)
    BY <2>2 DEF Receive, TypeOK, HolderDrains, WriterThere
  <2>3. CASE Break(c)
    BY <2>3 DEF Break, TypeOK, State, HolderDrains, WriterThere
  <2> QED
    BY <1>8, <2>1, <2>2, <2>3 DEF LoopStep
<1>9. CASE UNCHANGED vars
  BY <1>9 DEF vars, TypeOK, HolderDrains, WriterThere
<1> QED
  BY <1>1, <1>2, <1>3, <1>4, <1>5, <1>6, <1>7, <1>8, <1>9 DEF Next, TaskStep
-----------------------------------------------------------------------------
(* What a connection has taken.                                            *)

\* A step in which no connection takes a frame.
LEMMA Settling ==
  ASSUME IInv, LostStays, on' = on,
         \A g \in Frame : pc[g] = "done" => pc'[g] = "done",
         \A g \in Frame : pc[g] \in {"draining", "failing"} =>
           \/ pc'[g] = pc[g] /\ writer'[g] = writer[g]
           \/ pc'[g] = "done"
           \/ link'[writer[g]] = "lost"
  PROVE  FirstIsLost' /\ OneUnsettled'
<1>1. \A g \in Frame : SentOnce(g) => SentOnce(g)'
  BY DEF SentOnce
<1>2. \A g \in Frame : Writing(g) => SentOnce(g)' \/ Writing(g)' \/ link'[on[g][1]] = "lost"
  BY DEF SentOnce, Writing
<1>3. \A g \in Frame : on[g] # <<>> => on[g][1] \in Conn
  BY LengthFacts DEF IInv, Base, TypeOK
<1>4. FirstIsLost'
  BY <1>1, <1>2, <1>3 DEF IInv, FirstIsLost, LostStays
<1>5. OneUnsettled'
  BY <1>1 DEF IInv, OneUnsettled
<1> QED
  BY <1>4, <1>5

\* What has been reached stays so while nothing is taken off a connection.
LEMMA Reaching ==
  ASSUME TypeOK, NEW g \in Frame, Reached(g), on'[g] = on[g], delivered' = delivered,
         cut \subseteq cut', \A b \in Conn : flight[b] \subseteq flight'[b]
  PROVE  Reached(g)'
<1>1. on[g] # <<>> /\ Last(g) \in Conn
  BY LengthFacts DEF TypeOK, Reached, Last
<1>2. Last(g)' = Last(g)
  BY DEF Last
<1> QED
  BY <1>1, <1>2 DEF Reached

LEMMA Untaken ==
  ASSUME IInv, LostStays, UNCHANGED <<on, delivered, flight, cut>>,
         \A g \in Frame : pc[g] = "done" => pc'[g] = "done",
         \A g \in Frame : pc'[g] \in {"draining", "done"} => pc[g] \in {"draining", "done"},
         \A g \in Frame : pc[g] \in {"draining", "failing"} =>
           \/ pc'[g] = pc[g] /\ writer'[g] = writer[g]
           \/ pc'[g] = "done"
           \/ link'[writer[g]] = "lost"
  PROVE  FirstIsLost' /\ OneUnsettled' /\ WrittenReaches'
<1>1. \A g \in Frame : pc'[g] \in {"draining", "done"} => Reached(g)'
  BY Reaching DEF IInv, Base, WrittenReaches
<1>2. \A c \in Conn : link'[c] = "broken" => c \in cut'
  BY DEF IInv, WrittenReaches, LostStays
<1> QED
  BY <1>1, <1>2, Settling DEF WrittenReaches

\* The holder of the lock writes f to connection c.
LEMMA Taking ==
  ASSUME IInv, LostStays, NEW f \in Frame, NEW c \in Conn, Transmit(f, c),
         delivered' = delivered, cut' = cut, writer'[f] = c,
         pc[f] \in {"start", "opening", "queued"},
         \A g \in Frame \ {f} : writer'[g] = writer[g] /\ pc[g] \notin {"draining", "failing"}
  PROVE  FirstIsLost' /\ OneUnsettled' /\ WrittenReaches'
<1> USE DEF IInv, Base
<1>0. /\ pc'[f] \in {"draining", "failing"}
      /\ \A g \in Frame \ {f} : pc'[g] = pc[g] /\ on'[g] = on[g]
      /\ \/ /\ on'[f] = Append(on[f], c)
            /\ link'[c] # "lost" /\ (link'[c] = "broken" \/ f \in flight'[c])
         \/ on'[f] = on[f] /\ pc'[f] = "failing"
      /\ \A b \in Conn : flight[b] \subseteq flight'[b]
  BY Transmission
<1>1. \A b \in Conn : link'[b] = "broken" => b \in cut'
  BY DEF WrittenReaches, LostStays
<1>2. \A g \in Frame \ {f} : pc'[g] \in {"draining", "done"} => Reached(g)'
  BY <1>0, Reaching DEF WrittenReaches
<1>3. \A g \in Frame : ~Writing(g)
  BY DEF Writing
<1>4. \A g \in Frame \ {f} : SentOnce(g) => SentOnce(g)'
  BY <1>0 DEF SentOnce
<1>5. ~SentOnce(f)
  BY DEF SentOnce
<1>6. \A g \in Frame : on[g] # <<>> => on[g][1] \in Conn
  BY LengthFacts DEF TypeOK
<1>7. \A g \in Frame \ {f} :
        on'[g] # <<>> => SentOnce(g)' \/ (link[on[g][1]] = "lost" /\ link'[on'[g][1]] = "lost")
  <2> TAKE g \in Frame \ {f}
  <2> SUFFICES ASSUME on'[g] # <<>>, ~SentOnce(g)' PROVE link[on[g][1]] = "lost" /\ link'[on'[g][1]] = "lost"
    OBVIOUS
  <2>1. on'[g] = on[g] /\ on[g] # <<>> /\ on[g][1] \in Conn
    BY <1>0, <1>6
  <2>2. ~SentOnce(g) /\ ~Writing(g)
    BY <1>3, <1>4
  <2>3. link[on[g][1]] = "lost"
    BY <2>1, <2>2 DEF FirstIsLost
  <2> QED
    BY <2>1, <2>3 DEF LostStays
<1>8. on[f] # <<>> => link[on[f][1]] = "lost" /\ link'[on[f][1]] = "lost"
  BY <1>3, <1>5, <1>6 DEF FirstIsLost, LostStays
<1>9. CASE on'[f] = on[f] /\ pc'[f] = "failing"
  <2>1. FirstIsLost'
    BY <1>0, <1>7, <1>8, <1>9 DEF FirstIsLost
  <2>2. \A g \in Frame : on'[g] = on[g]
    BY <1>0, <1>9
  <2>3. OneUnsettled'
    BY <1>4, <1>5, <2>2 DEF OneUnsettled
  <2>4. WrittenReaches'
    BY <1>1, <1>2, <1>9 DEF WrittenReaches
  <2> QED
    BY <2>1, <2>3, <2>4
<1>10. CASE /\ on'[f] = Append(on[f], c)
            /\ link'[c] # "lost" /\ (link'[c] = "broken" \/ f \in flight'[c])
  <2>1. /\ on'[f] # <<>> /\ on'[f][Len(on'[f])] = c
        /\ on[f] # <<>> => on'[f][1] = on[f][1]
        /\ on[f] = <<>> => on'[f][1] = c /\ Len(on'[f]) = 1
    <3>1. on[f] \in Seq(Conn)
      BY DEF TypeOK
    <3> QED
      BY <1>10, <3>1, AppendFacts
  <2>2. on'[f] # <<>> => Writing(f)' \/ link'[on'[f][1]] = "lost"
    BY <1>0, <1>8, <2>1 DEF Writing
  <2>3. FirstIsLost'
    BY <1>7, <2>2 DEF FirstIsLost
  <2>4. ASSUME NEW g \in Frame \ {f}, on'[g] # <<>>, on'[g][1] = on'[f][1]
        PROVE  SentOnce(g)'
    <3>1. CASE on[f] # <<>>
      BY <1>0, <1>4, <1>5, <2>1, <2>4, <3>1 DEF OneUnsettled
    <3>2. CASE on[f] = <<>>
      BY <1>7, <1>10, <2>1, <2>4, <3>2
    <3> QED
      BY <3>1, <3>2
  <2>5. ASSUME NEW g \in Frame \ {f}, NEW h \in Frame \ {f}, g # h,
               on'[g] # <<>>, on'[h] # <<>>, on'[g][1] = on'[h][1]
        PROVE  SentOnce(g)' \/ SentOnce(h)'
    BY <1>0, <1>4, <2>5 DEF OneUnsettled
  <2>6. OneUnsettled'
    BY <2>4, <2>5 DEF OneUnsettled
  <2>7. Reached(f)'
    BY <1>1, <1>10, <2>1 DEF Reached, Last
  <2>8. WrittenReaches'
    BY <1>1, <1>2, <2>7 DEF WrittenReaches
  <2> QED
    BY <2>3, <2>6, <2>8
<1> QED
  BY <1>0, <1>9, <1>10

LEMMA EnterKeeps ==
  ASSUME IInv, LostStays, NEW f \in Frame, NEW c \in Conn, Enter(f, c),
         delivered' = delivered, cut' = cut, pc[f] \in {"start", "opening"}
  PROVE  FirstIsLost' /\ OneUnsettled' /\ WrittenReaches'
<1>1. writer'[f] = c /\ \A g \in Frame \ {f} : writer'[g] = writer[g]
  BY DEF Enter, IInv, Base, TypeOK
<1>2. CASE queue = <<>> /\ Transmit(f, c)
  <2>1. \A g \in Frame : pc[g] \notin {"draining", "failing"}
    BY <1>2 DEF IInv, Base, HolderDrains
  <2> QED
    BY <1>1, <1>2, <2>1, Taking
<1>3. CASE /\ queue # <<>>
           /\ pc' = [pc EXCEPT ![f] = "queued"]
           /\ UNCHANGED <<on, flight>>
  <2>1. pc'[f] = "queued" /\ \A g \in Frame \ {f} : pc'[g] = pc[g]
    BY <1>3 DEF IInv, Base, TypeOK
  <2> QED
    BY <1>1, <1>3, <2>1, Untaken
<1> QED
  BY <1>2, <1>3 DEF Enter

LEMMA StepKeepsTaken ==
  IInv /\ [Next]_vars => FirstIsLost' /\ OneUnsettled' /\ WrittenReaches'
<1> SUFFICES ASSUME IInv, [Next]_vars PROVE FirstIsLost' /\ OneUnsettled' /\ WrittenReaches'
  OBVIOUS
<1> USE DEF IInv, Base
<1>1. ASSUME NEW f \in Frame, UseRegistered(f) PROVE FirstIsLost' /\ OneUnsettled' /\ WrittenReaches'
  <2>1. registered \in Conn /\ LostStays
    BY <1>1 DEF UseRegistered, TypeOK, LostStays
  <2> QED
    BY <1>1, <2>1, EnterKeeps DEF UseRegistered
<1>2. ASSUME NEW f \in Frame, Connect(f) PROVE FirstIsLost' /\ OneUnsettled' /\ WrittenReaches'
  <2>1. pc[f] = "start" /\ pc'[f] = "opening" /\ \A g \in Frame \ {f} : pc'[g] = pc[g]
    BY <1>2 DEF Connect, TypeOK
  <2> QED
    BY <1>2, <2>1, RegisteredCloses, Untaken DEF Connect
<1>3. ASSUME NEW f \in Frame, NEW c \in Conn, Opened(f, c)
      PROVE  FirstIsLost' /\ OneUnsettled' /\ WrittenReaches'
  <2>1. LostStays
    BY <1>3 DEF Opened, TypeOK, LostStays
  <2> QED
    BY <1>3, <2>1, EnterKeeps DEF Opened
<1>4. ASSUME NEW f \in Frame, Woken(f) PROVE FirstIsLost' /\ OneUnsettled' /\ WrittenReaches'
  <2>1. /\ writer[f] \in Conn /\ Transmit(f, writer[f]) /\ LostStays
        /\ \A g \in Frame \ {f} : pc[g] \notin {"draining", "failing"}
    BY <1>4 DEF Woken, WriterThere, HolderDrains, LostStays
  <2> QED
    BY <1>4, <2>1, Taking DEF Woken
<1>5. ASSUME NEW f \in Frame, Drained(f) PROVE FirstIsLost' /\ OneUnsettled' /\ WrittenReaches'
  <2>1. /\ pc[f] = "draining" /\ pc'[f] = "done" /\ LostStays
        /\ \A g \in Frame \ {f} : pc'[g] = pc[g]
    BY <1>5 DEF Drained, TypeOK, LostStays
  <2> QED
    BY <1>5, <2>1, Untaken DEF Drained
<1>6. ASSUME NEW f \in Frame, DrainRaises(f) PROVE FirstIsLost' /\ OneUnsettled' /\ WrittenReaches'
  <2>1. /\ pc[f] \in {"draining", "failing"} /\ pc'[f] = "closing"
        /\ \A g \in Frame \ {f} : pc'[g] = pc[g]
    BY <1>6 DEF DrainRaises, TypeOK
  <2>2. link'[writer[f]] = "lost"
    BY <1>6, <2>1 DEF DrainRaises, WriterThere
  <2> QED
    BY <1>6, <2>1, <2>2, FailureCloses, Untaken DEF DrainRaises
<1>7. ASSUME NEW f \in Frame, Refuse(f) PROVE FirstIsLost' /\ OneUnsettled' /\ WrittenReaches'
  <2>1. pc[f] = "opening" /\ pc'[f] = "closing" /\ \A g \in Frame \ {f} : pc'[g] = pc[g]
    BY <1>7 DEF Refuse, TypeOK
  <2> QED
    BY <1>7, <2>1, RegisteredCloses, Untaken DEF Refuse
<1>8. ASSUME NEW f \in Frame, Retry(f) PROVE FirstIsLost' /\ OneUnsettled' /\ WrittenReaches'
  <2>1. /\ pc[f] = "closing" /\ pc'[f] \in {"start", "raised"} /\ LostStays
        /\ \A g \in Frame \ {f} : pc'[g] = pc[g]
    BY <1>8 DEF Retry, TypeOK, LostStays
  <2> QED
    BY <1>8, <2>1, Untaken DEF Retry
<1>9. ASSUME NEW c \in Conn, Lose(c) PROVE FirstIsLost' /\ OneUnsettled' /\ WrittenReaches'
  <2>1. LostStays
    BY <1>9 DEF Lose, TypeOK, LostStays
  <2> QED
    BY <1>9, <2>1, Untaken DEF Lose
<1>10. ASSUME NEW c \in Conn, NEW f \in Frame, Receive(c, f)
       PROVE  FirstIsLost' /\ OneUnsettled' /\ WrittenReaches'
  <2>1. LostStays
    BY <1>10 DEF Receive, LostStays
  <2>2. FirstIsLost' /\ OneUnsettled'
    BY <1>10, <2>1, Settling DEF Receive
  <2>3. /\ delivered'[f] > 0
        /\ \A g \in Frame \ {f} : /\ delivered'[g] = delivered[g]
                                  /\ \A b \in Conn : g \in flight[b] => g \in flight'[b]
    BY <1>10 DEF Receive, TypeOK
  <2>4. \A g \in Frame : on[g] # <<>> => Last(g) \in Conn
    BY LengthFacts DEF TypeOK, Last
  <2>5. \A g \in Frame : Last(g)' = Last(g)
    BY <1>10 DEF Receive, Last
  <2>6. \A g \in Frame : Reached(g) => Reached(g)'
    BY <1>10, <2>3, <2>4, <2>5 DEF Receive, Reached
  <2>7. WrittenReaches'
    BY <1>10, <2>6 DEF Receive, WrittenReaches
  <2> QED
    BY <2>2, <2>7
<1>11. ASSUME NEW c \in Conn, Break(c) PROVE FirstIsLost' /\ OneUnsettled' /\ WrittenReaches'
  <2>1. /\ \A b \in Conn : link[b] = "lost" => link'[b] = "lost"
        /\ \A b \in Conn : link'[b] = "broken" => b \in cut'
    BY <1>11 DEF Break, TypeOK, WrittenReaches
  <2>2. \A g \in Frame : on[g] # <<>> => on[g][1] \in Conn /\ Last(g) \in Conn
    BY LengthFacts DEF TypeOK, Last
  <2>3. \A g \in Frame : SentOnce(g)' = SentOnce(g) /\ Writing(g)' = Writing(g) /\ Last(g)' = Last(g)
    BY <1>11 DEF Break, SentOnce, Writing, Last
  <2>4. FirstIsLost' /\ OneUnsettled'
    BY <1>11, <2>1, <2>2, <2>3 DEF Break, FirstIsLost, OneUnsettled
  <2>5. \A b \in Conn : b # c => flight'[b] = flight[b]
    BY <1>11 DEF Break, TypeOK
  <2>6. \A g \in Frame : Reached(g) => Reached(g)'
    BY <1>11, <2>2, <2>3, <2>5 DEF Break, Reached
  <2>7. WrittenReaches'
    BY <1>11, <2>1, <2>6 DEF Break, WrittenReaches
  <2> QED
    BY <2>4, <2>7
<1>12. ASSUME UNCHANGED vars PROVE FirstIsLost' /\ OneUnsettled' /\ WrittenReaches'
  <2>1. LostStays
    BY <1>12 DEF vars, LostStays
  <2> QED
    BY <1>12, <2>1, Untaken DEF vars
<1> QED
  BY <1>1, <1>2, <1>3, <1>4, <1>5, <1>6, <1>7, <1>8, <1>9, <1>10, <1>11, <1>12
  DEF Next, TaskStep, LoopStep

-----------------------------------------------------------------------------
\* The invariant: what the tasks that share the writer of a peer
\* (node.py:244-270) can rely on of each other.
THEOREM Invariance == Spec => []IInv
<1>1. IInv /\ [Next]_vars => IInv'
  BY StepKeepsBase, StepKeepsTaken DEF IInv
<1> QED
  BY InitBase, <1>1, PTL DEF Spec

\* Every variable of a sending task has its type.
THEOREM TypeCorrect == Spec => []TypeOK
<1>1. IInv => TypeOK
  BY DEF IInv, Base
<1> QED
  BY <1>1, Invariance, PTL

\* A send that returned is lost only with a connection the network broke, for
\* any number of frames, faults and connections.
THEOREM NothingQuietlyLost == Spec => []NoQuietLoss
<1>1. IInv => NoQuietLoss
  BY DEF IInv, WrittenReaches, Reached, NoQuietLoss
<1> QED
  BY <1>1, Invariance, PTL

\* One lost connection repeats one frame at most: two frames that were both
\* written twice were written to different connections at first.
THEOREM RepeatsAreRare == Spec => []OneRepeatPerConnection
<1>1. IInv => OneRepeatPerConnection
  <2> SUFFICES ASSUME IInv, NEW f \in Frame, NEW g \in Frame, f # g, Twice(f), Twice(g)
               PROVE  on[f][1] # on[g][1]
    BY DEF OneRepeatPerConnection
  <2>1. /\ on[f] \in Seq(Conn) /\ Len(on[f]) > 1
        /\ on[g] \in Seq(Conn) /\ Len(on[g]) > 1
    BY DEF IInv, Base, TypeOK, Twice
  <2>2. \A s \in Seq(Conn) : Len(s) > 1 => Len(s) # 1 /\ s # <<>>
    BY LengthFacts
  <2>3. Len(on[f]) # 1 /\ on[f] # <<>> /\ Len(on[g]) # 1 /\ on[g] # <<>>
    BY <2>1, <2>2
  <2>4. ~SentOnce(f) /\ ~SentOnce(g)
    BY <2>3 DEF SentOnce
  <2> QED
    BY <2>3, <2>4 DEF IInv, OneUnsettled
<1> QED
  BY <1>1, Invariance, PTL
=============================================================================
