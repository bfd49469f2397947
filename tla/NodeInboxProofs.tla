-------------------------- MODULE NodeInboxProofs --------------------------
(* Theorems of NodeInbox, for every set of kinds, keys and calls.          *)
EXTENDS NodeInbox, FiniteSetTheorems, WellFoundedInduction, TLAPS

(* What Oldest returns, for every finite set of numbered messages.         *)

LessThan == {ss \in Nat \X Nat : ss[1] < ss[2]}

\* Every non-empty set of natural numbers has a least member.
LEMMA LeastNatural ==
  ASSUME NEW T \in SUBSET Nat, T # {}
  PROVE  \E x \in T : \A y \in T : x <= y
<1>1. IsWellFoundedOn(LessThan, Nat)
  BY NatLessThanWellFounded DEF OpToRel, LessThan
<1>2. PICK x \in T : \A y \in T : ~ (<<y, x>> \in LessThan)
  BY <1>1, WFMin, Zenon
<1>3. ASSUME NEW y \in T
      PROVE  x <= y
  <2>1. x \in Nat /\ y \in Nat /\ <<y, x>> \notin LessThan
    BY <1>2
  <2>2. ~ (y < x)
    BY <2>1 DEF LessThan
  <2> QED
    BY <2>1, <2>2
<1> QED
  BY <1>3

\* A set of messages with natural arrival numbers has an oldest message.
LEMMA OldestExists ==
  ASSUME NEW S, S # {}, \A m \in S : m.seq \in Nat
  PROVE  \E m \in S : \A b \in S : m.seq <= b.seq
<1> DEFINE T == {m.seq : m \in S}
<1>1. T \subseteq Nat /\ T # {}
  OBVIOUS
<1>2. PICK x \in T : \A y \in T : x <= y
  BY <1>1, LeastNatural
<1> QED
  BY <1>2

\* A set of messages with bounded arrival numbers has a youngest message.
LEMMA YoungestExists ==
  ASSUME NEW S, S # {}, NEW N \in Nat, \A m \in S : m.seq \in 0..N
  PROVE  \E m \in S : \A b \in S : b.seq <= m.seq
<1> DEFINE T == {N - m.seq : m \in S}
<1>1. T \subseteq Nat /\ T # {}
  OBVIOUS
<1>2. PICK x \in T : \A y \in T : x <= y
  BY <1>1, LeastNatural
<1>3. PICK m \in S : x = N - m.seq
  OBVIOUS
<1>4. \A b \in S : N - m.seq <= N - b.seq
  BY <1>2, <1>3
<1> QED
  BY <1>4

\* The messages older than m can be counted: Oldest ranks m by that count.
LEMMA OlderIsFinite ==
  ASSUME NEW S, IsFiniteSet(S), NEW m
  PROVE  /\ IsFiniteSet(Older(S, m))
         /\ Cardinality(Older(S, m)) \in Nat
BY FS_Subset, FS_CardinalityType DEF Older

\* What Oldest takes is older than what it leaves.
LEMMA OldestIsOlder ==
  ASSUME NEW S, IsFiniteSet(S), \A m \in S : m.seq \in Nat, NEW k \in Int,
         NEW a \in Oldest(S, k), NEW b \in S \ Oldest(S, k)
  PROVE  a.seq < b.seq
<1> SUFFICES ASSUME ~(a.seq < b.seq)
             PROVE  FALSE
  OBVIOUS
<1>1. a \in S /\ a.seq \in Nat /\ b.seq \in Nat
  BY DEF Oldest
<1>2. Older(S, b) \subseteq Older(S, a)
  BY <1>1 DEF Older
<1>3. Cardinality(Older(S, b)) <= Cardinality(Older(S, a))
  BY <1>2, OlderIsFinite, FS_Subset
<1>4. Cardinality(Older(S, a)) < k /\ ~(Cardinality(Older(S, b)) < k)
  BY DEF Oldest
<1> QED
  BY <1>3, <1>4, OlderIsFinite

\* Fewer than k messages taken means all were.
LEMMA OldestTakesAll ==
  ASSUME NEW S, IsFiniteSet(S), \A m \in S : m.seq \in Nat, NEW k \in Int,
         Cardinality(Oldest(S, k)) < k
  PROVE  Oldest(S, k) = S
<1> DEFINE left == S \ Oldest(S, k)
<1> SUFFICES ASSUME left # {}
             PROVE  FALSE
  BY DEF Oldest
<1>1. PICK m \in left : \A b \in left : m.seq <= b.seq
  BY OldestExists
<1>2. Older(S, m) \subseteq Oldest(S, k)
  BY <1>1 DEF Older
<1>3. IsFiniteSet(Oldest(S, k)) /\ Cardinality(Oldest(S, k)) \in Nat
  BY FS_Subset, FS_CardinalityType DEF Oldest
<1>4. Cardinality(Older(S, m)) <= Cardinality(Oldest(S, k))
  BY <1>2, <1>3, FS_Subset
<1>5. ~(Cardinality(Older(S, m)) < k)
  BY DEF Oldest
<1> QED
  BY <1>3, <1>4, <1>5, OlderIsFinite

\* No more than k messages are taken when their numbers differ.
LEMMA OldestTakesAtMost ==
  ASSUME NEW S, IsFiniteSet(S), NEW N \in Nat, \A m \in S : m.seq \in 0..N,
         \A m, b \in S : m.seq = b.seq => m = b,
         NEW k \in Nat
  PROVE  /\ IsFiniteSet(Oldest(S, k))
         /\ Cardinality(Oldest(S, k)) \in Nat
         /\ Cardinality(Oldest(S, k)) <= k
<1> DEFINE T == Oldest(S, k)
<1>1. T \subseteq S
  BY DEF Oldest
<1>2. IsFiniteSet(T) /\ Cardinality(T) \in Nat
  BY <1>1, FS_Subset, FS_CardinalityType
<1>3. CASE T = {}
  BY <1>2, <1>3, FS_EmptySet
<1>4. CASE T # {}
  <2>1. PICK m \in T : \A b \in T : b.seq <= m.seq
    BY <1>1, <1>4, YoungestExists
  <2>2. T \ {m} \subseteq Older(S, m)
    BY <1>1, <2>1 DEF Older
  <2>3. IsFiniteSet(Older(S, m)) /\ Cardinality(Older(S, m)) \in Nat
    BY OlderIsFinite
  <2>4. Cardinality(T \ {m}) <= Cardinality(Older(S, m))
    BY <2>2, <2>3, FS_Subset
  <2>5. Cardinality(T \ {m}) = Cardinality(T) - 1
    BY <1>2, <2>1, FS_RemoveElement
  <2>6. Cardinality(Older(S, m)) < k
    BY <2>1 DEF Oldest
  <2> QED
    BY <1>2, <2>3, <2>4, <2>5, <2>6
<1> QED
  BY <1>2, <1>3, <1>4

\* Nothing is taken when nothing is asked for.
LEMMA OldestOfNone ==
  ASSUME NEW S, IsFiniteSet(S)
  PROVE  Oldest(S, 0) = {}
BY OlderIsFinite DEF Oldest

-----------------------------------------------------------------------------

\* The inductive invariant: the two copies of the waiting messages agree, and
\* arrival numbers tell messages apart and order them as they became available.
IInv == TypeOK /\ Mirror /\ Numbered

-----------------------------------------------------------------------------
(* What one pass of recv_until takes.                                      *)

TakenBy(r) == CollectIndexed(r) \union ScanPending(r, CollectIndexed(r))

\* What the call accepts among the waiting messages: a finite set whose
\* members are told apart by their numbers.
LEMMA AcceptedFacts ==
  ASSUME IInv, NEW r \in Receivers
  PROVE  LET A == M!Accepted(pending, r)
         IN  /\ A \subseteq pending
             /\ IsFiniteSet(A)
             /\ \A m \in A : m.seq \in Nat /\ m.seq \in 0..MaxMessages
             /\ \A m, p \in A : m.seq = p.seq => m = p
<1>1. M!Accepted(pending, r) \subseteq pending
  BY DEF M!Accepted
<1>2. IsFiniteSet(M!Accepted(pending, r))
  BY <1>1, FS_Subset DEF IInv, Numbered
<1>3. \A m \in pending : m.seq \in 0..MaxMessages
  BY DEF IInv, TypeOK, M!Message
<1>4. \A m, p \in pending : m.seq = p.seq => m = p
  BY DEF IInv, Numbered, Known, Available
<1> QED
  BY <1>1, <1>2, <1>3, <1>4

\* With or without the index, one pass takes the oldest accepted messages of
\* the pending list, up to what is missing, and only those.
LEMMA PassTakesOldest ==
  ASSUME IInv, NEW r \in Receivers, Missing(r) \in Nat
  PROVE  TakenBy(r) = Oldest(M!Accepted(pending, r), Missing(r))
<1> DEFINE A == M!Accepted(pending, r)
           k == Missing(r)
<1>1. /\ IsFiniteSet(A)
      /\ \A m \in A : m.seq \in 0..MaxMessages
      /\ \A m \in A : m.seq \in Nat
      /\ \A m, p \in A : m.seq = p.seq => m = p
  BY AcceptedFacts
<1>2. CASE Index[r] = NoBucket
  <2>1. CollectIndexed(r) = {}
    BY <1>2 DEF CollectIndexed
  <2>2. pending \ {} = pending /\ k - Cardinality({}) = k
    BY FS_EmptySet
  <2> QED
    BY <2>1, <2>2 DEF TakenBy, ScanPending
<1>3. CASE Index[r] # NoBucket
  <2>1. Index[r] \in Buckets
    BY <1>3, ReceiverAssumption
  <2>2. M!Accepted(inbox[Index[r]], r) = A
    BY <1>3, <2>1, ReceiverAssumption DEF IInv, Mirror, InBucket, M!Accepted
  <2>3. CollectIndexed(r) = Oldest(A, k)
    BY <1>3, <2>2 DEF CollectIndexed
  <2>4. /\ Cardinality(Oldest(A, k)) \in Nat
        /\ Cardinality(Oldest(A, k)) <= k
    BY <1>1, KindAssumption, OldestTakesAtMost
  <2>5. M!Accepted(pending \ Oldest(A, k), r) = A \ Oldest(A, k)
    BY DEF M!Accepted
  <2>6. ScanPending(r, Oldest(A, k))
          = Oldest(A \ Oldest(A, k), k - Cardinality(Oldest(A, k)))
    BY <2>5 DEF ScanPending
  <2>7. Oldest(A \ Oldest(A, k), k - Cardinality(Oldest(A, k))) = {}
    <3>1. CASE Cardinality(Oldest(A, k)) = k
      <4>1. IsFiniteSet(A \ Oldest(A, k))
        BY <1>1, FS_Difference
      <4> QED
        BY <3>1, <4>1, OldestOfNone
    <3>2. CASE Cardinality(Oldest(A, k)) # k
      <4>1. Oldest(A, k) = A
        BY <1>1, <2>4, <3>2, OldestTakesAll
      <4>2. A \ A = {}
        OBVIOUS
      <4> QED
        BY <4>1, <4>2 DEF Oldest
    <3> QED
      BY <3>1, <3>2
  <2> QED
    BY <2>3, <2>6, <2>7 DEF TakenBy
<1> QED
  BY <1>2, <1>3

-----------------------------------------------------------------------------
(* The inductive invariant.                                                *)

LEMMA InitIInv == Init => IInv
<1> SUFFICES ASSUME Init
             PROVE  IInv
  OBVIOUS
<1>1. TypeOK
  BY DEF Init, TypeOK, Status
<1>2. Mirror
  BY DEF Init, Mirror, InBucket
<1>3. Known = {}
  BY DEF Init, Known, Available
<1>4. Numbered
  BY <1>3, KindAssumption, FS_EmptySet DEF Init, Numbered
<1> QED
  BY <1>1, <1>2, <1>4 DEF IInv

\* Taking messages out of the list and out of the buckets keeps both copies
\* and the numbering; where the messages go does not matter for it.
LEMMA RemovalKeepsIInv ==
  ASSUME IInv,
         arrived' = arrived, stored' = stored,
         pending' \subseteq pending,
         \A b \in Buckets : inbox'[b] = InBucket(pending', b),
         inbox' = [b \in Buckets |-> inbox'[b]],
         \A r \in Receivers : matched'[r] \subseteq matched[r] \union pending,
         matched' \in [Receivers -> SUBSET M!Message],
         status' \in [Receivers -> Status]
  PROVE  IInv'
<1>1. TypeOK'
  BY DEF IInv, TypeOK, InBucket
<1>2. Mirror'
  BY DEF Mirror, InBucket
<1>3. Available' \subseteq Available /\ Known' \subseteq Known
  BY DEF Known, Available
<1>4. IsFiniteSet(pending')
  BY FS_Subset DEF IInv, Numbered
<1>5. Numbered'
  BY <1>3, <1>4 DEF IInv, Numbered
<1> QED
  BY <1>1, <1>2, <1>5 DEF IInv

LEMMA NextIInv == IInv /\ [Next]_vars => IInv'
<1> SUFFICES ASSUME IInv, [Next]_vars
             PROVE  IInv'
  OBVIOUS
<1>1. ASSUME NEW kd \in Kinds, StoreInbound(kd)
      PROVE  IInv'
  <2> DEFINE new == [seq |-> arrived, kind |-> kd]
  <2>1. new \in M!Message
    BY <1>1, KindAssumption DEF StoreInbound, IInv, TypeOK, M!Message
  <2>2. TypeOK'
    BY <1>1, <2>1 DEF StoreInbound, IInv, TypeOK
  <2>3. Mirror'
    BY <1>1 DEF StoreInbound, IInv, Mirror, InBucket
  <2>4. Known' = Known \union {new}
    BY <1>1 DEF StoreInbound, Known, Available
  <2>5. \A m \in Known : m.seq \in Nat /\ m.seq < arrived
    BY DEF IInv, TypeOK, Numbered, Known, Available, M!Message
  <2>6. Available' = Available /\ Available \subseteq Known
    BY <1>1 DEF StoreInbound, Known, Available
  <2>7. Numbered'
    BY <1>1, <2>4, <2>5, <2>6, KindAssumption DEF StoreInbound, IInv, TypeOK, Numbered
  <2> QED
    BY <2>2, <2>3, <2>7 DEF IInv
<1>2. CASE QueueInbound
  <2>1. PICK m \in stored :
          /\ \A other \in stored : m.seq <= other.seq
          /\ stored' = stored \ {m}
          /\ pending' = pending \union {m}
          /\ inbox' = [inbox EXCEPT ![BucketOf[m.kind]] = @ \union {m}]
          /\ status' = NotifyAll
          /\ UNCHANGED <<arrived, matched>>
    BY <1>2 DEF QueueInbound
  <2>2. m \in M!Message /\ m.seq \in Nat /\ BucketOf[m.kind] \in Buckets
    BY KindAssumption DEF IInv, TypeOK, M!Message
  <2>3. TypeOK'
    BY <2>1, <2>2 DEF IInv, TypeOK, NotifyAll, Status
  <2>4. Mirror'
    BY <2>1, <2>2 DEF IInv, TypeOK, Mirror, InBucket
  <2>5. Known' = Known
    BY <2>1 DEF Known, Available
  <2>6. IsFiniteSet(pending')
    BY <2>1, FS_AddElement DEF IInv, Numbered
  <2>7. ASSUME NEW s \in stored', NEW x \in Available'
        PROVE  x.seq < s.seq
    <3>1. s \in stored /\ s # m /\ s \in Known /\ m \in Known
      BY <2>1 DEF Known, Available
    <3>2. s.seq \in Nat /\ m.seq < s.seq
      BY <2>1, <2>2, <3>1 DEF IInv, TypeOK, Numbered, M!Message
    <3>3. CASE x = m
      BY <3>2, <3>3
    <3>4. CASE x # m
      <4>1. x \in Available
        BY <2>1, <3>4 DEF Available
      <4> QED
        BY <3>1, <4>1 DEF IInv, Numbered
    <3> QED
      BY <3>3, <3>4
  <2>8. Numbered'
    BY <2>1, <2>5, <2>6, <2>7 DEF IInv, Numbered
  <2> QED
    BY <2>3, <2>4, <2>8 DEF IInv
<1>3. ASSUME NEW r \in Receivers, RecvPass(r)
      PROVE  IInv'
  <2> DEFINE taken == TakenBy(r)
  <2>1. taken \subseteq pending
    <3>1. CollectIndexed(r) \subseteq pending
      <4>1. Index[r] # NoBucket => inbox[Index[r]] \subseteq pending
        BY ReceiverAssumption DEF IInv, Mirror, InBucket
      <4> QED
        BY <4>1 DEF CollectIndexed, Oldest, M!Accepted
    <3>2. ScanPending(r, CollectIndexed(r)) \subseteq pending
      BY DEF ScanPending, Oldest, M!Accepted
    <3> QED
      BY <3>1, <3>2 DEF TakenBy
  <2>2. /\ pending' = pending \ taken
        /\ inbox' = [b \in Buckets |-> inbox[b] \ taken]
        /\ matched' = [matched EXCEPT ![r] = @ \union taken]
        /\ UNCHANGED <<arrived, stored>>
    BY <1>3 DEF RecvPass, Remove, TakenBy, IInv, TypeOK
  <2>3. status' \in [Receivers -> Status]
    BY <1>3 DEF RecvPass, IInv, TypeOK, Status
  <2>4. matched' \in [Receivers -> SUBSET M!Message]
    BY <2>1, <2>2 DEF IInv, TypeOK
  <2>5. \A b \in Buckets : inbox'[b] = InBucket(pending', b)
    BY <2>2 DEF IInv, Mirror, InBucket
  <2>6. \A q \in Receivers : matched'[q] \subseteq matched[q] \union pending
    BY <2>1, <2>2 DEF IInv, TypeOK
  <2> QED
    BY <2>2, <2>3, <2>4, <2>5, <2>6, RemovalKeepsIInv
<1>4. ASSUME NEW r \in Receivers, WaitTimeout(r)
      PROVE  IInv'
  BY <1>4 DEF WaitTimeout, IInv, TypeOK, Status, Mirror, InBucket, Numbered, Known, Available
<1>5. ASSUME NEW layer \in CleanLayers, ClearBeforeLayer(layer)
      PROVE  IInv'
  <2>1. pending' \subseteq pending /\ UNCHANGED <<arrived, stored, status, matched>>
    BY <1>5 DEF ClearBeforeLayer
  <2>2. \A b \in Buckets : inbox'[b] = InBucket(pending', b)
    <3> SUFFICES ASSUME NEW b \in Buckets
                 PROVE  inbox'[b] = InBucket(pending', b)
      OBVIOUS
    <3>1. LayerOf[b] \in Nat /\ layer \in Nat
      BY KindAssumption
    <3>2. CASE LayerOf[b] < layer
      BY <1>5, <3>1, <3>2 DEF ClearBeforeLayer, IInv, Mirror, InBucket
    <3>3. CASE ~(LayerOf[b] < layer)
      BY <1>5, <3>1, <3>3 DEF ClearBeforeLayer, IInv, Mirror, InBucket
    <3> QED
      BY <3>2, <3>3
  <2>3. inbox' = [b \in Buckets |-> inbox'[b]]
    BY <1>5 DEF ClearBeforeLayer
  <2> QED
    BY <2>1, <2>2, <2>3, RemovalKeepsIInv DEF IInv, TypeOK
<1>6. ASSUME NEW inst \in CleanInstances, ClearInstanceState(inst)
      PROVE  IInv'
  <2>1. pending' \subseteq pending /\ UNCHANGED <<arrived, stored, status, matched>>
    BY <1>6 DEF ClearInstanceState
  <2>2. \A b \in Buckets : inbox'[b] = InBucket(pending', b)
    BY <1>6 DEF ClearInstanceState, IInv, Mirror, InBucket
  <2>3. inbox' = [b \in Buckets |-> inbox'[b]]
    BY <1>6 DEF ClearInstanceState
  <2> QED
    BY <2>1, <2>2, <2>3, RemovalKeepsIInv DEF IInv, TypeOK
<1>7. CASE UNCHANGED vars
  BY <1>7 DEF vars, IInv, TypeOK, Mirror, InBucket, Numbered, Known, Available
<1> QED
  BY <1>1, <1>2, <1>3, <1>4, <1>5, <1>6, <1>7 DEF Next
\* The two copies agree and the numbering orders them in every reachable state.
THEOREM Consistent == Spec => []IInv
<1>1. Init => IInv
  BY InitIInv
<1>2. IInv /\ [Next]_vars => IInv'
  BY NextIInv
<1> QED
  BY <1>1, <1>2, PTL DEF Spec

THEOREM TypeCorrect == Spec => []TypeOK
<1>1. IInv => TypeOK
  BY DEF IInv
<1> QED
  BY <1>1, Consistent, PTL

\* The pending list and the inbox index never drift apart, whatever mixture of
\* arrivals, indexed and scanning calls, timeouts and cleanup runs on the node.
THEOREM MirrorHolds == Spec => []Mirror
<1>1. IInv => Mirror
  BY DEF IInv
<1> QED
  BY <1>1, Consistent, PTL

-----------------------------------------------------------------------------
(* What the calls receive.                                                 *)

\* A sleeping call is still short of messages and has looked at all that wait;
\* a call that has been woken is short as well.
CallInv ==
  /\ ExactCount
  /\ NoLostWakeup

Inv == IInv /\ CallInv /\ DeliveredOnce /\ KindFifo

\* The facts about one pass that every later proof needs.
LEMMA PassFacts ==
  ASSUME IInv, ExactCount, NEW r \in Receivers, RecvPass(r)
  PROVE  LET taken == Oldest(M!Accepted(pending, r), Missing(r))
         IN  /\ Missing(r) \in Nat
             /\ taken = TakenBy(r)
             /\ taken \subseteq pending
             /\ IsFiniteSet(taken)
             /\ Cardinality(taken) \in Nat
             /\ Cardinality(taken) <= Missing(r)
             /\ pending' = pending \ taken
             /\ matched' = [matched EXCEPT ![r] = @ \union taken]
             /\ stored' = stored
<1> DEFINE taken == Oldest(M!Accepted(pending, r), Missing(r))
<1>1. IsFiniteSet(matched[r]) /\ Cardinality(matched[r]) \in Nat
  BY FS_CardinalityType DEF ExactCount
<1>2. Need[r] \in Nat /\ Cardinality(matched[r]) <= Need[r]
  BY ReceiverAssumption DEF ExactCount
<1>3. Missing(r) \in Nat
  BY <1>1, <1>2 DEF Missing
<1>4. taken = TakenBy(r)
  BY <1>3, PassTakesOldest
<1>5. taken \subseteq pending
  BY AcceptedFacts DEF Oldest
<1>6. /\ IsFiniteSet(taken)
      /\ Cardinality(taken) \in Nat
      /\ Cardinality(taken) <= Missing(r)
  BY <1>3, AcceptedFacts, KindAssumption, OldestTakesAtMost
<1>7. /\ pending' = pending \ taken
      /\ matched' = [matched EXCEPT ![r] = @ \union taken]
      /\ stored' = stored
  BY <1>4 DEF RecvPass, Remove, TakenBy, IInv, TypeOK
<1> QED
  BY <1>3, <1>4, <1>5, <1>6, <1>7
\* What a pass leaves behind: the count of the call, and nothing it accepts
\* when it must go on waiting.
LEMMA PassCounts ==
  ASSUME IInv, ExactCount, DeliveredOnce, NEW r \in Receivers, RecvPass(r)
  PROVE  /\ IsFiniteSet(matched'[r])
         /\ Cardinality(matched'[r]) <= Need[r]
         /\ Cardinality(matched'[r]) = Need[r] <=> status'[r] = "done"
         /\ status'[r] = "waiting" => M!Accepted(pending', r) = {}
         /\ \A q \in Receivers : q # r => status'[q] = status[q]
<1> DEFINE taken == Oldest(M!Accepted(pending, r), Missing(r))
<1>1. /\ Missing(r) \in Nat
      /\ taken = TakenBy(r)
      /\ taken \subseteq pending
      /\ IsFiniteSet(taken)
      /\ Cardinality(taken) \in Nat
      /\ Cardinality(taken) <= Missing(r)
      /\ pending' = pending \ taken
      /\ matched' = [matched EXCEPT ![r] = @ \union taken]
  BY PassFacts
<1>2. matched'[r] = matched[r] \union taken
  BY <1>1 DEF IInv, TypeOK
<1>3. /\ IsFiniteSet(matched[r]) /\ Cardinality(matched[r]) \in Nat
      /\ Need[r] \in Nat
  BY FS_CardinalityType, ReceiverAssumption DEF ExactCount
<1>4. matched[r] \intersect taken = {}
  BY <1>1 DEF DeliveredOnce
<1>5. /\ IsFiniteSet(matched'[r])
      /\ Cardinality(matched'[r]) = Cardinality(matched[r]) + Cardinality(taken)
  <2> HIDE DEF taken
  <2>1. /\ IsFiniteSet(matched[r] \union taken)
        /\ Cardinality(matched[r] \union taken)
             = Cardinality(matched[r]) + Cardinality(taken)
               - Cardinality(matched[r] \intersect taken)
    BY <1>1, <1>3, FS_Union
  <2>2. Cardinality(matched[r] \intersect taken) = 0
    BY <1>4, FS_EmptySet
  <2>3. Cardinality(matched[r] \union taken)
          = Cardinality(matched[r]) + Cardinality(taken)
    BY <1>1, <1>3, <2>1, <2>2
  <2> QED
    BY <1>2, <2>1, <2>3
<1>6. Cardinality(matched'[r]) <= Need[r]
  BY <1>1, <1>3, <1>5 DEF Missing
<1>7. matched'[r] = matched[r] \union CollectIndexed(r)
                              \union ScanPending(r, CollectIndexed(r))
  BY <1>1, <1>2 DEF TakenBy
<1>8. \/ /\ Cardinality(matched'[r]) >= Need[r]
         /\ status' = [status EXCEPT ![r] = "done"]
      \/ /\ Cardinality(matched'[r]) < Need[r]
         /\ status' = [status EXCEPT ![r] = "waiting"]
      \/ /\ Cardinality(matched'[r]) < Need[r]
         /\ status' = [status EXCEPT ![r] = "timedout"]
  BY <1>3, <1>7 DEF RecvPass
<1>9. status \in [Receivers -> Status]
  BY DEF IInv, TypeOK
<1>10. Cardinality(matched'[r]) = Need[r] <=> status'[r] = "done"
  BY <1>3, <1>1, <1>5, <1>6, <1>8, <1>9
<1>11. ASSUME status'[r] = "waiting"
       PROVE  M!Accepted(pending', r) = {}
  <2>1. Cardinality(matched'[r]) < Need[r]
    BY <1>8, <1>9, <1>11
  <2>2. Cardinality(taken) < Missing(r)
    BY <1>1, <1>3, <1>5, <2>1 DEF Missing
  <2>3. taken = M!Accepted(pending, r)
    BY <1>1, <2>2, AcceptedFacts, OldestTakesAll
  <2> QED
    BY <1>1, <2>3 DEF M!Accepted
<1>12. \A q \in Receivers : q # r => status'[q] = status[q]
  BY <1>8, <1>9
<1> QED
  BY <1>5, <1>6, <1>10, <1>11, <1>12

LEMMA PassKeepsInv ==
  ASSUME Inv, NEW r \in Receivers, RecvPass(r)
  PROVE  CallInv' /\ DeliveredOnce' /\ KindFifo'
<1> DEFINE taken == Oldest(M!Accepted(pending, r), Missing(r))
<1>1. /\ taken \subseteq pending
      /\ pending' = pending \ taken
      /\ matched' = [matched EXCEPT ![r] = @ \union taken]
      /\ stored' = stored
      /\ Missing(r) \in Nat
  BY PassFacts DEF Inv, CallInv
<1>2. /\ matched'[r] = matched[r] \union taken
      /\ \A q \in Receivers : q # r => matched'[q] = matched[q]
  BY <1>1 DEF Inv, IInv, TypeOK
<1>3. CallInv'
  <2>1. ExactCount'
    BY <1>2, PassCounts DEF Inv, CallInv, ExactCount
  <2>2. NoLostWakeup'
    <3> SUFFICES ASSUME NEW q \in Receivers, status'[q] = "waiting"
                 PROVE  M!Accepted(pending', q) = {}
      BY DEF NoLostWakeup, M!Accepted
    <3>1. CASE q = r
      BY <3>1, PassCounts DEF Inv, CallInv
    <3>2. CASE q # r
      <4>1. status[q] = "waiting"
        BY <3>2, PassCounts DEF Inv, CallInv
      <4> QED
        BY <1>1, <4>1 DEF Inv, CallInv, NoLostWakeup, M!Accepted
    <3> QED
      BY <3>1, <3>2
  <2> QED
    BY <2>1, <2>2 DEF CallInv
<1>4. DeliveredOnce'
  <2>1. stored \intersect pending = {}
    <3> SUFFICES ASSUME NEW m \in stored, m \in pending
                 PROVE  FALSE
      OBVIOUS
    <3>1. m.seq \in Nat
      BY DEF Inv, IInv, TypeOK, M!Message
    <3>2. m.seq < m.seq
      BY DEF Inv, IInv, Numbered, Available
    <3> QED
      BY <3>1, <3>2
  <2> QED
    BY <1>1, <1>2, <2>1 DEF Inv, DeliveredOnce
<1>5. KindFifo'
  <2> SUFFICES ASSUME NEW q \in Receivers, NEW m \in matched'[q],
                      NEW p \in pending' \union stored', m.kind = p.kind
               PROVE  m.seq < p.seq
    BY DEF KindFifo
  <2>1. CASE m \in matched[q]
    BY <1>1, <2>1 DEF Inv, KindFifo
  <2>2. CASE q = r /\ m \in taken /\ p \in pending'
    <3>1. m \in M!Accepted(pending, r)
      BY <2>2 DEF Oldest
    <3>2. p \in M!Accepted(pending, r) \ taken
      BY <1>1, <2>2, <3>1 DEF M!Accepted
    <3> QED
      BY <1>1, <2>2, <3>2, AcceptedFacts, OldestIsOlder DEF Inv
  <2>3. CASE q = r /\ m \in taken /\ p \in stored
    <3>1. m \in Available
      BY <1>1, <2>3 DEF Available
    <3> QED
      BY <2>3, <3>1 DEF Inv, IInv, Numbered
  <2> QED
    BY <1>1, <1>2, <2>1, <2>2, <2>3
<1> QED
  BY <1>3, <1>4, <1>5
LEMMA InitInv == Init => Inv
<1> SUFFICES ASSUME Init
             PROVE  Inv
  OBVIOUS
<1>1. CallInv
  BY FS_EmptySet, ReceiverAssumption
     DEF Init, CallInv, ExactCount, NoLostWakeup, M!Accepted
<1>2. DeliveredOnce /\ KindFifo
  BY DEF Init, DeliveredOnce, KindFifo
<1> QED
  BY <1>1, <1>2, InitIInv DEF Inv

LEMMA NextInv == Inv /\ [Next]_vars => Inv'
<1> SUFFICES ASSUME Inv, [Next]_vars
             PROVE  CallInv' /\ DeliveredOnce' /\ KindFifo'
  BY NextIInv DEF Inv
<1>1. ASSUME NEW kd \in Kinds, StoreInbound(kd)
      PROVE  CallInv' /\ DeliveredOnce' /\ KindFifo'
  <2> DEFINE new == [seq |-> arrived, kind |-> kd]
  <2>1. CallInv'
    BY <1>1 DEF StoreInbound, Inv, CallInv, ExactCount, NoLostWakeup, M!Accepted
  <2>2. \A r \in Receivers : \A m \in matched[r] : m \in Known
    BY DEF Known, Available
  <2>3. \A r \in Receivers : \A m \in matched[r] : m.seq < new.seq
    BY <2>2 DEF Inv, IInv, Numbered
  <2>4. \A r \in Receivers : new \notin matched[r]
    BY <2>3 DEF Inv, IInv, TypeOK
  <2>5. DeliveredOnce'
    BY <1>1, <2>4 DEF StoreInbound, Inv, DeliveredOnce
  <2>6. KindFifo'
    BY <1>1, <2>3 DEF StoreInbound, Inv, KindFifo
  <2> QED
    BY <2>1, <2>5, <2>6
<1>2. CASE QueueInbound
  <2>1. /\ pending' \union stored' = pending \union stored
        /\ matched' = matched
        /\ status' = NotifyAll
    BY <1>2 DEF QueueInbound
  <2>2. \A r \in Receivers : /\ status'[r] # "waiting"
                             /\ status'[r] = "done" <=> status[r] = "done"
    BY <2>1 DEF NotifyAll
  <2>3. CallInv'
    BY <2>1, <2>2 DEF Inv, CallInv, ExactCount, NoLostWakeup
  <2>4. DeliveredOnce' /\ KindFifo'
    BY <2>1 DEF Inv, DeliveredOnce, KindFifo
  <2> QED
    BY <2>3, <2>4
<1>3. ASSUME NEW r \in Receivers, RecvPass(r)
      PROVE  CallInv' /\ DeliveredOnce' /\ KindFifo'
  BY <1>3, PassKeepsInv
<1>4. ASSUME NEW r \in Receivers, WaitTimeout(r)
      PROVE  CallInv' /\ DeliveredOnce' /\ KindFifo'
  <2>1. \A q \in Receivers : /\ status'[q] = "waiting" => status[q] = "waiting"
                             /\ status'[q] = "done" <=> status[q] = "done"
    BY <1>4 DEF WaitTimeout, Inv, IInv, TypeOK
  <2>2. CallInv'
    BY <1>4, <2>1
       DEF WaitTimeout, Inv, CallInv, ExactCount, NoLostWakeup, M!Accepted
  <2>3. DeliveredOnce' /\ KindFifo'
    BY <1>4 DEF WaitTimeout, Inv, DeliveredOnce, KindFifo
  <2> QED
    BY <2>2, <2>3
<1>5. ASSUME pending' \subseteq pending, UNCHANGED <<stored, status, matched>>
      PROVE  CallInv' /\ DeliveredOnce' /\ KindFifo'
  BY <1>5 DEF Inv, CallInv, ExactCount, NoLostWakeup, M!Accepted,
              DeliveredOnce, KindFifo
<1>6. ASSUME NEW layer \in CleanLayers, ClearBeforeLayer(layer)
      PROVE  CallInv' /\ DeliveredOnce' /\ KindFifo'
  BY <1>5, <1>6 DEF ClearBeforeLayer
<1>7. ASSUME NEW inst \in CleanInstances, ClearInstanceState(inst)
      PROVE  CallInv' /\ DeliveredOnce' /\ KindFifo'
  BY <1>5, <1>7 DEF ClearInstanceState
<1>8. CASE UNCHANGED vars
  BY <1>5, <1>8 DEF vars
<1> QED
  BY <1>1, <1>2, <1>3, <1>4, <1>6, <1>7, <1>8 DEF Next

THEOREM Invariance == Spec => []Inv
<1>1. Init => Inv
  BY InitInv
<1>2. Inv /\ [Next]_vars => Inv'
  BY NextInv
<1> QED
  BY <1>1, <1>2, PTL DEF Spec

\* A call asleep in the condition has nothing to collect, so notify_all after
\* every arrival is enough and no wakeup can be lost.
THEOREM NoWakeupLost == Spec => []NoLostWakeup
<1>1. Inv => NoLostWakeup
  BY DEF Inv, CallInv
<1> QED
  BY <1>1, Invariance, PTL

\* No message is handed to two calls, nor handed over and still in the list.
THEOREM DeliveryOnce == Spec => []DeliveredOnce
<1>1. Inv => DeliveredOnce
  BY DEF Inv
<1> QED
  BY <1>1, Invariance, PTL

\* Messages of a kind are handed over oldest first, and a call returns with
\* exactly the messages it asked for.
THEOREM OrderAndCount == Spec => [](KindFifo /\ ExactCount)
<1>1. Inv => KindFifo /\ ExactCount
  BY DEF Inv, CallInv
<1> QED
  BY <1>1, Invariance, PTL

-----------------------------------------------------------------------------
(* The inbound path implements the mailbox.                                *)

\* An instance carries its own copy of the library's operators.
LEMMA SameCardinality ==
  ASSUME NEW S
  PROVE  M!Cardinality(S) = Cardinality(S)
BY DEF M!Cardinality, Cardinality

LEMMA SameOldest ==
  ASSUME NEW S, NEW k
  PROVE  M!Oldest(S, k) = Oldest(S, k)
BY SameCardinality DEF M!Oldest, M!Older, Oldest, Older

LEMMA StepIsMailboxStep ==
  ASSUME Inv, [Next]_vars
  PROVE  [M!MailboxNext]_(M!mailboxVars)
<1>1. ASSUME NEW kd \in Kinds, StoreInbound(kd)
      PROVE  UNCHANGED M!mailboxVars
  BY <1>1 DEF StoreInbound, M!mailboxVars
<1>2. CASE QueueInbound
  <2>1. PICK m \in stored :
          /\ pending' = pending \union {m}
          /\ UNCHANGED matched
    BY <1>2 DEF QueueInbound
  <2>2. m \in M!Message
    BY DEF Inv, IInv, TypeOK
  <2>3. ASSUME NEW x \in pending \union UNION {matched[r] : r \in Receivers}
        PROVE  x.seq < m.seq
    <3>1. x \in Available
      BY DEF Available
    <3> QED
      BY <3>1 DEF Inv, IInv, Numbered
  <2>4. M!Put(m)
    BY <2>1, <2>3 DEF M!Put
  <2> QED
    BY <2>2, <2>4 DEF M!MailboxNext
<1>3. ASSUME NEW r \in Receivers, RecvPass(r)
      PROVE  M!MailboxNext
  <2>1. M!Take(r)
    <3> DEFINE taken == Oldest(M!Accepted(pending, r), Missing(r))
    <3>1. /\ pending' = pending \ taken
          /\ matched' = [matched EXCEPT ![r] = @ \union taken]
      BY <1>3, PassFacts DEF Inv, CallInv
    <3>2. taken = Oldest(M!Accepted(pending, r), Need[r] - Cardinality(matched[r]))
      BY DEF Missing
    <3> QED
      BY <3>1, <3>2, SameOldest, SameCardinality DEF M!Take
  <2> QED
    BY <2>1 DEF M!MailboxNext
<1>4. ASSUME NEW r \in Receivers, WaitTimeout(r)
      PROVE  UNCHANGED M!mailboxVars
  BY <1>4 DEF WaitTimeout, M!mailboxVars
<1>5. ASSUME NEW layer \in CleanLayers, ClearBeforeLayer(layer)
      PROVE  M!MailboxNext
  <2> DEFINE K == {kd \in Kinds : ~(LayerOf[BucketOf[kd]] >= layer)}
  <2>1. M!Discard(K)
    BY <1>5 DEF ClearBeforeLayer, M!Discard, Inv, IInv, TypeOK, M!Message
  <2> QED
    BY <2>1 DEF M!MailboxNext
<1>6. ASSUME NEW inst \in CleanInstances, ClearInstanceState(inst)
      PROVE  M!MailboxNext
  <2> DEFINE K == {kd \in Kinds : InstanceOf[BucketOf[kd]] = inst}
  <2>1. M!Discard(K)
    BY <1>6 DEF ClearInstanceState, M!Discard, Inv, IInv, TypeOK, M!Message
  <2> QED
    BY <2>1 DEF M!MailboxNext
<1>7. CASE UNCHANGED vars
  BY <1>7 DEF vars, M!mailboxVars
<1> QED
  BY <1>1, <1>2, <1>3, <1>4, <1>5, <1>6, <1>7 DEF Next

\* Index, list, condition variable and timeouts together behave as one mailbox
\* from which each call takes the oldest messages it accepts.
THEOREM Implementation == Spec => ImplementsMailbox
<1>1. Init => M!MailboxInit
  BY DEF Init, M!MailboxInit
<1>2. Inv /\ [Next]_vars => [M!MailboxNext]_(M!mailboxVars)
  BY StepIsMailboxStep
<1> QED
  BY <1>1, <1>2, Invariance, PTL DEF Spec, ImplementsMailbox, M!MailboxSpec
=============================================================================
