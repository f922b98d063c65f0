---------------------------- MODULE StreamProofs ----------------------------
(***************************************************************************)
(* What becomes of the data of a connection, for any number of threads:    *)
(* the packet handed to the service is a stretch of the stream without a   *)
(* hole, and while a session is registered every unit read is in exactly   *)
(* one place.  Both rest on the ownership of OwnershipProofs.  At the end, *)
(* that the sub-reactors implement Turns.                                  *)
(***************************************************************************)
EXTENDS OwnershipProofs, FiniteSetTheorems

-----------------------------------------------------------------------------
(* The packets.  With one reader at a time, what a sub-reactor has read is  *)
(* the last stretch of what was taken from its session, so it is contiguous *)
(* when it is pushed; and only after the session is listened to again may   *)
(* somebody take more.                                                      *)

LEMMA StreamInit == Init => Stream
BY DEF Init, Stream, PacketIsTaken, PacketReachesEnd, DatagramsContiguous, Contiguous,
       Serving, Elements

(* Units that go up to the last one have no hole.                           *)
LEMMA PacketsContiguous ==
  ASSUME NEW n \in Nat, NEW units \in SUBSET Nat, units \subseteq 1..n,
         \A u \in units : u..n \subseteq units
  PROVE  Contiguous(units)
BY DEF Contiguous

(* The packets on their way to the service.                                 *)
Passed ==
  /\ \A c \in Elements(msgQ) : Contiguous(c.units)
  /\ \A w \in ServiceWorker : work[w] # None => Contiguous(work[w].units)

LEMMA SamePackets ==
  ASSUME Stream, UNCHANGED <<pc, cur, datagram, taken>>, Passed'
  PROVE  Stream'
BY DEF Stream, PacketIsTaken, PacketReachesEnd, DatagramsContiguous, Passed, Serving

LEMMA SamePassed ==
  ASSUME Stream, UNCHANGED <<msgQ, work>>
  PROVE  Passed'
BY DEF Stream, DatagramsContiguous, Passed, Elements

(* The read loop adds the next stretch; by OneReader no other sub-reactor   *)
(* that may still read has this session.                                    *)
LEMMA ReadStream ==
  ASSUME Typed, OneReader, Stream, NEW r \in SubReactor, ReadData(r)
  PROVE  Stream'
<1> DEFINE s == cur[r]
<1>1. /\ s \in Session /\ Serving(r) /\ pc[r] = "read"
      /\ UNCHANGED <<pc, cur, msgQ, work>>
  BY DEF ReadData, Typed, TypeOK, BusyHasSession, Serving, workerVars
<1>2. /\ taken \in [Session -> 0..MaxUnits] /\ sent \in [Session -> 0..MaxUnits]
      /\ datagram \in [SubReactor -> SUBSET Units] /\ MaxUnits \in Nat
      /\ cur \in [SubReactor -> Session \cup {None}]
      /\ \A q \in SubReactor : pc[q] # "idle" => cur[q] # None
  BY ReactorAssumption DEF Typed, TypeOK, BusyHasSession
<1>3. PICK n \in taken[s] + 1 .. sent[s] :
        /\ taken' = [taken EXCEPT ![s] = n]
        /\ datagram' = [datagram EXCEPT ![r] = datagram[r] \cup (taken[s] + 1 .. n)]
  BY DEF ReadData
<1> HIDE DEF s
<1>4. n \in Nat /\ taken[s] \in Nat /\ taken[s] < n
  BY <1>1, <1>2, <1>3
<1>5. /\ datagram'[r] = datagram[r] \cup (taken[s] + 1 .. n) /\ taken'[s] = n
      /\ \A q \in SubReactor : q # r => datagram'[q] = datagram[q]
      /\ \A x \in Session : x # s => taken'[x] = taken[x]
  BY <1>1, <1>2, <1>3
<1>6. /\ datagram[r] \subseteq 1..taken[s]
      /\ \A u \in datagram[r] : u..taken[s] \subseteq datagram[r]
  BY <1>1 DEF Stream, PacketIsTaken, PacketReachesEnd, s
<1>7. /\ datagram'[r] \subseteq 1..n
      /\ \A u \in datagram'[r] : u..n \subseteq datagram'[r]
  BY <1>4, <1>5, <1>6
<1>8. ASSUME NEW q \in SubReactor, q # r
      PROVE  /\ pc[q] = "idle" => datagram'[q] = {}
             /\ pc[q] # "idle" => datagram'[q] \subseteq 1..taken'[cur[q]]
             /\ Serving(q) => \A u \in datagram'[q] : u..taken'[cur[q]] \subseteq datagram'[q]
  <2>1. pc[q] = "idle" => datagram'[q] = {}
    BY <1>5, <1>8 DEF Stream, PacketIsTaken
  <2>2. ASSUME pc[q] # "idle" PROVE datagram'[q] \subseteq 1..taken'[cur[q]]
    <3>1. cur[q] \in Session /\ datagram'[q] \subseteq 1..taken[cur[q]]
      BY <1>2, <1>5, <1>8, <2>2 DEF Stream, PacketIsTaken
    <3>2. taken[cur[q]] <= taken'[cur[q]] /\ taken[cur[q]] \in Nat /\ taken'[cur[q]] \in Nat
      BY <1>2, <1>4, <1>5, <3>1
    <3> QED
      BY <3>1, <3>2
  <2>3. ASSUME Serving(q)
        PROVE  \A u \in datagram'[q] : u..taken'[cur[q]] \subseteq datagram'[q]
    <3>1. cur[q] # s /\ cur[q] \in Session
      BY <1>1, <1>2, <1>8, <2>3 DEF OneReader, s, Serving
    <3> QED
      BY <1>5, <1>8, <2>3, <3>1 DEF Stream, PacketReachesEnd
  <2> QED
    BY <2>1, <2>2, <2>3
<1>9. PacketIsTaken' /\ PacketReachesEnd'
  BY <1>1, <1>5, <1>7, <1>8 DEF PacketIsTaken, PacketReachesEnd, Serving, s
<1>10. DatagramsContiguous'
  <2>1. Contiguous(datagram'[r])
    <3>1. datagram'[r] \in SUBSET Nat
      BY <1>4, <1>7
    <3> QED
      BY <1>4, <1>7, <3>1, PacketsContiguous
  <2>2. \A q \in SubReactor : q # r => Contiguous(datagram'[q])
    BY <1>5 DEF Stream, DatagramsContiguous
  <2>3. Passed'
    BY <1>1, SamePassed
  <2> QED
    BY <2>1, <2>2, <2>3 DEF DatagramsContiguous, Passed, Contiguous
<1> QED
  BY <1>9, <1>10 DEF Stream

(* Between its reads a sub-reactor changes no packet but its own, and that  *)
(* only to empty it.                                                        *)
LEMMA TurnStream ==
  ASSUME Typed, Stream, NEW r \in SubReactor,
         TakeSession(r) \/ ReadStops(r) \/ DeleteSession(r) \/ Rearm(r)
  PROVE  Stream'
<1>1. UNCHANGED <<taken, msgQ, work>>
  BY DEF TakeSession, ReadStops, DeleteSession, Rearm, workerVars
<1>2. /\ pc \in [SubReactor -> {"idle", "read", "rearm", "delete", "push"}]
      /\ cur \in [SubReactor -> Session \cup {None}]
      /\ datagram \in [SubReactor -> SUBSET Units]
  BY DEF Typed, TypeOK
<1>3. Passed'
  BY <1>1, SamePassed
<1>4. CASE TakeSession(r)
  BY <1>1, <1>2, <1>3, <1>4
     DEF TakeSession, Stream, PacketIsTaken, PacketReachesEnd, DatagramsContiguous,
         Contiguous, Passed, Serving
<1>5. CASE ReadStops(r)
  BY <1>1, <1>2, <1>3, <1>5
     DEF ReadStops, StopsWith, Stream, PacketIsTaken, PacketReachesEnd, DatagramsContiguous,
         Contiguous, Passed, Serving
<1>6. CASE DeleteSession(r)
  BY <1>1, <1>2, <1>3, <1>6
     DEF DeleteSession, ReturnToLoop, PacketReleased, Stream, PacketIsTaken,
         PacketReachesEnd, DatagramsContiguous, Contiguous, Passed, Serving
<1>7. CASE Rearm(r)
  BY <1>1, <1>2, <1>3, <1>7
     DEF Rearm, Stream, PacketIsTaken, PacketReachesEnd, DatagramsContiguous,
         Contiguous, Passed, Serving
<1> QED
  BY <1>4, <1>5, <1>6, <1>7

LEMMA PushStream ==
  ASSUME Typed, Stream, NEW r \in SubReactor, PushMessage(r)
  PROVE  Stream'
<1>1. /\ UNCHANGED <<taken, work>> /\ pc[r] = "push"
      /\ msgQ' = Append(msgQ, [session |-> cur[r], units |-> datagram[r]])
      /\ pc' = [pc EXCEPT ![r] = "idle"] /\ cur' = [cur EXCEPT ![r] = None]
      /\ datagram' = [datagram EXCEPT ![r] = {}]
  BY DEF PushMessage, OnPushMessage, ReturnToLoop, PacketReleased, workerVars
<1>2. /\ pc \in [SubReactor -> {"idle", "read", "rearm", "delete", "push"}]
      /\ cur \in [SubReactor -> Session \cup {None}]
      /\ datagram \in [SubReactor -> SUBSET Units] /\ msgQ \in Seq(Context)
      /\ cur[r] # None
  BY <1>1 DEF Typed, TypeOK, BusyHasSession
<1> DEFINE c == [session |-> cur[r], units |-> datagram[r]]
<1>3. c \in Context /\ c.units = datagram[r]
  BY <1>2 DEF Context
<1>4. Elements(msgQ') = Elements(msgQ) \cup {c}
  BY <1>1, <1>2, <1>3, Queued
<1>5. Elements(msgQ)' = Elements(msgQ')
  BY DEF Elements
<1> HIDE DEF c
<1>6. Passed'
  BY <1>1, <1>3, <1>4, <1>5 DEF Stream, DatagramsContiguous, Passed
<1>7. PacketIsTaken' /\ PacketReachesEnd'
  BY <1>1, <1>2 DEF Stream, PacketIsTaken, PacketReachesEnd, Serving
<1>8. \A q \in SubReactor : Contiguous(datagram'[q])
  BY <1>1, <1>2 DEF Stream, DatagramsContiguous, Contiguous
<1> QED
  BY <1>6, <1>7, <1>8 DEF Stream, DatagramsContiguous, Passed

LEMMA WorkerStream ==
  ASSUME Typed, Stream, NEW w \in ServiceWorker, WorkerStep(w)
  PROVE  Stream'
<1>1. UNCHANGED <<pc, cur, datagram, taken>>
  BY DEF WorkerStep, TakeMessage, FinishMessage, reactorVars
<1>2. msgQ \in Seq(Context) /\ work \in [ServiceWorker -> Context \cup {None}]
  BY DEF Typed, TypeOK
<1>3. CASE TakeMessage(w)
  <2>1. msgQ # <<>> /\ msgQ' = Tail(msgQ) /\ work' = [work EXCEPT ![w] = Head(msgQ)]
    BY <1>3 DEF TakeMessage
  <2>2. Head(msgQ) \in Elements(msgQ) /\ Elements(msgQ') \subseteq Elements(msgQ)
    <3>1. /\ Len(msgQ) \in Nat \ {0} /\ DOMAIN msgQ = 1..Len(msgQ) /\ Head(msgQ) = msgQ[1]
          /\ DOMAIN msgQ' = 1..(Len(msgQ) - 1)
          /\ \A i \in 1..(Len(msgQ) - 1) : msgQ'[i] = msgQ[i + 1]
      BY <1>2, <2>1
    <3> QED
      BY <3>1 DEF Elements
  <2>3. Elements(msgQ)' = Elements(msgQ')
    BY DEF Elements
  <2>4. Passed'
    BY <1>2, <2>1, <2>2, <2>3 DEF Stream, DatagramsContiguous, Passed
  <2> QED
    BY <1>1, <2>4, SamePackets
<1>4. CASE FinishMessage(w)
  <2>1. UNCHANGED msgQ /\ work' = [work EXCEPT ![w] = None]
    BY <1>4 DEF FinishMessage
  <2>2. Passed'
    BY <1>2, <2>1 DEF Stream, DatagramsContiguous, Passed, Elements
  <2> QED
    BY <1>1, <2>2, SamePackets
<1> QED
  BY <1>3, <1>4 DEF WorkerStep

LEMMA StreamStep == IInv /\ Stream /\ [Next]_vars => Stream'
<1> SUFFICES ASSUME IInv, Stream, [Next]_vars PROVE Stream'
  OBVIOUS
<1>1. Typed /\ OneReader
  BY DEF IInv, Ownership, SingleOwner
<1>2. CASE UNCHANGED <<pc, cur, datagram, taken, msgQ, work>>
  BY <1>2, SamePackets, SamePassed
<1>3. ASSUME NEW s \in Session, PeerStep(s) \/ SelectorStep(s)
      PROVE  UNCHANGED <<pc, cur, datagram, taken, msgQ, work>>
  BY <1>3 DEF PeerStep, PeerSend, PeerEnd, SelectorStep, Accept, OnDataRecv,
     OnDataRecvAborts, reactorVars, workerVars
<1>4. ListenToNewborn => UNCHANGED <<pc, cur, datagram, taken, msgQ, work>>
  BY DEF ListenToNewborn, reactorVars, workerVars
<1>5. ASSUME NEW r \in SubReactor, ReactorStep(r) PROVE Stream'
  BY <1>1, <1>5, ReadStream, TurnStream, PushStream DEF ReactorStep
<1>6. ASSUME NEW w \in ServiceWorker, WorkerStep(w) PROVE Stream'
  BY <1>1, <1>6, WorkerStream
<1>7. UNCHANGED vars => UNCHANGED <<pc, cur, datagram, taken, msgQ, work>>
  BY DEF vars, reactorVars, workerVars
<1> QED
  BY <1>2, <1>3, <1>4, <1>5, <1>6, <1>7 DEF Next

(* The invariant of the packets rests on IInv: that no two sub-reactors     *)
(* read one socket is what makes a packet the end of what was read.         *)
THEOREM StreamInvariant == OwnNameSpec => []Stream
<1>1. Init => Stream
  BY StreamInit
<1>2. IInv /\ Stream /\ [Next /\ OwnName]_vars => Stream'
  BY StreamStep
<1> QED
  BY <1>1, <1>2, Invariant, PTL DEF OwnNameSpec

(* What the service gets is a stretch of the peer's stream without a hole.  *)
THEOREM PacketsAreStretches == OwnNameSpec => []DatagramsContiguous
<1>1. Stream => DatagramsContiguous
  BY DEF Stream
<1> QED
  BY <1>1, StreamInvariant, PTL

(* One datagram of a session overtakes another only between Rearm and       *)
(* PushMessage of the sub-reactor that holds the older one.                 *)
THEOREM OvertakenInWindow == OwnNameSpec => []OvertakenOnlyAtPush
<1>1. Typed /\ Stream => OvertakenOnlyAtPush
  <2> SUFFICES ASSUME Typed, Stream, NEW r \in SubReactor, cur[r] # None,
                      NEW u \in datagram[r], NEW v \in u + 1 .. taken[cur[r]],
                      v \notin datagram[r], pc[r] # "push"
               PROVE  FALSE
    BY DEF OvertakenOnlyAtPush, Overtaken
  <2>1. pc[r] # "idle"
    BY DEF Stream, PacketIsTaken
  <2>2. Serving(r)
    BY <2>1 DEF Serving, Typed, TypeOK
  <2>3. u..taken[cur[r]] \subseteq datagram[r]
    BY <2>2 DEF Stream, PacketReachesEnd
  <2>4. u \in Nat
    BY DEF Typed, TypeOK, Units
  <2>5. taken[cur[r]] \in Nat
    BY ReactorAssumption DEF Typed, TypeOK
  <2>6. v \in u..taken[cur[r]]
    BY <2>4, <2>5
  <2> QED
    BY <2>3, <2>6
<1>2. IInv => Typed
  BY DEF IInv
<1> QED
  BY <1>1, <1>2, Invariant, StreamInvariant, PTL
-----------------------------------------------------------------------------
(* The units.  A step takes a unit from one place and puts it into another. *)

LEMMA FinitePlaces ==
  ASSUME Typed, NEW s, NEW u
  PROVE  /\ IsFiniteSet(Reading(s, u)) /\ Cardinality(Reading(s, u)) \in Nat
         /\ IsFiniteSet(Waiting(s, u)) /\ Cardinality(Waiting(s, u)) \in Nat
         /\ IsFiniteSet(Working(s, u)) /\ Cardinality(Working(s, u)) \in Nat
<1>1. IsFiniteSet(Reading(s, u)) /\ IsFiniteSet(Working(s, u))
  BY ThreadsAssumption, FS_Subset DEF Reading, Working
<1>2. IsFiniteSet(Waiting(s, u))
  <2>1. DOMAIN msgQ = 1..Len(msgQ) /\ Len(msgQ) \in Nat
    BY DEF Typed, TypeOK
  <2>2. IsFiniteSet(1..Len(msgQ))
    BY <2>1, FS_Interval
  <2> QED
    BY <2>1, <2>2, FS_Subset DEF Waiting
<1> QED
  BY <1>1, <1>2, FS_CardinalityType

LEMMA WaitingPushed ==
  ASSUME Typed, NEW c \in Context, msgQ' = Append(msgQ, c), NEW s, NEW u
  PROVE  Cardinality(Waiting(s, u))' =
           Cardinality(Waiting(s, u)) + (IF c.session = s /\ u \in c.units THEN 1 ELSE 0)
<1>1. /\ msgQ \in Seq(Context) /\ Len(msgQ) \in Nat /\ DOMAIN msgQ = 1..Len(msgQ)
      /\ DOMAIN msgQ' = 1..(Len(msgQ) + 1) /\ msgQ'[Len(msgQ) + 1] = c
      /\ \A i \in 1..Len(msgQ) : msgQ'[i] = msgQ[i]
  BY DEF Typed, TypeOK
<1>2. Len(msgQ) + 1 \notin Waiting(s, u)
  BY <1>1 DEF Waiting
<1>3. CASE c.session = s /\ u \in c.units
  <2>1. Waiting(s, u)' = Waiting(s, u) \cup {Len(msgQ) + 1}
    BY <1>1, <1>3 DEF Waiting
  <2> QED
    BY <1>2, <1>3, <2>1, FinitePlaces, FS_AddElement
<1>4. CASE ~(c.session = s /\ u \in c.units)
  <2>1. Waiting(s, u)' = Waiting(s, u)
    BY <1>1, <1>4 DEF Waiting
  <2> QED
    BY <1>4, <2>1, FinitePlaces
<1> QED
  BY <1>3, <1>4

(* The first item is one of those of a kind, or they all move up.           *)
LEMMA TailCount ==
  ASSUME NEW S, NEW q \in Seq(S), q # <<>>, NEW T
  PROVE  /\ Cardinality({i \in DOMAIN q : q[i] \in T}) =
           Cardinality({i \in DOMAIN Tail(q) : Tail(q)[i] \in T})
             + (IF Head(q) \in T THEN 1 ELSE 0)
         /\ Cardinality({i \in DOMAIN Tail(q) : Tail(q)[i] \in T}) \in Nat
<1>1. /\ Len(q) \in Nat \ {0} /\ DOMAIN q = 1..Len(q) /\ Head(q) = q[1]
      /\ DOMAIN Tail(q) = 1..(Len(q) - 1)
      /\ \A i \in 1..(Len(q) - 1) : Tail(q)[i] = q[i + 1]
  OBVIOUS
<1> DEFINE old == {i \in 1..Len(q) : q[i] \in T}
           rest == old \ {1}
           new == {i \in 1..(Len(q) - 1) : q[i + 1] \in T}
           f == [i \in rest |-> i - 1]
<1>2. /\ {i \in DOMAIN q : q[i] \in T} = old
      /\ {i \in DOMAIN Tail(q) : Tail(q)[i] \in T} = new
  BY <1>1
<1>3. IsFiniteSet(old) /\ Cardinality(old) \in Nat
  <2>1. IsFiniteSet(1..Len(q)) /\ old \in SUBSET (1..Len(q))
    BY <1>1, FS_Interval
  <2> HIDE DEF old
  <2>2. IsFiniteSet(old)
    BY <2>1, FS_Subset
  <2> QED
    BY <2>2, FS_CardinalityType
<1>4. 1 \in old <=> Head(q) \in T
  BY <1>1
<1>5. IsFiniteSet(rest) /\ Cardinality(rest) = Cardinality(old) - (IF 1 \in old THEN 1 ELSE 0)
  <2> HIDE DEF old
  <2> QED
    BY <1>3, FS_RemoveElement
<1>6. f \in Bijection(rest, new)
  <2>1. \A i \in rest : i \in Nat /\ i - 1 \in new
    BY <1>1
  <2>2. \A i, j \in rest : i - 1 = j - 1 => i = j
    BY <2>1
  <2>3. \A k \in new : \E i \in rest : i - 1 = k
    <3> SUFFICES ASSUME NEW k \in new PROVE k + 1 \in rest /\ (k + 1) - 1 = k
      OBVIOUS
    <3> QED
      BY <1>1
  <2>4. f \in [rest -> new] /\ \A i \in rest : f[i] = i - 1
    BY <2>1
  <2> HIDE DEF f, rest, new
  <2>5. \A i, j \in rest : f[i] = f[j] => i = j
    BY <2>2, <2>4
  <2>6. \A k \in new : \E i \in rest : f[i] = k
    BY <2>3, <2>4
  <2> QED
    BY <2>4, <2>5, <2>6 DEF Bijection, Injection, Surjection, IsInjective
<1>7. Cardinality(new) = Cardinality(rest) /\ Cardinality(new) \in Nat
  BY <1>5, <1>6, FS_Bijection, FS_CardinalityType DEF ExistsBijection
<1> HIDE DEF old, rest, new
<1>8. Cardinality(old) = Cardinality(new) + (IF Head(q) \in T THEN 1 ELSE 0)
  BY <1>3, <1>4, <1>5, <1>7
<1> QED
  BY <1>2, <1>7, <1>8, Zenon

LEMMA WaitingTaken ==
  ASSUME Typed, msgQ # <<>>, msgQ' = Tail(msgQ), NEW s, NEW u
  PROVE  /\ Cardinality(Waiting(s, u)) =
           Cardinality(Waiting(s, u))'
             + (IF Head(msgQ).session = s /\ u \in Head(msgQ).units THEN 1 ELSE 0)
         /\ Cardinality(Waiting(s, u))' \in Nat
<1> DEFINE T == {c \in Context : c.session = s /\ u \in c.units}
<1>1. /\ msgQ \in Seq(Context) /\ Tail(msgQ) \in Seq(Context) /\ Head(msgQ) \in Context
      /\ \A i \in DOMAIN msgQ : msgQ[i] \in Context
      /\ \A i \in DOMAIN Tail(msgQ) : Tail(msgQ)[i] \in Context
  BY DEF Typed, TypeOK
<1>2. /\ Waiting(s, u) = {i \in DOMAIN msgQ : msgQ[i] \in T}
      /\ Waiting(s, u)' = {i \in DOMAIN Tail(msgQ) : Tail(msgQ)[i] \in T}
      /\ Head(msgQ) \in T <=> Head(msgQ).session = s /\ u \in Head(msgQ).units
  BY <1>1 DEF Waiting
<1> HIDE DEF T
<1>3. /\ Cardinality({i \in DOMAIN msgQ : msgQ[i] \in T}) =
        Cardinality({i \in DOMAIN Tail(msgQ) : Tail(msgQ)[i] \in T})
          + (IF Head(msgQ) \in T THEN 1 ELSE 0)
      /\ Cardinality({i \in DOMAIN Tail(msgQ) : Tail(msgQ)[i] \in T}) \in Nat
  BY <1>1, TailCount
<1> QED
  BY <1>2, <1>3

(* A step that leaves every unit where it is, or drops it with its session, *)
(* and at most registers a session nothing has been read from.              *)
LEMMA SameAccounts ==
  ASSUME Typed, Accounted, UNCHANGED taken,
         \A s \in Session : Registered(s)' => Registered(s) \/ taken[s] = 0,
         \A s \in Session : idOf'[s] = None => idOf[s] = None,
         \A s \in Session : \A u \in Units : Places(s, u) \in {0, 1} =>
           Places(s, u)' = Places(s, u) \/ (Places(s, u)' = 0 /\ ~Registered(s)')
  PROVE  Accounted'
<1>1. taken \in [Session -> 0..MaxUnits] /\ MaxUnits \in Nat
  BY ReactorAssumption DEF Typed, TypeOK
<1>2. NothingLost'
  <2> SUFFICES ASSUME NEW s \in Session, NEW u \in 1..taken'[s]
               PROVE  Places(s, u)' \in {0, 1} /\ (Registered(s)' => Places(s, u)' = 1)
    BY DEF NothingLost
  <2>1. u \in Units /\ u \in 1..taken[s] /\ (Registered(s)' => Registered(s))
    BY <1>1 DEF Units
  <2>2. Places(s, u) \in {0, 1} /\ (Registered(s) => Places(s, u) = 1)
    BY <2>1 DEF Accounted, NothingLost
  <2> QED
    BY <2>1, <2>2
<1>3. ASSUME NEW s \in Session, NEW u \in Units, u > taken'[s]
      PROVE  Places(s, u)' = 0
  <2>1. Places(s, u) = 0
    BY <1>3 DEF Accounted
  <2> QED
    BY <1>3, <2>1
<1>4. \A s \in Session : idOf'[s] = None => taken'[s] = 0
  BY DEF Accounted
<1> QED
  BY <1>2, <1>3, <1>4 DEF Accounted

LEMMA SamePlaces ==
  ASSUME UNCHANGED <<cur, datagram, msgQ, work, handled>>, NEW s, NEW u
  PROVE  Places(s, u)' = Places(s, u)
BY DEF Places, Reading, Waiting, Working
-----------------------------------------------------------------------------
LEMMA OutsideAccounts ==
  ASSUME Typed, Accounted,
         \/ \E s \in Session : PeerStep(s) \/ SelectorStep(s)
         \/ ListenToNewborn \/ UNCHANGED vars
  PROVE  Accounted'
<1>1. UNCHANGED <<cur, datagram, msgQ, work, handled, taken>>
  BY ZenonT(60) DEF PeerStep, PeerSend, PeerEnd, SelectorStep, Accept, OnDataRecv, OnDataRecvAborts,
     ListenToNewborn, reactorVars, workerVars, vars
<1>2. /\ idOf \in [Session -> Peer \cup {None}] /\ sessions \in [Peer -> Session \cup {None}]
      /\ None \notin Peer
  BY ReactorAssumption DEF Typed, TypeOK
<1>3. CASE \E x \in Session, p \in Peer, f \in Fd : Accept(p, x, f)
  <2>1. PICK x \in Session, p \in Peer, f \in Fd : Accept(p, x, f)
    BY <1>3
  <2>2. /\ idOf[x] = None /\ idOf' = [idOf EXCEPT ![x] = p]
        /\ sessions' = [sessions EXCEPT ![p] = IF @ = None THEN x ELSE @]
    BY <2>1 DEF Accept, AddSession
  <2>3. taken[x] = 0
    BY <2>2 DEF Accounted
  <2>4. \A s \in Session : s # x => (Registered(s)' => Registered(s))
    BY <1>2, <2>2 DEF Registered
  <2>5. \A s \in Session : idOf'[s] = None => idOf[s] = None
    BY <1>2, <2>2
  <2> QED
    BY <1>1, <2>3, <2>4, <2>5, SamePlaces, SameAccounts
<1>4. CASE UNCHANGED <<idOf, sessions>>
  <2>1. \A s \in Session : Registered(s)' <=> Registered(s)
    BY <1>4 DEF Registered
  <2> QED
    BY <1>1, <1>4, <2>1, SamePlaces, SameAccounts
<1>5. ASSUME NEW s \in Session, PeerStep(s) PROVE UNCHANGED <<idOf, sessions>>
  BY <1>5, Zenon DEF PeerStep, PeerSend, PeerEnd
<1>6. ASSUME NEW s \in Session, SelectorStep(s)
      PROVE  \/ \E x \in Session, p \in Peer, f \in Fd : Accept(p, x, f)
             \/ UNCHANGED <<idOf, sessions>>
  <2>1. ASSUME NEW t \in Session, NEW inMap \in BOOLEAN, OnDataRecv(s, t, inMap)
        PROVE  UNCHANGED <<idOf, sessions>>
    BY <2>1 DEF OnDataRecv, kernelVars
  <2>2. CASE OnDataRecvAborts(s)
    BY <2>2 DEF OnDataRecvAborts, kernelVars
  <2> QED
    BY <1>6, <2>1, <2>2, Zenon DEF SelectorStep
<1>7. CASE ListenToNewborn \/ UNCHANGED vars
  BY <1>4, <1>7 DEF ListenToNewborn, kernelVars, vars
<1> QED
  BY <1>3, <1>4, <1>5, <1>6, <1>7

(* What a session must keep for SameAccounts, of a step that neither        *)
(* accepts nor ends one.                                                    *)
LEMMA SameNames ==
  ASSUME UNCHANGED <<idOf, sessions>>
  PROVE  /\ \A s \in Session : Registered(s)' => Registered(s) \/ taken[s] = 0
         /\ \A s \in Session : idOf'[s] = None => idOf[s] = None
BY DEF Registered

(* An idle sub-reactor holds no unit, before it takes a session and after.  *)
LEMMA TurnAccounts ==
  ASSUME Typed, Stream, Accounted, NEW r \in SubReactor,
         TakeSession(r) \/ ReadStops(r) \/ Rearm(r)
  PROVE  Accounted'
<1>1. UNCHANGED <<idOf, sessions, taken, datagram, msgQ, work, handled>>
  BY DEF TakeSession, ReadStops, Rearm, kernelVars, workerVars
<1>2. cur' = cur \/ (pc[r] = "idle" /\ \A q \in SubReactor : q # r => cur'[q] = cur[q])
  BY DEF TakeSession, ReadStops, Rearm, Typed, TypeOK
<1>3. pc[r] = "idle" => datagram[r] = {}
  BY DEF Stream, PacketIsTaken
<1>4. ASSUME NEW s, NEW u PROVE Places(s, u)' = Places(s, u)
  <2>1. Reading(s, u)' = Reading(s, u)
    BY <1>1, <1>2, <1>3 DEF Reading
  <2>2. Waiting(s, u)' = Waiting(s, u) /\ Working(s, u)' = Working(s, u)
    BY <1>1 DEF Waiting, Working
  <2> QED
    BY <1>1, <2>1, <2>2 DEF Places
<1> QED
  BY <1>1, <1>4, SameNames, SameAccounts

(* The packet of a session that has ended goes with its session: the one    *)
(* that is unregistered is the one whose packet is dropped.                 *)
LEMMA DeleteAccounts ==
  ASSUME IInv, Stream, Accounted, NEW r \in SubReactor, DeleteSession(r)
  PROVE  Accounted'
<1>0. PICK x \in Session : x = cur[r]
  BY DEF IInv, Typed, TypeOK, BusyHasSession, DeleteSession
<1>1. /\ pc[r] = "delete" /\ sessions' = [sessions EXCEPT ![idOf[x]] = None]
      /\ cur' = [cur EXCEPT ![r] = None] /\ datagram' = [datagram EXCEPT ![r] = {}]
      /\ UNCHANGED <<idOf, taken, msgQ, work, handled>>
  BY <1>0 DEF DeleteSession, ReturnToLoop, PacketReleased, kernelVars, workerVars
<1>2. /\ Typed /\ sessions \in [Peer -> Session \cup {None}]
      /\ cur \in [SubReactor -> Session \cup {None}]
      /\ datagram \in [SubReactor -> SUBSET Units] /\ taken \in [Session -> 0..MaxUnits]
      /\ MaxUnits \in Nat /\ None \notin Peer /\ None \notin Session
      /\ idOf \in [Session -> Peer \cup {None}]
  BY <1>1, ReactorAssumption DEF IInv, Typed, TypeOK, BusyHasSession
<1>3. Served(x) /\ Registered(x)
  BY <1>0, <1>1, <1>2 DEF Served, Serving, IInv, Ownership, ServedIsRegistered
<1>4. datagram[r] \subseteq 1..taken[x]
  BY <1>0, <1>1 DEF Stream, PacketIsTaken
<1>5. ~Registered(x)' /\ \A s \in Session : Registered(s)' => Registered(s)
  BY <1>1, <1>2, <1>3 DEF Registered
<1>6. ASSUME NEW s \in Session, NEW u \in Units, Places(s, u) \in {0, 1}
      PROVE  Places(s, u)' = Places(s, u) \/ (Places(s, u)' = 0 /\ ~Registered(s)')
  <2>1. UNCHANGED <<Waiting(s, u), Working(s, u), handled>>
    BY <1>1 DEF Waiting, Working
  <2>2. CASE r \notin Reading(s, u)
    <3>1. Reading(s, u)' = Reading(s, u)
      BY <1>1, <1>2, <2>2 DEF Reading
    <3> QED
      BY <2>1, <3>1 DEF Places
  <2>3. CASE r \in Reading(s, u)
    <3>1. s = x /\ Reading(s, u)' = Reading(s, u) \ {r}
      BY <1>0, <1>1, <1>2, <2>3 DEF Reading
    <3>2. /\ Cardinality(Reading(s, u)) \in Nat /\ Cardinality(Waiting(s, u)) \in Nat
          /\ Cardinality(Working(s, u)) \in Nat /\ IsFiniteSet(Reading(s, u))
          /\ Cardinality(Reading(s, u)) # 0
      BY <1>2, <2>3, FinitePlaces, FS_EmptySet
    <3>3. Cardinality(Reading(s, u))' = Cardinality(Reading(s, u)) - 1
      BY <2>3, <3>1, <3>2, FS_RemoveElement, ZenonT(40)
    <3> DEFINE d == IF u \in handled[s] THEN 1 ELSE 0
    <3>4. /\ d \in Nat /\ d' = d
          /\ Cardinality(Reading(s, u)) + Cardinality(Waiting(s, u))
               + Cardinality(Working(s, u)) + d \in {0, 1}
          /\ Places(s, u)' = Cardinality(Reading(s, u))' + Cardinality(Waiting(s, u))'
                               + Cardinality(Working(s, u))' + d'
      BY <1>6, <2>1 DEF Places
    <3> HIDE DEF d
    <3>5. Cardinality(Waiting(s, u))' = Cardinality(Waiting(s, u))
      BY <2>1
    <3>6. Cardinality(Working(s, u))' = Cardinality(Working(s, u))
      BY <2>1
    <3>7. Places(s, u)' = 0
      BY <3>2, <3>3, <3>4, <3>5, <3>6
    <3> QED
      BY <1>5, <3>1, <3>7
  <2> QED
    BY <2>2, <2>3
<1> QED
  BY <1>1, <1>2, <1>5, <1>6, SameAccounts

(* Four counts that add up to nothing are nothing.                          *)
LEMMA NothingCounted ==
  ASSUME NEW a \in Nat, NEW b \in Nat, NEW c \in Nat, NEW d \in Nat,
         a + b + c + d = 0
  PROVE  a = 0 /\ b = 0 /\ c = 0 /\ d = 0
OBVIOUS

(* The units read were nowhere, and are in the packet now.                  *)
LEMMA ReadAccounts ==
  ASSUME IInv, Accounted, NEW r \in SubReactor, ReadData(r)
  PROVE  Accounted'
<1> USE DEF IInv
<1>0. PICK x \in Session : x = cur[r]
  BY DEF Typed, TypeOK, BusyHasSession, ReadData
<1>1. UNCHANGED <<idOf, sessions, cur, msgQ, work, handled>> /\ pc[r] = "read"
  BY DEF ReadData, kernelVars, workerVars
<1>2. /\ taken \in [Session -> 0..MaxUnits] /\ sent \in [Session -> 0..MaxUnits]
      /\ datagram \in [SubReactor -> SUBSET Units] /\ MaxUnits \in Nat
  BY <1>1, ReactorAssumption DEF Typed, TypeOK, BusyHasSession
<1>3. PICK n \in taken[x] + 1 .. sent[x] :
        /\ taken' = [taken EXCEPT ![x] = n]
        /\ datagram' = [datagram EXCEPT ![r] = datagram[r] \cup (taken[x] + 1 .. n)]
  BY <1>0 DEF ReadData
<1>4. /\ n \in Nat /\ taken[x] \in Nat /\ taken[x] < n /\ n <= MaxUnits
      /\ taken'[x] = n /\ \A s \in Session : s # x => taken'[s] = taken[s]
  BY <1>2, <1>3
<1>5. \A s \in Session : Registered(s)' <=> Registered(s)
  BY <1>1 DEF Registered
<1>6. ASSUME NEW s \in Session, NEW u \in Units, s # x \/ u \notin taken[x] + 1 .. n
      PROVE  Places(s, u)' = Places(s, u)
  <2>1. Reading(s, u)' = Reading(s, u)
    BY <1>0, <1>1, <1>2, <1>3, <1>6 DEF Reading
  <2>2. Waiting(s, u)' = Waiting(s, u) /\ Working(s, u)' = Working(s, u)
    BY <1>1 DEF Waiting, Working
  <2> QED
    BY <1>1, <2>1, <2>2 DEF Places
<1>7. ASSUME NEW u \in taken[x] + 1 .. n PROVE Places(x, u)' = 1
  <2>1. u \in Units /\ u > taken[x]
    BY <1>2, <1>4 DEF Units
  <2>2. Places(x, u) = 0
    BY <1>2, <2>1 DEF Accounted
  <2>3. /\ Cardinality(Reading(x, u)) = 0 /\ Cardinality(Waiting(x, u)) = 0
        /\ Cardinality(Working(x, u)) = 0 /\ u \notin handled[x]
    <3>1. /\ Cardinality(Reading(x, u)) \in Nat /\ Cardinality(Waiting(x, u)) \in Nat
          /\ Cardinality(Working(x, u)) \in Nat
      BY FinitePlaces
    <3> DEFINE d == IF u \in handled[x] THEN 1 ELSE 0
    <3>2. d \in Nat
      OBVIOUS
    <3>3. Cardinality(Reading(x, u)) + Cardinality(Waiting(x, u))
            + Cardinality(Working(x, u)) + d = 0
      BY <2>2 DEF Places
    <3> HIDE DEF d
    <3>4. /\ Cardinality(Reading(x, u)) = 0 /\ Cardinality(Waiting(x, u)) = 0
          /\ Cardinality(Working(x, u)) = 0 /\ d = 0
      BY <3>1, <3>2, <3>3, NothingCounted
    <3> QED
      BY <3>4 DEF d
  <2>4. Reading(x, u) = {}
    BY <2>3, FinitePlaces, FS_EmptySet
  <2>5. Reading(x, u)' = {r}
    BY <1>0, <1>1, <1>2, <1>3, <2>4 DEF Reading
  <2>6. Cardinality({r}) = 1
    BY FS_Singleton
  <2>7. Waiting(x, u)' = Waiting(x, u) /\ Working(x, u)' = Working(x, u)
    BY <1>1 DEF Waiting, Working
  <2> QED
    BY <1>1, <2>3, <2>5, <2>6, <2>7 DEF Places
<1>8. NothingLost'
  <2> SUFFICES ASSUME NEW s \in Session, NEW u \in 1..taken'[s]
               PROVE  Places(s, u)' \in {0, 1} /\ (Registered(s)' => Places(s, u)' = 1)
    BY DEF NothingLost
  <2>1. CASE s = x /\ u \in taken[x] + 1 .. n
    BY <2>1, <1>7
  <2>2. CASE s # x \/ u \notin taken[x] + 1 .. n
    <3>1. u \in Units /\ u \in 1..taken[s]
      BY <2>2, <1>2, <1>4 DEF Units
    <3>2. Places(s, u) \in {0, 1} /\ (Registered(s)' => Places(s, u) = 1)
      BY <1>5, <3>1 DEF Accounted, NothingLost
    <3> QED
      BY <1>6, <2>2, <3>1, <3>2
  <2> QED
    BY <2>1, <2>2
<1>9. ASSUME NEW s \in Session, NEW u \in Units, u > taken'[s]
      PROVE  Places(s, u)' = 0
  <2>1. u > taken[s] /\ (s # x \/ u \notin taken[x] + 1 .. n)
    BY <1>2, <1>4, <1>9 DEF Units
  <2> QED
    BY <1>6, <2>1 DEF Accounted
<1>10. ASSUME NEW s \in Session, idOf'[s] = None PROVE taken'[s] = 0
  <2>1. Served(x)
    BY <1>0, <1>1 DEF Served, Serving
  <2>2. idOf[x] # None
    BY <2>1 DEF Ownership, Unused
  <2> QED
    BY <1>1, <1>4, <1>10, <2>2 DEF Accounted
<1> QED
  BY <1>8, <1>9, <1>10 DEF Accounted

(* The packet's units go from the sub-reactor to the queue.                 *)
LEMMA PushAccounts ==
  ASSUME Typed, Accounted, NEW r \in SubReactor, PushMessage(r)
  PROVE  Accounted'
<1>0. PICK x \in Session : x = cur[r]
  BY DEF Typed, TypeOK, BusyHasSession, PushMessage
<1>1. /\ msgQ' = Append(msgQ, [session |-> x, units |-> datagram[r]])
      /\ cur' = [cur EXCEPT ![r] = None] /\ datagram' = [datagram EXCEPT ![r] = {}]
      /\ UNCHANGED <<idOf, sessions, taken, work, handled>>
  BY <1>0 DEF PushMessage, OnPushMessage, ReturnToLoop, PacketReleased, kernelVars, workerVars
<1>2. /\ cur \in [SubReactor -> Session \cup {None}]
      /\ datagram \in [SubReactor -> SUBSET Units]
      /\ None \notin Session
  BY ReactorAssumption DEF Typed, TypeOK
<1> DEFINE c == [session |-> x, units |-> datagram[r]]
<1>3. PICK k \in Context : k = c
  BY <1>2 DEF Context
<1>4. k.session = x /\ k.units = datagram[r]
  BY <1>3
<1>5. msgQ' = Append(msgQ, k)
  BY <1>1, <1>3
<1> HIDE DEF c
<1>6. ASSUME NEW s \in Session, NEW u \in Units
      PROVE  Places(s, u)' = Places(s, u)
  <2>1. /\ Cardinality(Reading(s, u)) \in Nat /\ Cardinality(Waiting(s, u)) \in Nat
        /\ Cardinality(Working(s, u)) \in Nat /\ IsFiniteSet(Reading(s, u))
    BY FinitePlaces
  <2>2. Working(s, u)' = Working(s, u)
    BY <1>1 DEF Working
  <2>3. CASE s = x /\ u \in datagram[r]
    <3>1. Reading(s, u)' = Reading(s, u) \ {r} /\ r \in Reading(s, u)
      BY <1>0, <1>1, <1>2, <2>3 DEF Reading
    <3>2. Cardinality(Reading(s, u))' = Cardinality(Reading(s, u)) - 1
      BY <2>1, <3>1, FS_RemoveElement
    <3>3. Cardinality(Waiting(s, u))' = Cardinality(Waiting(s, u)) + 1
      BY <1>4, <1>5, <2>3, WaitingPushed
    <3> QED
      BY <1>1, <2>1, <2>2, <3>2, <3>3 DEF Places
  <2>4. CASE ~(s = x /\ u \in datagram[r])
    <3>1. Reading(s, u)' = Reading(s, u)
      BY <1>0, <1>1, <1>2, <2>4 DEF Reading
    <3>2. Cardinality(Waiting(s, u))' = Cardinality(Waiting(s, u))
      <4>1. Cardinality(Waiting(s, u))' = Cardinality(Waiting(s, u)) + 0
        BY <1>4, <1>5, <2>4, WaitingPushed
      <4> QED
        BY <2>1, <4>1
    <3> QED
      BY <1>1, <2>2, <3>1, <3>2 DEF Places
  <2> QED
    BY <2>3, <2>4
<1> QED
  BY <1>1, <1>6, SameNames, SameAccounts

(* ... from the queue to a worker ...                                       *)
LEMMA TakeAccounts ==
  ASSUME Typed, Accounted, NEW w \in ServiceWorker, TakeMessage(w)
  PROVE  Accounted'
<1>1. /\ work[w] = None /\ msgQ # <<>> /\ msgQ' = Tail(msgQ)
      /\ work' = [work EXCEPT ![w] = Head(msgQ)]
      /\ UNCHANGED <<idOf, sessions, taken, cur, datagram, handled>>
  BY DEF TakeMessage, kernelVars, reactorVars
<1>2. msgQ \in Seq(Context) /\ work \in [ServiceWorker -> Context \cup {None}]
  BY DEF Typed, TypeOK
<1>3. PICK k \in Context : k = Head(msgQ) /\ k # None
  BY <1>1, <1>2, ContextAssumption
<1>4. ASSUME NEW s \in Session, NEW u \in Units
      PROVE  Places(s, u)' = Places(s, u)
  <2>1. /\ Cardinality(Reading(s, u)) \in Nat /\ Cardinality(Waiting(s, u)) \in Nat
        /\ Cardinality(Working(s, u)) \in Nat /\ IsFiniteSet(Working(s, u))
    BY FinitePlaces
  <2>2. Reading(s, u)' = Reading(s, u)
    BY <1>1 DEF Reading
  <2>3. w \notin Working(s, u)
    BY <1>1 DEF Working
  <2>4. CASE k.session = s /\ u \in k.units
    <3>1. Working(s, u)' = Working(s, u) \cup {w}
      BY <1>1, <1>2, <1>3, <2>4 DEF Working
    <3>2. Cardinality(Working(s, u))' = Cardinality(Working(s, u)) + 1
      BY <2>1, <2>3, <3>1, FS_AddElement
    <3>3. /\ Cardinality(Waiting(s, u)) = Cardinality(Waiting(s, u))' + 1
          /\ Cardinality(Waiting(s, u))' \in Nat
      BY <1>1, <1>3, <2>4, WaitingTaken
    <3> QED
      BY <1>1, <2>1, <2>2, <3>2, <3>3 DEF Places
  <2>5. CASE ~(k.session = s /\ u \in k.units)
    <3>1. Working(s, u)' = Working(s, u)
      BY <1>1, <1>2, <1>3, <2>5 DEF Working
    <3>2. /\ Cardinality(Waiting(s, u)) = Cardinality(Waiting(s, u))' + 0
          /\ Cardinality(Waiting(s, u))' \in Nat
      BY <1>1, <1>3, <2>5, WaitingTaken
    <3> QED
      BY <1>1, <2>1, <2>2, <3>1, <3>2 DEF Places
  <2> QED
    BY <2>4, <2>5
<1> QED
  BY <1>1, <1>4, SameNames, SameAccounts

(* ... and are handled, where they were not before.                         *)
LEMMA FinishAccounts ==
  ASSUME Typed, Accounted, NEW w \in ServiceWorker, FinishMessage(w)
  PROVE  Accounted'
<1>1. /\ work[w] # None /\ work' = [work EXCEPT ![w] = None]
      /\ handled' = [handled EXCEPT ![work[w].session] = @ \cup work[w].units]
      /\ UNCHANGED <<idOf, sessions, taken, cur, datagram, msgQ>>
  BY DEF FinishMessage, kernelVars, reactorVars
<1>2. /\ work \in [ServiceWorker -> Context \cup {None}]
      /\ handled \in [Session -> SUBSET Units]
  BY DEF Typed, TypeOK
<1>3. PICK k \in Context : k = work[w]
  BY <1>1, <1>2
<1>4. ASSUME NEW s \in Session, NEW u \in Units, Places(s, u) \in {0, 1}
      PROVE  Places(s, u)' = Places(s, u)
  <2>1. /\ Cardinality(Reading(s, u)) \in Nat /\ Cardinality(Waiting(s, u)) \in Nat
        /\ Cardinality(Working(s, u)) \in Nat /\ IsFiniteSet(Working(s, u))
    BY FinitePlaces
  <2>2. Reading(s, u)' = Reading(s, u) /\ Waiting(s, u)' = Waiting(s, u)
    BY <1>1 DEF Reading, Waiting
  <2>3. CASE k.session = s /\ u \in k.units
    <3>1. w \in Working(s, u) /\ Working(s, u)' = Working(s, u) \ {w}
      BY <1>1, <1>2, <1>3, <2>3 DEF Working
    <3>2. Cardinality(Working(s, u))' = Cardinality(Working(s, u)) - 1
      BY <2>1, <3>1, FS_RemoveElement
    <3>3. Cardinality(Working(s, u)) # 0
      BY <2>1, <3>1, FS_EmptySet
    <3>4. u \notin handled[s]
      BY <1>4, <2>1, <3>3 DEF Places
    <3>5. u \in handled'[s]
      BY <1>1, <1>2, <1>3, <2>3
    <3> QED
      BY <2>1, <2>2, <3>2, <3>4, <3>5 DEF Places
  <2>4. CASE ~(k.session = s /\ u \in k.units)
    <3>1. Working(s, u)' = Working(s, u)
      BY <1>1, <1>2, <1>3, <2>4 DEF Working
    <3>2. u \in handled'[s] <=> u \in handled[s]
      BY <1>1, <1>2, <1>3, <2>4
    <3> QED
      BY <2>2, <3>1, <3>2 DEF Places
  <2> QED
    BY <2>3, <2>4
<1> QED
  BY <1>1, <1>4, SameNames, SameAccounts

LEMMA AccountsInit == Init => Accounted
<1> SUFFICES ASSUME Init PROVE Accounted
  OBVIOUS
<1>1. \A s \in Session : taken[s] = 0 /\ handled[s] = {}
  BY DEF Init
<1>2. ASSUME NEW s \in Session, NEW u \in Units PROVE Places(s, u) = 0
  <2>1. Reading(s, u) = {} /\ Waiting(s, u) = {} /\ Working(s, u) = {}
    BY DEF Init, Reading, Waiting, Working
  <2> QED
    BY <1>1, <2>1, FS_EmptySet DEF Places
<1> QED
  BY <1>1, <1>2 DEF Accounted, NothingLost

LEMMA AccountsStep == IInv /\ Stream /\ Accounted /\ [Next]_vars => Accounted'
<1> SUFFICES ASSUME IInv, Stream, Accounted, [Next]_vars PROVE Accounted'
  OBVIOUS
<1>1. Typed
  BY DEF IInv
<1>2. ASSUME NEW r \in SubReactor, ReactorStep(r) PROVE Accounted'
  BY <1>1, <1>2, TurnAccounts, DeleteAccounts, ReadAccounts, PushAccounts DEF ReactorStep
<1>3. ASSUME NEW w \in ServiceWorker, WorkerStep(w) PROVE Accounted'
  BY <1>1, <1>3, TakeAccounts, FinishAccounts DEF WorkerStep
<1> QED
  BY <1>1, <1>2, <1>3, OutsideAccounts DEF Next

LEMMA AccountedAlways == OwnNameSpec => []Accounted
<1>1. Init => Accounted
  BY AccountsInit
<1>2. IInv /\ Stream /\ Accounted /\ [Next /\ OwnName]_vars => Accounted'
  BY AccountsStep
<1> QED
  BY <1>1, <1>2, Invariant, StreamInvariant, PTL DEF OwnNameSpec

(* Whatever the threads do, what read() returned is in at most one place,   *)
(* and in exactly one for as long as its session is registered.             *)
THEOREM EveryUnitAccounted == OwnNameSpec => []NothingLost
<1>1. Accounted => NothingLost
  BY DEF Accounted
<1> QED
  BY <1>1, AccountedAlways, PTL

(* Nothing that arrived waits for a thread that has nothing to do.          *)
LEMMA RestHandled == ASSUME IInv, Stream, Accounted PROVE RestMeansHandled
<1> SUFFICES ASSUME AtRest, NEW s \in Session, Registered(s)
             PROVE  /\ 1..taken[s] \subseteq handled[s]
                    /\ \/ conn[s] = "open" /\ 1..sent[s] \subseteq handled[s]
                       \/ StaleEvent(s) \/ LostEdge(s)
  BY DEF RestMeansHandled
<1>1. /\ taken \in [Session -> 0..MaxUnits] /\ sent \in [Session -> 0..MaxUnits]
      /\ watch \in [Session -> {"off", "on", "spent"}] /\ MaxUnits \in Nat
  BY ReactorAssumption DEF IInv, Typed, TypeOK
<1>2. ASSUME NEW u \in 1..taken[s] PROVE u \in handled[s]
  <2>1. Places(s, u) = 1
    BY <1>2 DEF Accounted, NothingLost
  <2>2. Reading(s, u) = {}
    BY DEF AtRest, Reading, Stream, PacketIsTaken
  <2>3. Waiting(s, u) = {} /\ Working(s, u) = {}
    BY DEF AtRest, Waiting, Working
  <2>4. Cardinality({}) = 0
    BY FS_EmptySet
  <2> QED
    BY <2>1, <2>2, <2>3, <2>4 DEF Places
<1>3. ~Served(s) /\ s # newborn
  BY ReactorAssumption DEF AtRest, Served, Serving, Elements
<1>4. /\ watch[s] = "off" => StaleEvent(s)
      /\ watch[s] = "spent" => LostEdge(s)
  BY <1>3 DEF IInv, Ownership, Names, UnwatchedIsStale, StaleEvent, Registered, Edges
<1>5. watch[s] = "on" => conn[s] = "open" /\ ~(taken[s] < sent[s])
  BY DEF AtRest, Ready
<1>6. ~(taken[s] < sent[s]) => 1..sent[s] \subseteq 1..taken[s]
  BY <1>1
<1> QED
  BY <1>1, <1>2, <1>4, <1>5, <1>6

(* At rest, what arrived has been handled, or an edge or a stale event      *)
(* keeps the loop from looking.                                             *)
THEOREM HandledAtRest == OwnNameSpec => []RestMeansHandled
<1>1. IInv /\ Stream /\ Accounted => RestMeansHandled
  BY RestHandled
<1> QED
  BY <1>1, Invariant, StreamInvariant, AccountedAlways, PTL
-----------------------------------------------------------------------------
(* The turns.  First what the steps do to the units that have been passed   *)
(* on.                                                                      *)

LEMMA InPassedOn ==
  ASSUME NEW s \in Session, NEW u \in Units
  PROVE  (<<s, u>> \in PassedOn <=> Handed(s, u)) /\ (<<s, u>> \in PassedOn' <=> Handed(s, u)')
<1>1. <<s, u>> \in Session \X Units /\ <<s, u>>[1] = s /\ <<s, u>>[2] = u
  OBVIOUS
<1>2. <<s, u>> \in PassedOn <=> Handed(s, u)
  BY <1>1 DEF PassedOn
<1>3. <<s, u>> \in PassedOn' <=> Handed(s, u)'
  BY <1>1 DEF PassedOn, Handed, Waiting, Working
<1> QED
  BY <1>2, <1>3

LEMMA SamePassedOn ==
  ASSUME \A s \in Session, u \in Units : Handed(s, u)' <=> Handed(s, u)
  PROVE  PassedOn' = PassedOn
<1>1. \A s \in Session, u \in Units : <<s, u>> \in PassedOn' <=> <<s, u>> \in PassedOn
  <2> SUFFICES ASSUME NEW s \in Session, NEW u \in Units
               PROVE  <<s, u>> \in PassedOn' <=> <<s, u>> \in PassedOn
    OBVIOUS
  <2>1. Handed(s, u)' <=> Handed(s, u)
    OBVIOUS
  <2> QED
    BY <2>1, InPassedOn
<1>2. PassedOn' \subseteq Session \X Units /\ PassedOn \subseteq Session \X Units
  BY DEF PassedOn
<1> QED
  BY <1>1, <1>2

LEMMA SameHanded ==
  ASSUME UNCHANGED <<msgQ, work, handled>> PROVE PassedOn' = PassedOn
<1>1. \A s \in Session, u \in Units : Handed(s, u)' <=> Handed(s, u)
  BY DEF Handed, Waiting, Working
<1> QED
  BY <1>1, SamePassedOn

LEMMA WaitsInQueue ==
  ASSUME NEW s, NEW u
  PROVE  /\ Waiting(s, u) # {} <=> \E c \in Elements(msgQ) : c.session = s /\ u \in c.units
         /\ (Waiting(s, u) # {})' <=>
              \E c \in Elements(msgQ') : c.session = s /\ u \in c.units
BY DEF Waiting, Elements

LEMMA TailElements ==
  ASSUME NEW S, NEW q \in Seq(S), q # <<>>
  PROVE  Elements(q) = Elements(Tail(q)) \cup {Head(q)}
<1>1. /\ Len(q) \in Nat \ {0} /\ DOMAIN q = 1..Len(q) /\ Head(q) = q[1]
      /\ DOMAIN Tail(q) = 1..(Len(q) - 1)
      /\ \A i \in 1..(Len(q) - 1) : Tail(q)[i] = q[i + 1]
  OBVIOUS
<1>2. Elements(Tail(q)) \cup {Head(q)} \subseteq Elements(q)
  BY <1>1 DEF Elements
<1>3. ASSUME NEW i \in 1..Len(q), i # 1 PROVE q[i] \in Elements(Tail(q))
  <2>1. i - 1 \in 1..(Len(q) - 1) /\ Tail(q)[i - 1] = q[i]
    BY <1>1, <1>3
  <2> QED
    BY <1>1, <2>1 DEF Elements
<1> QED
  BY <1>1, <1>2, <1>3 DEF Elements

LEMMA WorkerPasses ==
  ASSUME Typed, NEW w \in ServiceWorker, WorkerStep(w) PROVE PassedOn' = PassedOn
<1>0. /\ msgQ \in Seq(Context) /\ work \in [ServiceWorker -> Context \cup {None}]
      /\ handled \in [Session -> SUBSET Units]
  BY DEF Typed, TypeOK
<1>1. CASE TakeMessage(w)
  <2>1. /\ work[w] = None /\ msgQ # <<>> /\ msgQ' = Tail(msgQ) /\ handled' = handled
        /\ work' = [work EXCEPT ![w] = Head(msgQ)]
    BY <1>1 DEF TakeMessage
  <2>2. PICK k \in Context : k = Head(msgQ) /\ k # None
    BY <1>0, <2>1, ContextAssumption
  <2>3. Elements(msgQ) = Elements(msgQ') \cup {k}
    BY <1>0, <2>1, <2>2, TailElements
  <2>4. ASSUME NEW s, NEW u
        PROVE  (Working(s, u) # {})' <=> Working(s, u) # {} \/ (k.session = s /\ u \in k.units)
    BY <1>0, <2>1, <2>2 DEF Working
  <2>5. ASSUME NEW s \in Session, NEW u \in Units PROVE Handed(s, u)' <=> Handed(s, u)
    BY <2>1, <2>3, <2>4, WaitsInQueue DEF Handed
  <2> QED
    BY <2>5, SamePassedOn
<1>2. CASE FinishMessage(w)
  <2>1. /\ work[w] # None /\ work' = [work EXCEPT ![w] = None] /\ msgQ' = msgQ
        /\ handled' = [handled EXCEPT ![work[w].session] = @ \cup work[w].units]
    BY <1>2 DEF FinishMessage
  <2>2. PICK k \in Context : k = work[w]
    BY <1>0, <2>1
  <2>3. ASSUME NEW s \in Session, NEW u
        PROVE  /\ Working(s, u) # {} <=> (Working(s, u) # {})' \/ (k.session = s /\ u \in k.units)
               /\ u \in handled'[s] <=> u \in handled[s] \/ (k.session = s /\ u \in k.units)
    BY <1>0, <2>1, <2>2 DEF Working
  <2>4. ASSUME NEW s, NEW u PROVE Waiting(s, u)' = Waiting(s, u)
    BY <2>1 DEF Waiting
  <2>5. ASSUME NEW s \in Session, NEW u \in Units PROVE Handed(s, u)' <=> Handed(s, u)
    BY <2>3, <2>4 DEF Handed
  <2> QED
    BY <2>5, SamePassedOn
<1> QED
  BY <1>1, <1>2 DEF WorkerStep

LEMMA PushPasses ==
  ASSUME Typed, NEW r \in SubReactor, PushMessage(r)
  PROVE  PassedOn' = PassedOn \cup Parcel[r]
<1>0. /\ msgQ \in Seq(Context) /\ datagram[r] \in SUBSET Units
  BY DEF Typed, TypeOK
<1>1. PICK x \in Session : x = cur[r]
  BY DEF Typed, TypeOK, BusyHasSession, PushMessage
<1> DEFINE c == [session |-> x, units |-> datagram[r]]
<1>2. msgQ' = Append(msgQ, c) /\ UNCHANGED <<work, handled>>
  BY <1>1 DEF PushMessage, OnPushMessage, workerVars
<1>3. c \in Context /\ c.session = x /\ c.units = datagram[r]
  BY <1>0 DEF Context
<1> HIDE DEF c
<1>4. Elements(msgQ') = Elements(msgQ) \cup {c}
  BY <1>0, <1>2, <1>3, Queued
<1>5. ASSUME NEW s \in Session, NEW u \in Units
      PROVE  Handed(s, u)' <=> Handed(s, u) \/ (s = x /\ u \in datagram[r])
  <2>1. Working(s, u)' = Working(s, u) /\ handled' = handled
    BY <1>2 DEF Working
  <2> QED
    BY <1>3, <1>4, <2>1, WaitsInQueue DEF Handed
<1>6. Parcel[r] = {<<x, u>> : u \in datagram[r]}
  BY <1>1 DEF Parcel
<1>7. ASSUME NEW s \in Session, NEW u \in Units
      PROVE  <<s, u>> \in PassedOn' <=> <<s, u>> \in PassedOn \cup Parcel[r]
  BY <1>5, <1>6, InPassedOn
<1>8. /\ PassedOn' \subseteq Session \X Units
      /\ PassedOn \cup Parcel[r] \subseteq Session \X Units
  BY <1>0, <1>6 DEF PassedOn
<1> QED
  BY <1>7, <1>8

(* The rest of the mapping, where a step leaves it as it is.                *)
TurnState == <<Life, Watched, InQueue, InTurn, taken, Parcel, PassedOn>>

LEMMA SameLife == ASSUME UNCHANGED <<idOf, sessions>> PROVE Life' = Life
BY DEF Life, Registered

LEMMA SameWatched ==
  ASSUME \A x \in Session : (watch'[x] = "off") <=> (watch[x] = "off")
  PROVE  Watched' = Watched
BY DEF Watched

LEMMA SameInTurn ==
  ASSUME UNCHANGED cur, \A r \in SubReactor : Serving(r)' <=> Serving(r)
  PROVE  InTurn' = InTurn
BY DEF InTurn

LEMMA SameOutside ==
  ASSUME UNCHANGED <<pc, cur, datagram, msgQ, work, handled, taken>>
  PROVE  UNCHANGED <<InTurn, taken, Parcel, PassedOn>>
<1>1. InTurn' = InTurn /\ Parcel' = Parcel
  BY DEF InTurn, Parcel, Serving
<1> QED
  BY <1>1, SameHanded

(* A function that differs from another in one place.                       *)
LEMMA ChangedAt ==
  ASSUME NEW S, NEW f, NEW g, f = [x \in S |-> f[x]], g = [x \in S |-> g[x]],
         NEW a \in S, NEW v, g[a] = v, \A x \in S : x # a => g[x] = f[x]
  PROVE  g = [f EXCEPT ![a] = v]
OBVIOUS

LEMMA ParcelGoes ==
  ASSUME Typed, NEW r \in SubReactor, cur' = [cur EXCEPT ![r] = None],
         datagram' = [datagram EXCEPT ![r] = {}]
  PROVE  Parcel' = [Parcel EXCEPT ![r] = {}]
<1>1. /\ Parcel' = [q \in SubReactor |-> Parcel'[q]]
      /\ Parcel = [q \in SubReactor |-> Parcel[q]]
  BY DEF Parcel
<1>2. Parcel'[r] = {} /\ \A q \in SubReactor : q # r => Parcel'[q] = Parcel[q]
  BY DEF Parcel, Typed, TypeOK
<1> QED
  BY <1>1, <1>2, ChangedAt

LEMMA OwnedIsServed ==
  ASSUME Typed, NEW s \in Session
  PROVE  /\ Turn!Owned(s) <=> watch[s] # "off" \/ Served(s)
         /\ \A r \in SubReactor : InTurn[r] = s <=> Serving(r) /\ cur[r] = s
<1>1. s # None
  BY ReactorAssumption
<1> QED
  BY <1>1 DEF Turn!Owned, Watched, InQueue, InTurn, Served

-----------------------------------------------------------------------------
LEMMA PeerTurn ==
  ASSUME Typed, NEW s \in Session, PeerStep(s) PROVE UNCHANGED TurnState
<1>1. UNCHANGED <<idOf, sessions, sessionQ, pc, cur, datagram, msgQ, work, handled, taken>>
  BY DEF PeerStep, PeerSend, PeerEnd, reactorVars, workerVars
<1>2. \A x \in Session : (watch'[x] = "off") <=> (watch[x] = "off")
  BY DEF PeerStep, PeerSend, PeerEnd, Typed, TypeOK
<1>3. InQueue' = InQueue
  BY <1>1 DEF InQueue, Elements
<1> QED
  BY <1>1, <1>2, <1>3, SameLife, SameWatched, SameOutside DEF TurnState

LEMMA AcceptTurn ==
  ASSUME IInv, NEW s \in Session, NEW p \in Peer, NEW f \in Fd, Accept(p, s, f)
  PROVE  Turn!Accept(s)
<1> USE ReactorAssumption DEF IInv, Typed, TypeOK
<1>1. /\ idOf[s] = None /\ idOf' = [idOf EXCEPT ![s] = p]
      /\ sessions' = [sessions EXCEPT ![p] = IF @ = None THEN s ELSE @]
      /\ UNCHANGED <<watch, sessionQ, pc, cur, datagram, msgQ, work, handled, taken>>
  BY DEF Accept, AddSession, eventVars, reactorVars, workerVars
<1>2. UNCHANGED <<InTurn, taken, Parcel, PassedOn>>
  BY <1>1, SameOutside
<1>3. Watched' = Watched /\ InQueue' = InQueue
  BY <1>1 DEF Watched, InQueue, Elements
<1>4. Life[s] = "new"
  BY <1>1 DEF Life, Registered
<1>5. PICK l \in {"in", "out"} : Life'[s] = l
  BY <1>1 DEF Life
<1>6. ASSUME NEW x \in Session, x # s PROVE Life'[x] = Life[x]
  <2>1. idOf'[x] = idOf[x] /\ (Registered(x)' <=> Registered(x))
    BY <1>1, <1>6 DEF Registered
  <2> QED
    BY <2>1 DEF Life
<1>7. Life' = [Life EXCEPT ![s] = l]
  <2>1. Life' = [x \in Session |-> Life'[x]] /\ Life = [x \in Session |-> Life[x]]
    BY DEF Life
  <2> QED
    BY <1>5, <1>6, <2>1, ChangedAt
<1> QED
  BY <1>2, <1>3, <1>4, <1>7 DEF Turn!Accept

LEMMA ListenTurn ==
  ASSUME IInv, ListenToNewborn
  PROVE  (\E s \in Session : Turn!Watch(s)) \/ UNCHANGED TurnState
<1> USE ReactorAssumption DEF IInv, Typed, TypeOK
<1>0. PICK s \in Session : s = newborn
  BY DEF ListenToNewborn
<1> DEFINE owner == GetSession(idOf[s])
<1>1. /\ UNCHANGED <<idOf, sessions, sessionQ, pc, cur, datagram, msgQ, work, handled, taken>>
      /\ \/ owner = s /\ AddEvent(s, "on")
         \/ owner # s /\ AddEvent(s, "off")
         \/ UNCHANGED watch
  BY <1>0 DEF ListenToNewborn, kernelVars, eventVars, reactorVars, workerVars
<1>2. idOf[s] \in Peer /\ fdOf[s] \in Fd /\ ~Served(s) /\ watch[s] = "off"
  BY <1>0 DEF Ownership, Unused, Names, ListenToNewborn
<1>3. Life' = Life /\ InQueue' = InQueue /\ UNCHANGED <<InTurn, taken, Parcel, PassedOn>>
  BY <1>1, SameLife, SameOutside DEF InQueue, Elements
<1>4. CASE owner = s /\ AddEvent(s, "on") /\ pending[fdOf[s]] = 0
  <2>1. Life[s] = "in"
    BY <1>2, <1>4 DEF GetSession, Registered, Life
  <2>2. ~Turn!Owned(s)
    BY <1>2, OwnedIsServed
  <2>3. Watched' = Watched \cup {s}
    BY <1>2, <1>4, AddEventEffect DEF Watched
  <2>4. Turn!Watch(s)
    BY <1>3, <2>1, <2>2, <2>3 DEF Turn!Watch
  <2> QED
    BY <2>4
<1>5. CASE ~(owner = s /\ AddEvent(s, "on") /\ pending[fdOf[s]] = 0)
  <2>1. \A x \in Session : (watch'[x] = "off") <=> (watch[x] = "off")
    BY <1>1, <1>2, <1>5, AddEventEffect, SMTT(30)
  <2> QED
    BY <1>3, <2>1, SameWatched DEF TurnState
<1> QED
  BY <1>4, <1>5

LEMMA ReportTurn ==
  ASSUME IInv, OwnName, NEW s \in Session, NEW t \in Session, NEW inMap \in BOOLEAN,
         OnDataRecv(s, t, inMap)
  PROVE  \E x \in Watched : Turn!Report(x)
<1>1. /\ UNCHANGED <<idOf, sessions, pc, cur, datagram, msgQ, work, handled, taken>>
      /\ sessionQ' = Append(sessionQ, t) /\ watch[s] = "on"
  BY DEF OnDataRecv, OnPushSession, kernelVars, reactorVars, workerVars
<1>2. /\ t = s /\ fdOf[s] \in Fd
      /\ watch' = [x \in Session |-> IF fdOf[x] = fdOf[s] THEN "off" ELSE watch[x]]
      /\ \A x \in Session : Held(x) /\ x # s => fdOf[x] # fdOf[s]
  BY DataRecvEffect
<1>3. Life' = Life /\ UNCHANGED <<InTurn, taken, Parcel, PassedOn>>
  BY <1>1, SameLife, SameOutside
<1>4. InQueue' = InQueue \cup {s}
  <2>1. sessionQ \in Seq(Session)
    BY DEF IInv, Typed, TypeOK
  <2>2. Elements(sessionQ') = Elements(sessionQ) \cup {s}
    BY <1>1, <1>2, <2>1, Queued
  <2> QED
    BY <2>2 DEF InQueue, Elements
<1>5. Watched' = Watched \ {s}
  BY <1>2 DEF Watched, IInv, Ownership, WatchedHasEvent, Held
<1>6. Turn!Report(s) /\ s \in Watched
  BY <1>1, <1>3, <1>4, <1>5 DEF Turn!Report, Watched
<1> QED
  BY <1>6

LEMMA TakeTurn ==
  ASSUME IInv, Stream, NEW r \in SubReactor, TakeSession(r)
  PROVE  \E x \in InQueue : Turn!Take(r, x)
<1> USE DEF IInv, Typed, TypeOK
<1>1. /\ sessionQ # <<>> /\ sessionQ' = Tail(sessionQ) /\ pc[r] = "idle"
      /\ pc' = [pc EXCEPT ![r] = "read"]
      /\ UNCHANGED <<idOf, sessions, watch, datagram, msgQ, work, handled, taken>>
  BY DEF TakeSession, Popped, kernelVars, eventVars, workerVars
<1>2. PICK h \in Session : h = Head(sessionQ) /\ h \in InQueue /\ InQueue' = InQueue \ {h}
  <2>1. /\ Head(sessionQ) \in Session /\ Head(sessionQ) \in Elements(sessionQ)
        /\ Elements(Tail(sessionQ)) = Elements(sessionQ) \ {Head(sessionQ)}
    BY <1>1, Dequeued DEF Ownership, SingleOwner, OneReader
  <2>2. InQueue = Elements(sessionQ) /\ InQueue' = Elements(Tail(sessionQ))
    BY <1>1 DEF InQueue, Elements
  <2> QED
    BY <2>1, <2>2
<1>3. cur' = [cur EXCEPT ![r] = h]
  BY <1>2 DEF TakeSession
<1>4. /\ Life' = Life /\ Watched' = Watched /\ PassedOn' = PassedOn
  BY <1>1, SameLife, SameHanded DEF Watched
<1>5. datagram[r] = {}
  BY <1>1 DEF Stream, PacketIsTaken
<1>6. Parcel' = Parcel /\ Parcel[r] = {}
  BY <1>1, <1>3, <1>5 DEF Parcel
<1>7. InTurn[r] = None /\ InTurn' = [InTurn EXCEPT ![r] = h]
  BY <1>1, <1>3 DEF InTurn, Serving
<1>8. Turn!Take(r, h)
  BY <1>1, <1>2, <1>4, <1>6, <1>7 DEF Turn!Take
<1> QED
  BY <1>2, <1>8

LEMMA ReadTurn ==
  ASSUME IInv, NEW r \in SubReactor, ReadData(r)
  PROVE  \E n \in 1..MaxUnits : Turn!Read(r, n)
<1> USE ReactorAssumption DEF IInv, Typed, TypeOK
<1>0. PICK s \in Session : s = cur[r]
  BY DEF BusyHasSession, ReadData
<1>1. /\ pc[r] = "read"
      /\ UNCHANGED <<idOf, sessions, watch, sessionQ, pc, cur, msgQ, work, handled>>
  BY DEF ReadData, kernelVars, eventVars, workerVars
<1>2. PICK n \in taken[s] + 1 .. sent[s] :
        /\ taken' = [taken EXCEPT ![s] = n]
        /\ datagram' = [datagram EXCEPT ![r] = datagram[r] \cup (taken[s] + 1 .. n)]
  BY <1>0 DEF ReadData
<1>3. n \in 1..MaxUnits /\ taken[s] < n
  <2>1. taken[s] \in Nat /\ sent[s] \in 0..MaxUnits /\ MaxUnits \in Nat
    OBVIOUS
  <2> QED
    BY <2>1
<1>4. /\ Life' = Life /\ Watched' = Watched /\ PassedOn' = PassedOn
      /\ InQueue' = InQueue /\ InTurn' = InTurn
  BY <1>1, SameLife, SameHanded DEF Watched, InQueue, Elements, InTurn, Serving
<1>5. InTurn[r] = s /\ s # None
  BY <1>0, <1>1 DEF InTurn, Serving
<1>6. Parcel' = [Parcel EXCEPT ![r] = @ \cup {<<s, u>> : u \in taken[s] + 1 .. n}]
  <2>1. /\ Parcel'[r] = {<<s, u>> : u \in datagram[r] \cup (taken[s] + 1 .. n)}
        /\ Parcel[r] = {<<s, u>> : u \in datagram[r]}
    BY <1>0, <1>1, <1>2 DEF Parcel
  <2>2. \A q \in SubReactor : q # r => Parcel'[q] = Parcel[q]
    BY <1>1, <1>2 DEF Parcel
  <2>3. Parcel'[r] = Parcel[r] \cup {<<s, u>> : u \in taken[s] + 1 .. n}
    BY <2>1
  <2>4. /\ Parcel' = [q \in SubReactor |-> Parcel'[q]]
        /\ Parcel = [q \in SubReactor |-> Parcel[q]]
    BY DEF Parcel
  <2> QED
    BY <2>2, <2>3, <2>4, ChangedAt
<1>7. Turn!Read(r, n)
  BY <1>2, <1>3, <1>4, <1>5, <1>6 DEF Turn!Read
<1> QED
  BY <1>3, <1>7

LEMMA StopTurn ==
  ASSUME NEW r \in SubReactor, ReadStops(r) PROVE UNCHANGED TurnState
<1>1. UNCHANGED <<idOf, sessions, watch, sessionQ, cur, datagram, msgQ, work, handled, taken>>
  BY DEF ReadStops, kernelVars, eventVars, workerVars
<1>2. \A q \in SubReactor : Serving(q)' <=> Serving(q)
  BY DEF ReadStops, StopsWith, Serving
<1>3. Watched' = Watched /\ InQueue' = InQueue /\ Parcel' = Parcel
  BY <1>1 DEF Watched, InQueue, Elements, Parcel
<1> QED
  BY <1>1, <1>2, <1>3, SameLife, SameInTurn, SameHanded DEF TurnState

LEMMA ReleaseTurn ==
  ASSUME IInv, NEW r \in SubReactor, Rearm(r) PROVE Turn!Release(r)
<1> USE ReactorAssumption DEF IInv, Typed, TypeOK
<1>0. PICK s \in Session : s = cur[r]
  BY DEF BusyHasSession, Rearm
<1>1. /\ pc[r] = "rearm" /\ pc' = [pc EXCEPT ![r] = "push"]
      /\ UNCHANGED <<idOf, sessions, sessionQ, cur, datagram, msgQ, work, handled, taken>>
      /\ \E edge \in {"on", "spent"} : AddEvent(s, edge)
  BY <1>0 DEF Rearm, kernelVars, workerVars
<1>2. Served(s) /\ Registered(s) /\ fdOf[s] \in Fd
  BY <1>0, <1>1 DEF Served, Serving, Ownership, ServedIsRegistered, Registered, Names
<1>3. pending[fdOf[s]] = 0
  BY <1>2 DEF Ownership, ServedHasNoEvent
<1>4. Watched' = Watched \cup {s}
  BY <1>1, <1>2, <1>3, AddEventEffect, SMTT(30) DEF Watched
<1>5. InTurn[r] = s /\ s # None /\ InTurn' = [InTurn EXCEPT ![r] = None]
  BY <1>0, <1>1 DEF InTurn, Serving
<1>6. Life' = Life /\ PassedOn' = PassedOn /\ InQueue' = InQueue /\ Parcel' = Parcel
  BY <1>1, SameLife, SameHanded DEF InQueue, Elements, Parcel
<1> QED
  BY <1>1, <1>4, <1>5, <1>6 DEF Turn!Release

LEMMA DropTurn ==
  ASSUME IInv, NEW r \in SubReactor, DeleteSession(r) PROVE Turn!Drop(r)
<1> USE ReactorAssumption DEF IInv, Typed, TypeOK
<1>0. PICK s \in Session : s = cur[r]
  BY DEF BusyHasSession, DeleteSession
<1>1. /\ pc[r] = "delete" /\ sessions' = [sessions EXCEPT ![idOf[s]] = None]
      /\ pc' = [pc EXCEPT ![r] = "idle"] /\ cur' = [cur EXCEPT ![r] = None]
      /\ datagram' = [datagram EXCEPT ![r] = {}]
      /\ UNCHANGED <<idOf, watch, sessionQ, msgQ, work, handled, taken>>
  BY <1>0 DEF DeleteSession, ReturnToLoop, PacketReleased, kernelVars, eventVars, workerVars
<1>2. Registered(s) /\ idOf[s] \in Peer
  BY <1>0, <1>1 DEF Served, Serving, Ownership, ServedIsRegistered, Registered
<1>3. \A x \in Session : Registered(x)' <=> Registered(x) /\ x # s
  BY <1>1, <1>2 DEF Registered
<1>4. Life' = [Life EXCEPT ![s] = "out"]
  <2>1. Life' = [x \in Session |-> Life'[x]] /\ Life = [x \in Session |-> Life[x]]
    BY DEF Life
  <2>2. Life'[s] = "out" /\ \A x \in Session : x # s => Life'[x] = Life[x]
    BY <1>1, <1>2, <1>3 DEF Life
  <2> QED
    BY <2>1, <2>2, ChangedAt
<1>5. InTurn[r] = s /\ s # None /\ InTurn' = [InTurn EXCEPT ![r] = None]
  BY <1>0, <1>1 DEF InTurn, Serving
<1>6. Parcel' = [Parcel EXCEPT ![r] = {}]
  BY <1>1, ParcelGoes
<1>7. Watched' = Watched /\ InQueue' = InQueue /\ PassedOn' = PassedOn
  BY <1>1, SameHanded DEF Watched, InQueue, Elements
<1> QED
  BY <1>1, <1>4, <1>5, <1>6, <1>7 DEF Turn!Drop

LEMMA PassTurn ==
  ASSUME IInv, NEW r \in SubReactor, PushMessage(r) PROVE Turn!Pass(r)
<1> USE ReactorAssumption DEF IInv, Typed, TypeOK
<1>1. /\ pc[r] = "push" /\ pc' = [pc EXCEPT ![r] = "idle"]
      /\ cur' = [cur EXCEPT ![r] = None] /\ datagram' = [datagram EXCEPT ![r] = {}]
      /\ UNCHANGED <<idOf, sessions, watch, sessionQ, taken>>
  BY DEF PushMessage, ReturnToLoop, PacketReleased, kernelVars, eventVars
<1>2. InTurn[r] = None /\ InTurn' = InTurn
  BY <1>1 DEF InTurn, Serving
<1>3. Parcel' = [Parcel EXCEPT ![r] = {}]
  BY <1>1, ParcelGoes
<1>4. PassedOn' = PassedOn \cup Parcel[r]
  BY PushPasses
<1>5. Life' = Life /\ Watched' = Watched /\ InQueue' = InQueue
  BY <1>1, SameLife DEF Watched, InQueue, Elements
<1> QED
  BY <1>1, <1>2, <1>3, <1>4, <1>5 DEF Turn!Pass

LEMMA WorkerTurn ==
  ASSUME Typed, NEW w \in ServiceWorker, WorkerStep(w) PROVE UNCHANGED TurnState
<1>1. UNCHANGED <<idOf, sessions, watch, sessionQ, pc, cur, datagram, taken>>
  BY DEF WorkerStep, TakeMessage, FinishMessage, kernelVars, eventVars, reactorVars
<1>2. Watched' = Watched /\ InQueue' = InQueue /\ Parcel' = Parcel /\ InTurn' = InTurn
  BY <1>1 DEF Watched, InQueue, Elements, Parcel, InTurn, Serving
<1> QED
  BY <1>1, <1>2, SameLife, WorkerPasses DEF TurnState

LEMMA RestTurn == ASSUME UNCHANGED vars PROVE UNCHANGED TurnState
<1>1. UNCHANGED <<idOf, sessions, watch, sessionQ, pc, cur, datagram, msgQ, work,
                  handled, taken>>
  BY DEF vars, kernelVars, eventVars, reactorVars, workerVars
<1>2. Watched' = Watched /\ InQueue' = InQueue
  BY <1>1 DEF Watched, InQueue, Elements
<1> QED
  BY <1>1, <1>2, SameLife, SameOutside DEF TurnState

LEMMA AbortTurn ==
  ASSUME NEW s \in Session, OnDataRecvAborts(s) PROVE UNCHANGED TurnState
<1>1. UNCHANGED <<idOf, sessions, watch, sessionQ, pc, cur, datagram, msgQ, work,
                  handled, taken>>
  BY DEF OnDataRecvAborts, kernelVars, eventVars, reactorVars, workerVars
<1>2. Watched' = Watched /\ InQueue' = InQueue
  BY <1>1 DEF Watched, InQueue, Elements
<1> QED
  BY <1>1, <1>2, SameLife, SameOutside DEF TurnState

LEMMA TurnInit == Init => Turn!Init
<1> SUFFICES ASSUME Init PROVE Turn!Init
  OBVIOUS
<1>1. \A s \in Session : idOf[s] = None /\ ~Registered(s)
  BY DEF Init, Registered
<1>2. Life = [s \in Session |-> "new"]
  BY <1>1 DEF Life
<1>3. \A s \in Session, u \in Units : ~Handed(s, u)
  BY DEF Init, Handed, Waiting, Working
<1>4. PassedOn = {}
  BY <1>3 DEF PassedOn
<1>5. Watched = {} /\ InQueue = {} /\ InTurn = [r \in SubReactor |-> None]
  BY DEF Init, Watched, InQueue, Elements, InTurn, Serving
<1>6. Parcel = [r \in SubReactor |-> {}] /\ taken = [s \in Session |-> 0]
  BY DEF Init, Parcel
<1> QED
  BY <1>2, <1>4, <1>5, <1>6 DEF Turn!Init

(* The selector, the queue and the sub-reactors implement Turns: whatever   *)
(* the events, the descriptors, the names and the other threads do, a       *)
(* session is read in turns and what a turn reads is passed on once.        *)
THEOREM ImplementsTurns == OwnNameSpec => TurnsSpec
<1>1. IInv /\ Stream /\ [Next /\ OwnName]_vars => [Turn!Next]_(Turn!vars)
  <2> SUFFICES ASSUME IInv, Stream, [Next /\ OwnName]_vars
               PROVE  Turn!Next \/ UNCHANGED TurnState
    BY DEF Turn!vars, TurnState
  <2>0. Typed
    BY DEF IInv
  <2>1. ASSUME NEW s \in Session, SelectorStep(s), OwnName
        PROVE  Turn!Next \/ UNCHANGED TurnState
    BY <2>1, AcceptTurn, ReportTurn, AbortTurn DEF SelectorStep, Turn!Next
  <2>2. ASSUME NEW r \in SubReactor, ReactorStep(r)
        PROVE  Turn!Next \/ UNCHANGED TurnState
    BY <2>2, TakeTurn, ReadTurn, StopTurn, DropTurn, ReleaseTurn, PassTurn
       DEF ReactorStep, Turn!Next
  <2>3. ASSUME ListenToNewborn PROVE Turn!Next \/ UNCHANGED TurnState
    BY <2>3, ListenTurn DEF Turn!Next
  <2> QED
    BY <2>0, <2>1, <2>2, <2>3, PeerTurn, WorkerTurn, RestTurn DEF Next
<1> QED
  BY <1>1, TurnInit, Invariant, StreamInvariant, PTL DEF OwnNameSpec, TurnsSpec, Turn!Spec

-----------------------------------------------------------------------------
(* What Turns promises, of every behaviour of it; the mapping is not opened. *)
TurnTypes ==
  /\ Life \in [Session -> {"new", "in", "out"}]
  /\ Watched \subseteq Session /\ InQueue \subseteq Session
  /\ InTurn \in [SubReactor -> Session \cup {None}]
  /\ taken \in [Session -> Nat]
  /\ Parcel \in [SubReactor -> SUBSET (Session \X Int)]
  /\ PassedOn \subseteq Session \X Int

(* While a turn lasts its parcel holds units of its session alone, and      *)
(* nothing is read before accept().                                         *)
TurnInv ==
  /\ TurnTypes /\ Turn!OneTurn /\ Turn!PassedOnce
  /\ \A r \in SubReactor : InTurn[r] # None => \A x \in Parcel[r] : x[1] = InTurn[r]
  /\ \A s \in Session : Life[s] = "new" => taken[s] = 0

LEMMA TurnTyped ==
  ASSUME TurnTypes, Turn!Next PROVE TurnTypes'
<1> USE ReactorAssumption DEF TurnTypes
<1>1. ASSUME NEW s \in Session, Turn!Accept(s) \/ Turn!Watch(s) PROVE TurnTypes'
  BY <1>1 DEF Turn!Accept, Turn!Watch
<1>2. ASSUME NEW s \in Watched, Turn!Report(s) PROVE TurnTypes'
  BY <1>2 DEF Turn!Report
<1>3. ASSUME NEW r \in SubReactor, NEW s \in InQueue, Turn!Take(r, s) PROVE TurnTypes'
  BY <1>3 DEF Turn!Take
<1>4. ASSUME NEW r \in SubReactor, NEW n \in 1..MaxUnits, Turn!Read(r, n) PROVE TurnTypes'
  <2>1. InTurn[r] \in Session /\ n \in Nat
    BY <1>4 DEF Turn!Read
  <2>2. {<<InTurn[r], u>> : u \in taken[InTurn[r]] + 1 .. n} \subseteq Session \X Int
    BY <2>1
  <2> QED
    BY <1>4, <2>1, <2>2 DEF Turn!Read
<1>5. ASSUME NEW r \in SubReactor, Turn!Release(r) \/ Turn!Pass(r) \/ Turn!Drop(r)
      PROVE  TurnTypes'
  BY <1>5 DEF Turn!Release, Turn!Pass, Turn!Drop
<1> QED
  BY <1>1, <1>2, <1>3, <1>4, <1>5 DEF Turn!Next

LEMMA TurnAlone ==
  ASSUME TurnTypes, Turn!OneTurn, Turn!Next PROVE Turn!OneTurn'
<1> USE ReactorAssumption DEF TurnTypes, Turn!OneTurn, Turn!Owned
<1>1. ASSUME NEW s \in Session, Turn!Accept(s) PROVE Turn!OneTurn'
  BY <1>1 DEF Turn!Accept
<1>2. ASSUME NEW s \in Session, Turn!Watch(s) PROVE Turn!OneTurn'
  BY <1>2 DEF Turn!Watch
<1>3. ASSUME NEW s \in Watched, Turn!Report(s) PROVE Turn!OneTurn'
  BY <1>3 DEF Turn!Report
<1>4. ASSUME NEW r \in SubReactor, NEW s \in InQueue, Turn!Take(r, s) PROVE Turn!OneTurn'
  BY <1>4 DEF Turn!Take
<1>5. ASSUME NEW r \in SubReactor, NEW n \in 1..MaxUnits, Turn!Read(r, n)
      PROVE  Turn!OneTurn'
  BY <1>5 DEF Turn!Read
<1>6. ASSUME NEW r \in SubReactor, Turn!Release(r) PROVE Turn!OneTurn'
  BY <1>6 DEF Turn!Release
<1>7. ASSUME NEW r \in SubReactor, Turn!Pass(r) PROVE Turn!OneTurn'
  BY <1>7 DEF Turn!Pass
<1>8. ASSUME NEW r \in SubReactor, Turn!Drop(r) PROVE Turn!OneTurn'
  BY <1>8 DEF Turn!Drop
<1> QED
  BY <1>1, <1>2, <1>3, <1>4, <1>5, <1>6, <1>7, <1>8 DEF Turn!Next

(* Where a unit is after a step, from where it was.                         *)
LEMMA TurnPlaces ==
  ASSUME NEW x
  PROVE  /\ x \in PassedOn \cup UNION {Parcel[r] : r \in SubReactor} <=>
              x \in PassedOn \/ \E r \in SubReactor : x \in Parcel[r]
         /\ x \in PassedOn' \cup UNION {Parcel'[r] : r \in SubReactor} <=>
              x \in PassedOn' \/ \E r \in SubReactor : x \in Parcel'[r]
OBVIOUS

LEMMA TurnReads ==
  ASSUME TurnInv, NEW r \in SubReactor, NEW n \in 1..MaxUnits, Turn!Read(r, n)
  PROVE  TurnInv'
<1> USE ReactorAssumption DEF TurnInv
<1>0. PICK s \in Session : s = InTurn[r]
  BY DEF Turn!Read, TurnTypes
<1>1. /\ TurnTypes' /\ Turn!OneTurn'
  BY TurnTyped, TurnAlone DEF Turn!Next
<1>2. /\ taken[s] \in Nat /\ n \in Nat /\ taken[s] < n /\ taken' = [taken EXCEPT ![s] = n]
      /\ UNCHANGED <<Life, Watched, InQueue, InTurn, PassedOn>>
      /\ taken'[s] = n /\ \A x \in Session : x # s => taken'[x] = taken[x]
  BY <1>0 DEF Turn!Read, TurnTypes
<1> DEFINE N == {<<s, u>> : u \in taken[s] + 1 .. n}
<1>3. /\ Parcel'[r] = Parcel[r] \cup N
      /\ \A q \in SubReactor : q # r => Parcel'[q] = Parcel[q]
  BY <1>0 DEF Turn!Read, TurnTypes
<1>4. ASSUME NEW x \in Session, NEW u \in Int
      PROVE  <<x, u>> \in N <=> x = s /\ u \in taken[s] + 1 .. n
  OBVIOUS
<1>5. Life[s] = "in"
  BY <1>0 DEF Turn!OneTurn, Turn!Owned
<1>6. ASSUME NEW x \in N PROVE x \notin PassedOn /\ \A q \in SubReactor : x \notin Parcel[q]
  <2>1. PICK u \in taken[s] + 1 .. n : x = <<s, u>>
    OBVIOUS
  <2>2. u \in Int /\ u \notin 1..taken[s]
    BY <1>2
  <2> QED
    BY <2>1, <2>2, TurnPlaces DEF Turn!PassedOnce
<1> HIDE DEF N
<1>7. ASSUME NEW x \in Session, NEW u \in Int
      PROVE  /\ <<x, u>> \in PassedOn' \/ (\E q \in SubReactor : <<x, u>> \in Parcel'[q]) =>
                  u \in 1..taken'[x]
             /\ Life'[x] = "in" /\ u \in 1..taken'[x] =>
                  <<x, u>> \in PassedOn' \/ \E q \in SubReactor : <<x, u>> \in Parcel'[q]
  <2>1. /\ <<x, u>> \in PassedOn \/ (\E q \in SubReactor : <<x, u>> \in Parcel[q]) =>
             u \in 1..taken[x]
        /\ Life[x] = "in" /\ u \in 1..taken[x] =>
             <<x, u>> \in PassedOn \/ \E q \in SubReactor : <<x, u>> \in Parcel[q]
    BY TurnPlaces DEF Turn!PassedOnce
  <2>2. <<x, u>> \in PassedOn' \/ (\E q \in SubReactor : <<x, u>> \in Parcel'[q]) <=>
          \/ <<x, u>> \in PassedOn \/ (\E q \in SubReactor : <<x, u>> \in Parcel[q])
          \/ <<x, u>> \in N
    BY <1>2, <1>3
  <2>3. u \in 1..taken'[x] <=> u \in 1..taken[x] \/ (x = s /\ u \in taken[s] + 1 .. n)
    BY <1>2 DEF TurnTypes
  <2> QED
    BY <1>2, <1>4, <2>1, <2>2, <2>3
<1>8. Turn!PassedOnce'
  <2>1. ASSUME NEW q \in SubReactor
        PROVE  /\ Parcel'[q] \cap PassedOn' = {}
               /\ \A p \in SubReactor : p # q => Parcel'[p] \cap Parcel'[q] = {}
    BY <1>2, <1>3, <1>6 DEF Turn!PassedOnce
  <2> QED
    BY <1>7, <2>1, TurnPlaces DEF Turn!PassedOnce
<1>9. ASSUME NEW q \in SubReactor, InTurn'[q] # None, NEW x \in Parcel'[q]
      PROVE  x[1] = InTurn'[q]
  <2>1. x \in N => x[1] = s
    BY DEF N
  <2> QED
    BY <1>0, <1>2, <1>3, <1>9, <2>1
<1> QED
  BY <1>1, <1>2, <1>5, <1>8, <1>9

LEMMA TurnPasses ==
  ASSUME TurnInv, NEW r \in SubReactor, Turn!Pass(r) PROVE TurnInv'
<1> USE ReactorAssumption DEF TurnInv
<1>1. /\ TurnTypes' /\ Turn!OneTurn'
  BY TurnTyped, TurnAlone DEF Turn!Next
<1>2. /\ UNCHANGED <<Life, Watched, InQueue, InTurn, taken>>
      /\ PassedOn' = PassedOn \cup Parcel[r] /\ Parcel'[r] = {}
      /\ \A q \in SubReactor : q # r => Parcel'[q] = Parcel[q]
  BY DEF Turn!Pass, TurnTypes
<1>3. ASSUME NEW x
      PROVE  x \in PassedOn' \/ (\E q \in SubReactor : x \in Parcel'[q]) <=>
             x \in PassedOn \/ (\E q \in SubReactor : x \in Parcel[q])
  BY <1>2
<1>4. ASSUME NEW q \in SubReactor
      PROVE  /\ Parcel'[q] \cap PassedOn' = {}
             /\ \A p \in SubReactor : p # q => Parcel'[p] \cap Parcel'[q] = {}
  BY <1>2 DEF Turn!PassedOnce
<1>5. Turn!PassedOnce'
  BY <1>2, <1>3, <1>4, TurnPlaces DEF Turn!PassedOnce
<1> QED
  BY <1>1, <1>2, <1>5

LEMMA TurnDrops ==
  ASSUME TurnInv, NEW r \in SubReactor, Turn!Drop(r) PROVE TurnInv'
<1> USE ReactorAssumption DEF TurnInv
<1>0. PICK s \in Session : s = InTurn[r]
  BY DEF Turn!Drop, TurnTypes
<1>1. /\ TurnTypes' /\ Turn!OneTurn'
  BY TurnTyped, TurnAlone DEF Turn!Next
<1>2. /\ UNCHANGED <<Watched, InQueue, PassedOn, taken>>
      /\ Life'[s] = "out" /\ \A x \in Session : x # s => Life'[x] = Life[x]
      /\ InTurn'[r] = None /\ \A q \in SubReactor : q # r => InTurn'[q] = InTurn[q]
      /\ Parcel'[r] = {} /\ \A q \in SubReactor : q # r => Parcel'[q] = Parcel[q]
  BY <1>0 DEF Turn!Drop, TurnTypes
<1>3. ASSUME NEW x \in Session, x # s, NEW u \in Int PROVE <<x, u>> \notin Parcel[r]
  <2>1. <<x, u>>[1] = x
    OBVIOUS
  <2> QED
    BY <1>0, <1>3, <2>1
<1>4. ASSUME NEW x \in Session, NEW u \in Int
      PROVE  /\ <<x, u>> \in PassedOn' \/ (\E q \in SubReactor : <<x, u>> \in Parcel'[q]) =>
                  u \in 1..taken'[x]
             /\ Life'[x] = "in" /\ u \in 1..taken'[x] =>
                  <<x, u>> \in PassedOn' \/ \E q \in SubReactor : <<x, u>> \in Parcel'[q]
  <2>1. /\ <<x, u>> \in PassedOn \/ (\E q \in SubReactor : <<x, u>> \in Parcel[q]) =>
             u \in 1..taken[x]
        /\ Life[x] = "in" /\ u \in 1..taken[x] =>
             <<x, u>> \in PassedOn \/ \E q \in SubReactor : <<x, u>> \in Parcel[q]
    BY TurnPlaces DEF Turn!PassedOnce
  <2> QED
    BY <1>2, <1>3, <2>1
<1>5. ASSUME NEW q \in SubReactor
      PROVE  /\ Parcel'[q] \cap PassedOn' = {}
             /\ \A p \in SubReactor : p # q => Parcel'[p] \cap Parcel'[q] = {}
  BY <1>2 DEF Turn!PassedOnce
<1>6. Turn!PassedOnce'
  BY <1>4, <1>5, TurnPlaces DEF Turn!PassedOnce
<1> QED
  BY <1>1, <1>2, <1>6

LEMMA TurnMoves ==
  ASSUME TurnInv, Turn!Next, UNCHANGED <<taken, Parcel, PassedOn>>,
         \A s \in Session : Life'[s] # Life[s] => Life[s] = "new",
         \A s \in Session : Life'[s] = "new" => Life[s] = "new",
         \A r \in SubReactor : InTurn'[r] \notin {None, InTurn[r]} => Parcel[r] = {}
  PROVE  TurnInv'
<1> USE DEF TurnInv
<1>1. TurnTypes' /\ Turn!OneTurn'
  BY TurnTyped, TurnAlone
<1>2. ASSUME NEW s \in Session, NEW u \in Int, Life'[s] = "in", u \in 1..taken[s]
      PROVE  Life[s] = "in"
  BY <1>2
<1>3. Turn!PassedOnce'
  BY <1>2 DEF Turn!PassedOnce
<1> QED
  BY <1>1, <1>3

LEMMA TurnKeeps == ASSUME TurnInv, [Turn!Next]_(Turn!vars) PROVE TurnInv'
<1> USE ReactorAssumption
<1>1. CASE UNCHANGED Turn!vars
  BY <1>1 DEF Turn!vars, TurnInv, TurnTypes, Turn!OneTurn, Turn!Owned, Turn!PassedOnce
<1>2. ASSUME NEW s \in Session, Turn!Accept(s) \/ Turn!Watch(s) PROVE TurnInv'
  <2>1. Turn!Next
    BY <1>2 DEF Turn!Next
  <2> QED
    BY <1>2, <2>1, TurnMoves DEF Turn!Accept, Turn!Watch, TurnInv, TurnTypes
<1>3. ASSUME NEW s \in Watched, Turn!Report(s) PROVE TurnInv'
  <2>1. Turn!Next
    BY <1>3 DEF Turn!Next
  <2> QED
    BY <1>3, <2>1, TurnMoves DEF Turn!Report
<1>4. ASSUME NEW r \in SubReactor, NEW s \in InQueue, Turn!Take(r, s) PROVE TurnInv'
  <2>1. Turn!Next
    BY <1>4 DEF Turn!Next
  <2> QED
    BY <1>4, <2>1, TurnMoves DEF Turn!Take, TurnInv, TurnTypes
<1>5. ASSUME NEW r \in SubReactor, Turn!Release(r) PROVE TurnInv'
  <2>1. Turn!Next
    BY <1>5 DEF Turn!Next
  <2> QED
    BY <1>5, <2>1, TurnMoves DEF Turn!Release, TurnInv, TurnTypes
<1> QED
  BY <1>1, <1>2, <1>3, <1>4, <1>5, TurnReads, TurnPasses, TurnDrops DEF Turn!Next

(* A session is watched, queued or in one sub-reactor's turn; a unit that   *)
(* was read is in one parcel or passed on, and in none only when its        *)
(* session has been removed.                                                *)
THEOREM TurnsAreExclusive == Turn!Spec => [](Turn!OneTurn /\ Turn!PassedOnce)
<1>1. Turn!Init => TurnInv
  BY ReactorAssumption
     DEF Turn!Init, TurnInv, TurnTypes, Turn!OneTurn, Turn!Owned, Turn!PassedOnce
<1>2. TurnInv => Turn!OneTurn /\ Turn!PassedOnce
  BY DEF TurnInv
<1> QED
  BY <1>1, <1>2, TurnKeeps, PTL DEF Turn!Spec

(* So do the sub-reactors of Reactor: never do two threads have one          *)
(* connection, nor does a unit reach the service twice.                      *)
COROLLARY ReadInTurns == OwnNameSpec => [](Turn!OneTurn /\ Turn!PassedOnce)
BY ImplementsTurns, TurnsAreExclusive, PTL DEF TurnsSpec
=============================================================================
