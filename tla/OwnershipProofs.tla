-------------------------- MODULE OwnershipProofs --------------------------
(***************************************************************************)
(* A session is with one owner at a time, and it is the registered session *)
(* of its address as long as it is queued or read.  The argument is the    *)
(* inductive invariant IInv of Reactor.  A step moves at most one session  *)
(* in or out of Served; once it is known which, each part of the invariant *)
(* follows from the others before the step.  The first part is type        *)
(* correctness, for every value of the constants: what is not by shape     *)
(* there is that libevent's count of a descriptor's events never goes      *)
(* below zero, since an entry of events_ always stands for an event.       *)
(***************************************************************************)
EXTENDS Reactor, TLAPS
-----------------------------------------------------------------------------
(* Types.  A descriptor's count of events goes down and a sub-reactor uses   *)
(* the session it has, so the types rest on the two facts beside TypeOK.    *)
LEMMA TypedInit == Init => Typed
<1> SUFFICES ASSUME Init PROVE Typed
  OBVIOUS
<1> USE ReactorAssumption DEF Init
<1>1. /\ idOf \in [Session -> Peer \cup {None}] /\ fdOf \in [Session -> Fd \cup {None}]
      /\ sessions \in [Peer -> Session \cup {None}]
      /\ work \in [ServiceWorker -> Context \cup {None}]
      /\ cur \in [SubReactor -> Session \cup {None}]
      /\ newborn \in Session \cup {None}
  OBVIOUS
<1>2. /\ sent \in [Session -> 0..MaxUnits] /\ taken \in [Session -> 0..MaxUnits]
      /\ pending \in [Fd -> Nat]
  OBVIOUS
<1>3. /\ conn \in [Session -> {"open", "fin", "reset"}]
      /\ events \in [Fd -> {"absent", "live", "fired"}]
      /\ watch \in [Session -> {"off", "on", "spent"}]
      /\ pc \in [SubReactor -> {"idle", "read", "rearm", "delete", "push"}]
      /\ aborted \in BOOLEAN
  OBVIOUS
<1>4. /\ sessionQ \in Seq(Session) /\ msgQ \in Seq(Context)
  OBVIOUS
<1>5. /\ datagram \in [SubReactor -> SUBSET Units]
      /\ handled \in [Session -> SUBSET Units]
  OBVIOUS
<1>6. TypeOK
  BY <1>1, <1>2, <1>3, <1>4, <1>5 DEF TypeOK
<1>7. EventsAreCounted /\ BusyHasSession
  BY DEF EventsAreCounted, BusyHasSession
<1> QED
  BY <1>6, <1>7 DEF Typed

LEMMA ExceptType ==
  ASSUME NEW S, NEW T, NEW fn \in [S -> T], NEW x, NEW v, x \in S => v \in T
  PROVE  [fn EXCEPT ![x] = v] \in [S -> T]
OBVIOUS

LEMMA AddEventTyped ==
  ASSUME Typed, NEW s \in Session,
         NEW edge \in {"off", "on", "spent"}, AddEvent(s, edge)
  PROVE  /\ events' \in [Fd -> {"absent", "live", "fired"}]
         /\ pending' \in [Fd -> Nat]
         /\ watch' \in [Session -> {"off", "on", "spent"}]
         /\ EventsAreCounted'
<1> DEFINE f == fdOf[s]
<1>1. /\ pending' = [pending EXCEPT ![f] = pending[f] + 1]
      /\ events' = [events EXCEPT ![f] = IF events[f] = "absent" THEN "live" ELSE events[f]]
      /\ watch' = [watch EXCEPT ![s] = IF pending[f] = 0 THEN edge ELSE watch[s]]
  BY DEF AddEvent, Recorded, Registers
<1>2. /\ pending \in [Fd -> Nat] /\ events \in [Fd -> {"absent", "live", "fired"}]
      /\ watch \in [Session -> {"off", "on", "spent"}]
      /\ \A g \in Fd : events[g] = "live" => pending[g] > 0
  BY DEF Typed, TypeOK, EventsAreCounted
<1> HIDE DEF f
<1>3. pending' \in [Fd -> Nat]
  <2>1. f \in Fd => pending[f] + 1 \in Nat
    BY <1>2
  <2> QED
    BY <1>1, <1>2, <2>1, ExceptType
<1>4. events' \in [Fd -> {"absent", "live", "fired"}]
  BY <1>1, <1>2
<1>5. watch' \in [Session -> {"off", "on", "spent"}]
  BY <1>1, <1>2
<1>6. ASSUME NEW g \in Fd, events'[g] = "live" PROVE pending'[g] > 0
  BY <1>1, <1>2, <1>6
<1> QED
  BY <1>3, <1>4, <1>5, <1>6 DEF EventsAreCounted

LEMMA TypedStep == Typed /\ [Next]_vars => Typed'
<1> SUFFICES ASSUME Typed, [Next]_vars PROVE Typed'
  OBVIOUS
<1> USE ReactorAssumption DEF TypeOK, EventsAreCounted, BusyHasSession
<1>1. ASSUME NEW s \in Session, PeerSend(s) PROVE Typed'
  BY <1>1 DEF Typed, PeerSend, kernelVars, eventVars, reactorVars, workerVars
<1>2. ASSUME NEW s \in Session, NEW how \in {"fin", "reset"}, PeerEnd(s, how)
      PROVE  Typed'
  BY <1>2 DEF Typed, PeerEnd, kernelVars, eventVars, reactorVars, workerVars
<1>3. ASSUME NEW s \in Session, NEW p \in Peer, NEW f \in Fd, Accept(p, s, f)
      PROVE  Typed'
  BY <1>3 DEF Typed, Accept, AddSession, kernelVars, eventVars, reactorVars, workerVars
<1>4. CASE ListenToNewborn
  BY <1>4, AddEventTyped DEF Typed, ListenToNewborn, kernelVars, eventVars, reactorVars, workerVars
<1>5. ASSUME NEW s \in Session, NEW t \in Session, NEW inMap \in BOOLEAN,
             OnDataRecv(s, t, inMap)
      PROVE  Typed'
  <2> DEFINE f == fdOf[s]
             g == fdOf[t]
             ev == [events EXCEPT ![f] = IF inMap THEN "fired" ELSE @]
             pnd == [pending EXCEPT ![f] = @ - 1]
  <2>1. /\ events' = [ev EXCEPT ![g] = "absent"]
        /\ pending' = [pnd EXCEPT ![g] = IF ev[g] = "live" THEN pnd[g] - 1 ELSE pnd[g]]
        /\ IF inMap THEN events[f] = "live"
                    ELSE pending[f] > (IF events[f] = "live" THEN 1 ELSE 0)
        /\ watch' = [x \in Session |->
                      IF fdOf[x] \in {f, g} /\ pending'[fdOf[x]] = 0
                      THEN "off" ELSE watch[x]]
        /\ sessionQ' = Append(sessionQ, t)
    BY <1>5 DEF OnDataRecv, OnPushSession, DeleteEvent
  <2>2. /\ pending \in [Fd -> Nat] /\ events \in [Fd -> {"absent", "live", "fired"}]
        /\ watch \in [Session -> {"off", "on", "spent"}] /\ sessionQ \in Seq(Session)
        /\ \A h \in Fd : events[h] = "live" => pending[h] > 0
    BY DEF Typed
  <2>3. /\ UNCHANGED <<kernelVars, taken, sessions, newborn, reactorVars, msgQ,
                       workerVars, aborted>>
        /\ Typed
    BY <1>5 DEF OnDataRecv, OnPushSession, DeleteEvent
  <2> HIDE DEF f, g
  <2>4. ev \in [Fd -> {"absent", "live", "fired"}] /\ pnd \in [Fd -> Int]
    <3>1. ev \in [Fd -> {"absent", "live", "fired"}]
      BY <2>2, ExceptType
    <3>2. pending \in [Fd -> Int] /\ (f \in Fd => pending[f] - 1 \in Int)
      BY <2>2
    <3> QED
      BY <3>1, <3>2, ExceptType
  <2>5. ASSUME NEW h \in Fd
        PROVE  pnd[h] >= (IF ev[h] = "live" THEN 1 ELSE 0)
    BY <2>1, <2>2
  <2> HIDE DEF ev, pnd
  <2>6. pending' \in [Fd -> Nat]
    <3>1. pnd \in [Fd -> Nat]
      BY <2>4, <2>5
    <3>2. g \in Fd => (IF ev[g] = "live" THEN pnd[g] - 1 ELSE pnd[g]) \in Nat
      BY <2>5, <3>1
    <3> QED
      BY <2>1, <3>1, <3>2, ExceptType
  <2>7. events' \in [Fd -> {"absent", "live", "fired"}]
    BY <2>1, <2>4
  <2>8. watch' \in [Session -> {"off", "on", "spent"}] /\ sessionQ' \in Seq(Session)
    BY <2>1, <2>2
  <2>9. ASSUME NEW h \in Fd, events'[h] = "live" PROVE pending'[h] > 0
    BY <2>1, <2>4, <2>5, <2>9
  <2> QED
    BY <2>3, <2>6, <2>7, <2>8, <2>9
    DEF Typed, kernelVars, reactorVars, workerVars
<1>6. ASSUME NEW s \in Session, OnDataRecvAborts(s) PROVE Typed'
  BY <1>6 DEF Typed, OnDataRecvAborts, kernelVars, eventVars, reactorVars, workerVars
<1>7. ASSUME NEW r \in SubReactor, TakeSession(r) PROVE Typed'
  BY <1>7 DEF Typed, TakeSession, Popped, kernelVars, eventVars, reactorVars, workerVars
<1>8. ASSUME NEW r \in SubReactor, ReadData(r) PROVE Typed'
  BY <1>8 DEF Typed, ReadData, Units, kernelVars, eventVars, reactorVars, workerVars
<1>9. ASSUME NEW r \in SubReactor, ReadStops(r) PROVE Typed'
  BY <1>9 DEF Typed, ReadStops, StopsWith, kernelVars, eventVars, reactorVars, workerVars
<1>10. ASSUME NEW r \in SubReactor, DeleteSession(r) PROVE Typed'
  BY <1>10 DEF Typed, DeleteSession, ReturnToLoop, PacketReleased, kernelVars, eventVars, reactorVars, workerVars
<1>11. ASSUME NEW r \in SubReactor, Rearm(r) PROVE Typed'
  BY <1>11, AddEventTyped DEF Typed, Rearm, kernelVars, eventVars, reactorVars, workerVars
<1>12. ASSUME NEW r \in SubReactor, PushMessage(r) PROVE Typed'
  BY <1>12 DEF Typed, PushMessage, OnPushMessage, ReturnToLoop, PacketReleased, Context, kernelVars, eventVars, reactorVars, workerVars
<1>13. ASSUME NEW w \in ServiceWorker, TakeMessage(w) PROVE Typed'
  BY <1>13 DEF Typed, TakeMessage, kernelVars, eventVars, reactorVars, workerVars
<1>14. ASSUME NEW w \in ServiceWorker, FinishMessage(w) PROVE Typed'
  BY <1>14 DEF Typed, FinishMessage, Context, kernelVars, eventVars, reactorVars, workerVars
<1>15. CASE UNCHANGED vars
  BY <1>15 DEF Typed, vars, kernelVars, eventVars, reactorVars, workerVars
<1> QED
  BY <1>1, <1>2, <1>3, <1>4, <1>5, <1>6, <1>7, <1>8, <1>9, <1>10, <1>11, <1>12,
     <1>13, <1>14, <1>15
     DEF Next, PeerStep, SelectorStep, ReactorStep, WorkerStep

(* Every variable keeps the type TypeOK gives it.                           *)
THEOREM TypeCorrect == Spec => []TypeOK
<1>1. Typed => TypeOK
  BY DEF Typed
<1> QED
  BY <1>1, TypedInit, TypedStep, PTL DEF Spec
-----------------------------------------------------------------------------

(* What the queue operations do to the set of queued sessions.               *)
LEMMA Queued ==
  ASSUME NEW S, NEW q \in Seq(S), NEW e \in S
  PROVE  Elements(Append(q, e)) = Elements(q) \cup {e}
<1>1. /\ Append(q, e) \in Seq(S) /\ Len(Append(q, e)) = Len(q) + 1
      /\ \A i \in 1..Len(q) : Append(q, e)[i] = q[i]
      /\ Append(q, e)[Len(q) + 1] = e
  OBVIOUS
<1>2. DOMAIN q = 1..Len(q) /\ DOMAIN Append(q, e) = 1..(Len(q) + 1) /\ Len(q) \in Nat
  BY <1>1
<1>3. 1..(Len(q) + 1) = 1..Len(q) \cup {Len(q) + 1}
  BY <1>2
<1> QED
  BY <1>1, <1>2, <1>3 DEF Elements

LEMMA QueuedOnce ==
  ASSUME NEW S, NEW q \in Seq(S), NEW e \in S, e \notin Elements(q),
         \A i, j \in DOMAIN q : q[i] = q[j] => i = j
  PROVE  LET a == Append(q, e) IN \A i, j \in DOMAIN a : a[i] = a[j] => i = j
<1>1. /\ DOMAIN Append(q, e) = 1..(Len(q) + 1) /\ Len(q) \in Nat /\ DOMAIN q = 1..Len(q)
      /\ \A i \in 1..Len(q) : Append(q, e)[i] = q[i] /\ q[i] # e
      /\ Append(q, e)[Len(q) + 1] = e
  BY DEF Elements
<1> QED
  BY <1>1

LEMMA Dequeued ==
  ASSUME NEW S, NEW q \in Seq(S), q # <<>>,
         \A i, j \in DOMAIN q : q[i] = q[j] => i = j
  PROVE  /\ Head(q) \in S /\ Head(q) \in Elements(q)
         /\ Elements(Tail(q)) = Elements(q) \ {Head(q)}
         /\ \A i, j \in DOMAIN Tail(q) : Tail(q)[i] = Tail(q)[j] => i = j
<1>1. /\ Len(q) \in Nat \ {0} /\ DOMAIN q = 1..Len(q)
      /\ Head(q) = q[1] /\ Head(q) \in S
      /\ DOMAIN Tail(q) = 1..(Len(q) - 1)
      /\ \A i \in 1..(Len(q) - 1) : Tail(q)[i] = q[i + 1]
  OBVIOUS
<1>2. Head(q) \in Elements(q)
  BY <1>1 DEF Elements
<1>3. \A i, j \in DOMAIN Tail(q) : Tail(q)[i] = Tail(q)[j] => i = j
  BY <1>1
<1>4. Elements(Tail(q)) \subseteq Elements(q) \ {Head(q)}
  BY <1>1 DEF Elements
<1>5. ASSUME NEW x \in Elements(q), x # Head(q) PROVE x \in Elements(Tail(q))
  <2>1. PICK i \in 1..Len(q) : x = q[i]
    BY <1>5, <1>1 DEF Elements
  <2>2. i - 1 \in 1..(Len(q) - 1) /\ Tail(q)[i - 1] = x
    BY <2>1, <1>1, <1>5
  <2> QED
    BY <2>2, <1>1 DEF Elements
<1> QED
  BY <1>1, <1>2, <1>3, <1>4, <1>5
-----------------------------------------------------------------------------
(* Which sessions a step starts or stops serving.                           *)

LEMMA SameServed ==
  ASSUME UNCHANGED <<sessionQ, cur>>,
         \A r \in SubReactor : Serving(r)' <=> Serving(r)
  PROVE  /\ OneReader => OneReader'
         /\ \A x \in Session : Served(x)' <=> Served(x)
BY DEF OneReader, Served, Elements

LEMMA PushServes ==
  ASSUME Typed, OneReader, UNCHANGED <<pc, cur>>,
         NEW s \in Session, ~Served(s), sessionQ' = Append(sessionQ, s)
  PROVE  /\ OneReader'
         /\ \A x \in Session : Served(x)' <=> Served(x) \/ x = s
<1>1. sessionQ \in Seq(Session)
  BY DEF Typed, TypeOK
<1>2. Elements(sessionQ') = Elements(sessionQ) \cup {s}
  BY <1>1, Queued
<1>3. \A i, j \in DOMAIN sessionQ' : sessionQ'[i] = sessionQ'[j] => i = j
  BY <1>1, QueuedOnce DEF OneReader, Served
<1>4. \A r \in SubReactor : Serving(r)' <=> Serving(r)
  BY DEF Serving
<1>5. Elements(sessionQ)' = Elements(sessionQ')
  BY DEF Elements
<1> QED
  BY <1>2, <1>3, <1>4, <1>5 DEF OneReader, Served

LEMMA TakeServes ==
  ASSUME Typed, OneReader, NEW r \in SubReactor, TakeSession(r)
  PROVE  /\ OneReader'
         /\ \A x \in Session : Served(x)' <=> Served(x)
<1> DEFINE h == Head(sessionQ)
<1>1. /\ sessionQ \in Seq(Session) /\ sessionQ # <<>> /\ sessionQ' = Tail(sessionQ)
      /\ cur' = [cur EXCEPT ![r] = h] /\ pc' = [pc EXCEPT ![r] = "read"]
      /\ cur \in [SubReactor -> Session \cup {None}] /\ pc[r] = "idle"
      /\ pc \in [SubReactor -> {"idle", "read", "rearm", "delete", "push"}]
  BY DEF Typed, TypeOK, TakeSession, Popped
<1>2. /\ h \in Session /\ h \in Elements(sessionQ)
      /\ Elements(sessionQ') = Elements(sessionQ) \ {h}
      /\ \A i, j \in DOMAIN sessionQ' : sessionQ'[i] = sessionQ'[j] => i = j
  BY <1>1, Dequeued DEF OneReader
<1>3. Elements(sessionQ)' = Elements(sessionQ')
  BY DEF Elements
<1> HIDE DEF h
<1>4. \A q \in SubReactor : Serving(q)' <=> (Serving(q) \/ q = r)
  BY <1>1 DEF Serving
<1>5. \A q \in SubReactor : cur'[q] = IF q = r THEN h ELSE cur[q]
  BY <1>1
<1>6. ~Serving(r)
  BY <1>1 DEF Serving
<1> QED
  BY <1>2, <1>3, <1>4, <1>5, <1>6 DEF OneReader, Served

LEMMA StopServes ==
  ASSUME Typed, OneReader, NEW r \in SubReactor, Serving(r), UNCHANGED sessionQ,
         \A q \in SubReactor : Serving(q)' <=> (Serving(q) /\ q # r),
         \A q \in SubReactor : q # r => cur'[q] = cur[q]
  PROVE  /\ OneReader'
         /\ \A x \in Session : Served(x)' <=> Served(x) /\ x # cur[r]
<1>1. Elements(sessionQ)' = Elements(sessionQ)
  BY DEF Elements
<1> QED
  BY <1>1 DEF OneReader, Served
-----------------------------------------------------------------------------
(* The steps that leave the owners alone: the peers', the service's, a      *)
(* sub-reactor's between taking a session and giving it up.                 *)

LEMMA OwnershipInit == Init => Ownership
<1> SUFFICES ASSUME Init PROVE Ownership
  OBVIOUS
<1>1. \A s \in Session : ~Served(s)
  BY DEF Init, Served, Serving, Elements
<1>2. OneReader
  BY DEF Init, OneReader, Serving
<1>3. \A s \in Session : ~Held(s)
  BY ReactorAssumption DEF Init, Held, Registered
<1> QED
  BY <1>1, <1>2, <1>3, ReactorAssumption
     DEF Init, Ownership, Names, Unused, SingleOwner, ServedIsRegistered,
         WatchedHasEvent, ServedHasNoEvent, UnwatchedIsStale, DeletesEnded,
         AbortsOnlyOnReset, Held, Registered

LEMMA QuietSteps ==
  ASSUME IInv, ~aborted, UNCHANGED <<idOf, fdOf, sessions, events, pending, newborn>>,
         OneReader', \A x \in Session : Served(x)' <=> Served(x),
         \A x \in Session : (watch'[x] = "off") <=> (watch[x] = "off"),
         DeletesEnded', aborted' = aborted
  PROVE  Ownership'
<1> USE DEF IInv, Typed, Ownership, TypeOK
<1>1. \A x \in Session : Registered(x)' <=> Registered(x)
  BY DEF Registered
<1>2. \A x \in Session : Held(x)' <=> Held(x)
  BY <1>1 DEF Held
<1>3. Names'
  BY <1>2 DEF Names
<1>4. Unused'
  BY ReactorAssumption DEF Unused
<1>5. SingleOwner' /\ ServedIsRegistered'
  BY <1>1 DEF SingleOwner, ServedIsRegistered
<1>6. WatchedHasEvent' /\ ServedHasNoEvent' /\ UnwatchedIsStale'
  BY <1>1 DEF WatchedHasEvent, ServedHasNoEvent, UnwatchedIsStale
<1>7. AbortsOnlyOnReset'
  BY DEF AbortsOnlyOnReset
<1> QED
  BY <1>3, <1>4, <1>5, <1>6, <1>7

LEMMA PeerOwnership ==
  ASSUME IInv, ~aborted, NEW s \in Session, PeerStep(s)
  PROVE  Ownership'
<1> USE DEF IInv, Typed, Ownership, TypeOK
<1>1. UNCHANGED <<idOf, fdOf, sessions, events, pending, newborn, sessionQ, pc, cur,
                  taken, aborted>>
  BY DEF PeerStep, PeerSend, PeerEnd, eventVars, reactorVars
<1>2. OneReader' /\ \A x \in Session : Served(x)' <=> Served(x)
  BY <1>1, SameServed DEF Serving, SingleOwner
<1>3. \A x \in Session : (watch'[x] = "off") <=> (watch[x] = "off")
  BY DEF PeerStep, PeerSend, PeerEnd
<1>4. DeletesEnded'
  <2>1. CASE PeerSend(s)
    BY <2>1, <1>1 DEF PeerSend, DeletesEnded, BusyHasSession
  <2>2. ASSUME NEW how \in {"fin", "reset"}, PeerEnd(s, how) PROVE DeletesEnded'
    BY <2>2, <1>1 DEF PeerEnd, DeletesEnded, BusyHasSession
  <2> QED
    BY <2>1, <2>2 DEF PeerStep
<1> QED
  BY <1>1, <1>2, <1>3, <1>4, QuietSteps

LEMMA TakeOwnership ==
  ASSUME IInv, ~aborted, NEW r \in SubReactor, TakeSession(r)
  PROVE  Ownership'
<1> USE DEF IInv, Typed, Ownership, TypeOK
<1>1. UNCHANGED <<idOf, fdOf, conn, sent, taken, sessions, events, pending, watch,
                  newborn, aborted>>
  BY DEF TakeSession, Popped, kernelVars, eventVars
<1>2. OneReader' /\ \A x \in Session : Served(x)' <=> Served(x)
  BY TakeServes DEF SingleOwner
<1>3. DeletesEnded'
  BY <1>1 DEF TakeSession, Popped, DeletesEnded
<1> QED
  BY <1>1, <1>2, <1>3, QuietSteps

LEMMA ReadOwnership ==
  ASSUME IInv, ~aborted, NEW r \in SubReactor,
         ReadData(r) \/ ReadStops(r) \/ PushMessage(r)
  PROVE  Ownership'
<1> USE DEF IInv, Typed, Ownership, TypeOK
<1>1. UNCHANGED <<idOf, fdOf, conn, sent, sessions, events, pending, watch,
                  newborn, sessionQ, aborted>>
  BY DEF ReadData, ReadStops, StopsWith, PushMessage, kernelVars, eventVars
<1>2. \A q \in SubReactor : Serving(q)' <=> Serving(q)
  BY DEF ReadData, ReadStops, StopsWith, PushMessage, ReturnToLoop, PacketReleased, Serving
<1>3. \A q \in SubReactor : Serving(q) => cur'[q] = cur[q]
  BY DEF ReadData, ReadStops, StopsWith, PushMessage, ReturnToLoop, PacketReleased, Serving
<1>4. Elements(sessionQ)' = Elements(sessionQ)
  BY <1>1 DEF Elements
<1>5. OneReader' /\ \A x \in Session : Served(x)' <=> Served(x)
  BY <1>1, <1>2, <1>3, <1>4 DEF OneReader, Served, SingleOwner
<1>6. DeletesEnded'
  <2>1. CASE ReadData(r)
    BY <2>1, <1>1, <1>2 DEF ReadData, DeletesEnded, Serving, SingleOwner, OneReader, BusyHasSession
  <2>2. CASE ReadStops(r)
    BY <2>2, <1>1 DEF ReadStops, StopsWith, DeletesEnded, kernelVars
  <2>3. CASE PushMessage(r)
    BY <2>3, <1>1 DEF PushMessage, ReturnToLoop, PacketReleased, DeletesEnded
  <2> QED
    BY <2>1, <2>2, <2>3
<1> QED
  BY <1>1, <1>5, <1>6, QuietSteps

LEMMA WorkerOwnership ==
  ASSUME IInv, ~aborted, NEW w \in ServiceWorker, WorkerStep(w)
  PROVE  Ownership'
<1> USE DEF IInv, Typed, Ownership, TypeOK
<1>1. UNCHANGED <<idOf, fdOf, conn, sent, taken, sessions, events, pending, watch,
                  newborn, sessionQ, pc, cur, aborted>>
  BY DEF WorkerStep, TakeMessage, FinishMessage, kernelVars, eventVars, reactorVars
<1>2. OneReader' /\ \A x \in Session : Served(x)' <=> Served(x)
  BY <1>1, SameServed DEF Serving, SingleOwner
<1>3. DeletesEnded'
  BY <1>1 DEF DeletesEnded
<1> QED
  BY <1>1, <1>2, <1>3, QuietSteps
-----------------------------------------------------------------------------
(* The steps that hand a session on.                                        *)

LEMMA AcceptOwnership ==
  ASSUME IInv, ~aborted, NEW s \in Session, NEW p \in Peer, NEW f \in Fd,
         Accept(p, s, f)
  PROVE  Ownership'
<1> USE ReactorAssumption DEF IInv, Typed, Ownership, TypeOK
<1>1. /\ newborn = None /\ idOf[s] = None /\ newborn' = s
      /\ idOf' = [idOf EXCEPT ![s] = p] /\ fdOf' = [fdOf EXCEPT ![s] = f]
      /\ sessions' = [sessions EXCEPT ![p] = IF @ = None THEN s ELSE @]
      /\ \A x \in Session : Live(x) => fdOf[x] # f
      /\ UNCHANGED <<conn, sent, taken, events, pending, watch, sessionQ, pc, cur, aborted>>
  BY DEF Accept, AddSession, eventVars, reactorVars
<1>2. OneReader' /\ \A x \in Session : Served(x)' <=> Served(x)
  BY <1>1, SameServed DEF Serving, SingleOwner
<1>3. ~Served(s) /\ watch[s] = "off" /\ ~Held(s)
  BY <1>1 DEF Unused, Held, Registered
<1>4. \A x \in Session : x # s => (Registered(x)' <=> Registered(x))
  BY <1>1 DEF Registered
<1>5. \A x \in Session : Held(x)' <=> Held(x) \/ x = s
  BY <1>1, <1>4 DEF Held
<1>6. \A x \in Session : Held(x) => fdOf[x] # f
  BY <1>1 DEF Held, Registered, Live
<1>7. Names'
  <2>1. \A q \in Peer : sessions'[q] # None => idOf'[sessions'[q]] = q
    BY <1>1 DEF Names
  <2>2. \A x \in Session : idOf'[x] # None => fdOf'[x] \in Fd
    BY <1>1 DEF Names
  <2>3. \A x, y \in Session : Held(x)' /\ Held(y)' /\ fdOf'[x] = fdOf'[y] => x = y
    BY <1>1, <1>5, <1>6 DEF Names
  <2> QED
    BY <2>1, <2>2, <2>3 DEF Names
<1>8. Unused'
  BY <1>1, <1>2, <1>3 DEF Unused
<1>9. SingleOwner' /\ ServedIsRegistered'
  BY <1>1, <1>2, <1>3, <1>4 DEF SingleOwner, ServedIsRegistered
<1>10. WatchedHasEvent' /\ ServedHasNoEvent' /\ UnwatchedIsStale'
  BY <1>1, <1>2, <1>3, <1>4
     DEF WatchedHasEvent, ServedHasNoEvent, UnwatchedIsStale
<1>11. DeletesEnded' /\ AbortsOnlyOnReset'
  BY <1>1 DEF DeletesEnded, AbortsOnlyOnReset
<1> QED
  BY <1>7, <1>8, <1>9, <1>10, <1>11

(* What AddEvent does to the session it is called for.                      *)
LEMMA AddEventEffect ==
  ASSUME Typed, NEW s \in Session, fdOf[s] \in Fd, NEW edge, AddEvent(s, edge)
  PROVE  /\ pending' = [pending EXCEPT ![fdOf[s]] = pending[fdOf[s]] + 1]
         /\ \A f \in Fd : events'[f] = IF f = fdOf[s] /\ events[f] = "absent"
                                       THEN "live" ELSE events[f]
         /\ \A x \in Session :
              watch'[x] = IF x = s /\ pending[fdOf[s]] = 0 THEN edge ELSE watch[x]
BY DEF AddEvent, Recorded, Registers, Typed, TypeOK

LEMMA ListenOwnership ==
  ASSUME IInv, ~aborted, ListenToNewborn
  PROVE  Ownership'
<1> USE ReactorAssumption DEF IInv, Typed, Ownership, TypeOK
<1> DEFINE s == newborn
           owner == GetSession(idOf[s])
<1>1. /\ s \in Session /\ newborn' = None
      /\ UNCHANGED <<idOf, fdOf, conn, sent, taken, sessions, sessionQ, pc, cur, aborted>>
      /\ \/ owner = s /\ AddEvent(s, "on")
         \/ owner \notin {None, s} /\ AddEvent(s, "off")
         \/ owner = None /\ UNCHANGED <<events, pending, watch>>
  BY DEF ListenToNewborn, kernelVars, eventVars, reactorVars
<1>2. /\ idOf[s] \in Peer /\ fdOf[s] \in Fd /\ ~Served(s) /\ watch[s] = "off" /\ Held(s)
      /\ newborn # None
  BY <1>1 DEF Unused, Names, Held, ListenToNewborn
<1>3. owner = s <=> Registered(s)
  BY <1>2 DEF GetSession, Registered
<1>4. OneReader' /\ \A x \in Session : Served(x)' <=> Served(x)
  BY <1>1, SameServed DEF Serving, SingleOwner
<1>5. \A x \in Session : Registered(x)' <=> Registered(x)
  BY <1>1 DEF Registered
<1>6. \A x \in Session : Held(x)' => Held(x)
  BY <1>1, <1>5, <1>2 DEF Held
<1> HIDE DEF s, owner
<1>7. /\ \A x \in Session : x # s => watch'[x] = watch[x]
      /\ \A f \in Fd : f # fdOf[s] => pending'[f] = pending[f] /\ events'[f] = events[f]
      /\ \A f \in Fd : pending'[f] >= pending[f] /\ events'[f] # "fired"
  <2>1. CASE UNCHANGED <<events, pending, watch>>
    BY <2>1, <1>2 DEF ServedHasNoEvent
  <2>2. ASSUME NEW edge, AddEvent(s, edge)
        PROVE  /\ pending' = [pending EXCEPT ![fdOf[s]] = pending[fdOf[s]] + 1]
               /\ \A f \in Fd : events'[f] = IF f = fdOf[s] /\ events[f] = "absent"
                                             THEN "live" ELSE events[f]
               /\ \A x \in Session :
                    watch'[x] = IF x = s /\ pending[fdOf[s]] = 0 THEN edge ELSE watch[x]
    BY <2>2, <1>1, <1>2, AddEventEffect
  <2>3. ASSUME NEW edge, AddEvent(s, edge)
        PROVE  /\ \A x \in Session : x # s => watch'[x] = watch[x]
               /\ \A f \in Fd : f # fdOf[s] => pending'[f] = pending[f] /\ events'[f] = events[f]
               /\ \A f \in Fd : pending'[f] >= pending[f]
               /\ \A f \in Fd : events'[f] # "fired"
    <3>1. pending \in [Fd -> Nat] /\ \A f \in Fd : events[f] # "fired"
      BY DEF ServedHasNoEvent
    <3>2. \A x \in Session : x # s => watch'[x] = watch[x]
      BY <2>2, <2>3
    <3>3. \A f \in Fd : events'[f] # "fired" /\ (f # fdOf[s] => events'[f] = events[f])
      BY <3>1, <2>2, <2>3
    <3>4. ASSUME NEW f \in Fd PROVE pending'[f] >= pending[f] /\ (f # fdOf[s] => pending'[f] = pending[f])
      <4>1. pending' = [pending EXCEPT ![fdOf[s]] = pending[fdOf[s]] + 1]
        BY <2>2, <2>3
      <4> HIDE DEF IInv, Typed, Ownership, TypeOK
      <4> QED
        BY <1>2, <3>1, <4>1
    <3> QED
      BY <3>2, <3>3, <3>4
  <2> QED
    BY <1>1, <2>1, <2>3
<1>8. ASSUME NEW x \in Session, Held(x), x # s
      PROVE  /\ fdOf[x] \in Fd /\ pending'[fdOf[x]] = pending[fdOf[x]]
             /\ events'[fdOf[x]] = events[fdOf[x]] /\ watch'[x] = watch[x]
  BY <1>8, <1>1, <1>2, <1>7 DEF Names, Held, Registered, s
<1>9. \/ watch'[s] = "off" /\ (Registered(s) => pending'[fdOf[s]] > 1)
      \/ Registered(s) /\ pending'[fdOf[s]] = 1 /\ events'[fdOf[s]] = "live"
                       /\ watch'[s] = "on"
  <2>1. CASE owner = s /\ AddEvent(s, "on")
    BY <2>1, <1>1, <1>2, <1>3, AddEventEffect, SMTT(30) DEF EventsAreCounted, ServedHasNoEvent
  <2>2. CASE owner \notin {None, s} /\ AddEvent(s, "off")
    BY <2>2, <1>1, <1>2, <1>3, AddEventEffect
  <2>3. CASE owner = None /\ UNCHANGED <<events, pending, watch>>
    BY <2>3, <1>1, <1>2, <1>3
  <2> QED
    BY <1>1, <2>1, <2>2, <2>3
<1>10. Names' /\ Unused'
  <2>1. Names'
    BY <1>1, <1>6 DEF Names
  <2>2. Unused'
    BY <1>1, <1>2, <1>4, <1>7 DEF Unused
  <2> QED
    BY <2>1, <2>2
<1>11. SingleOwner' /\ ServedIsRegistered'
  BY <1>2, <1>4, <1>5, <1>7 DEF SingleOwner, ServedIsRegistered
<1>12. WatchedHasEvent'
  <2> SUFFICES ASSUME NEW x \in Session, watch'[x] # "off"
               PROVE  /\ Registered(x)' /\ pending'[fdOf'[x]] = 1
                      /\ events'[fdOf'[x]] = "live"
    BY DEF WatchedHasEvent
  <2>1. CASE x = s
    BY <2>1, <1>1, <1>5, <1>9
  <2>2. CASE x # s
    BY <2>2, <1>1, <1>5, <1>7, <1>8 DEF WatchedHasEvent, Held
  <2> QED
    BY <2>1, <2>2
<1>13. ServedHasNoEvent'
  BY <1>1, <1>2, <1>4, <1>7, <1>8, ZenonT(60) DEF ServedHasNoEvent, ServedIsRegistered, Held
<1>14. UnwatchedIsStale'
  <2> SUFFICES ASSUME NEW x \in Session, Registered(x)'
               PROVE (watch[x] # "off" \/ Served(x) \/ x = newborn \/ pending[fdOf[x]] > 1)'
    BY DEF UnwatchedIsStale
  <2>1. CASE x = s
    BY <2>1, <1>1, <1>5, <1>9
  <2>2. CASE x # s
    BY <2>2, <1>1, <1>4, <1>5, <1>8 DEF UnwatchedIsStale, Held, s
  <2> QED
    BY <2>1, <2>2
<1>15. DeletesEnded' /\ AbortsOnlyOnReset'
  BY <1>1 DEF DeletesEnded, AbortsOnlyOnReset
<1> QED
  BY <1>10, <1>11, <1>12, <1>13, <1>14, <1>15

(* What OnDataRecv does to the session it is called for: its one event goes.*)
LEMMA DataRecvEffect ==
  ASSUME OwnName, IInv, NEW s \in Session, NEW t \in Session,
         NEW inMap \in BOOLEAN, OnDataRecv(s, t, inMap)
  PROVE  /\ t = s /\ Registered(s) /\ fdOf[s] \in Fd /\ ~Served(s)
         /\ events' = [events EXCEPT ![fdOf[s]] = "absent"]
         /\ pending' = [pending EXCEPT ![fdOf[s]] = 0]
         /\ watch' = [x \in Session |-> IF fdOf[x] = fdOf[s] THEN "off" ELSE watch[x]]
         /\ \A x \in Session : Held(x) /\ x # s => fdOf[x] # fdOf[s]
<1> USE ReactorAssumption DEF IInv, Typed, Ownership, TypeOK
<1> DEFINE f == fdOf[s]
<1>1. /\ newborn = None /\ Live(s) /\ watch[s] = "on"
      /\ UNCHANGED <<idOf, fdOf, conn, sent, taken, sessions, newborn, pc, cur, aborted>>
      /\ sessionQ' = Append(sessionQ, t)
  BY DEF OnDataRecv, OnPushSession, kernelVars, reactorVars
<1>2. /\ Registered(s) /\ Held(s) /\ f \in Fd /\ idOf[s] \in Peer
      /\ pending[f] = 1 /\ events[f] = "live"
  BY <1>1 DEF WatchedHasEvent, Held, Registered, Names
<1>3. t = s
  BY DEF OwnName
<1>4. inMap
  BY <1>2 DEF OnDataRecv, DeleteEvent
<1>5. /\ events' = [events EXCEPT ![f] = "absent"]
      /\ pending' = [pending EXCEPT ![f] = 0]
      /\ watch' = [x \in Session |-> IF fdOf[x] = f THEN "off" ELSE watch[x]]
  <2> DEFINE pnd == [pending EXCEPT ![f] = @ - 1]
  <2>1. pending' = [pnd EXCEPT ![f] = pnd[f]]
    BY <1>2, <1>3, <1>4 DEF OnDataRecv, DeleteEvent
  <2>2. pending' = [pending EXCEPT ![f] = 0]
    <3>1. pnd = [pending EXCEPT ![f] = 0] /\ pnd \in [Fd -> Int]
      BY <1>2
    <3> HIDE DEF pnd
    <3> QED
      BY <2>1, <3>1
  <2>3. events' = [events EXCEPT ![f] = "absent"]
    BY <1>2, <1>3, <1>4 DEF OnDataRecv, DeleteEvent
  <2>4. watch' = [x \in Session |-> IF fdOf[x] \in {f, f} /\ pending'[fdOf[x]] = 0
                                    THEN "off" ELSE watch[x]]
    BY <1>3, <1>4 DEF OnDataRecv, DeleteEvent
  <2>5. \A x \in Session : fdOf[x] \in {f, f} => fdOf[x] = f /\ pending'[fdOf[x]] = 0
    BY <2>2, <1>2
  <2> QED
    BY <2>2, <2>3, <2>4, <2>5
<1>6. ~Served(s)
  BY <1>1 DEF SingleOwner
<1> HIDE DEF f
<1>7. \A x \in Session : Held(x) /\ x # s => fdOf[x] # f
  BY <1>2 DEF Names, f
<1> QED
  BY <1>2, <1>3, <1>5, <1>6, <1>7 DEF f

LEMMA DataRecvOwnership ==
  ASSUME OwnName, IInv, ~aborted, NEW s \in Session, NEW t \in Session,
         NEW inMap \in BOOLEAN, OnDataRecv(s, t, inMap)
  PROVE  Ownership'
<1> DEFINE f == fdOf[s]
<1>1. t = s /\ ~Served(s)
  BY DataRecvEffect
<1>2. /\ events' = [events EXCEPT ![f] = "absent"]
      /\ pending' = [pending EXCEPT ![f] = 0]
      /\ watch' = [x \in Session |-> IF fdOf[x] = f THEN "off" ELSE watch[x]]
  BY DataRecvEffect
<1> USE ReactorAssumption DEF IInv, Typed, Ownership, TypeOK
<1>3. /\ newborn = None /\ Live(s) /\ watch[s] = "on"
      /\ UNCHANGED <<idOf, fdOf, conn, sent, taken, sessions, newborn, pc, cur, aborted>>
      /\ sessionQ' = Append(sessionQ, t)
  BY DEF OnDataRecv, OnPushSession, kernelVars, reactorVars
<1>4. /\ Registered(s) /\ Held(s) /\ f \in Fd /\ idOf[s] \in Peer
  BY <1>3 DEF WatchedHasEvent, Held, Registered, Names
<1>5. OneReader' /\ \A x \in Session : Served(x)' <=> Served(x) \/ x = s
  BY <1>3, <1>1, PushServes DEF SingleOwner
<1> HIDE DEF f
<1>6. \A x \in Session : Held(x) /\ x # s => fdOf[x] # f
  BY <1>4 DEF Names, f
<1>7. \A x \in Session : Registered(x)' <=> Registered(x)
  BY <1>3 DEF Registered
<1>8. \A x \in Session : Held(x)' <=> Held(x)
  BY <1>3, <1>7 DEF Held
<1>9. Names' /\ Unused'
  BY <1>3, <1>4, <1>2, <1>5, <1>8 DEF Names, Unused
<1>10. SingleOwner' /\ ServedIsRegistered'
  BY <1>3, <1>4, <1>2, <1>5, <1>7, f = fdOf[s] DEF SingleOwner, ServedIsRegistered, f
<1>11. WatchedHasEvent'
  BY <1>3, <1>4, <1>2, <1>6, <1>7 DEF WatchedHasEvent, Held, Registered, Names
<1>12. ServedHasNoEvent'
  <2>1. ASSUME NEW x \in Session, Served(x)' PROVE pending'[fdOf[x]] = 0
    BY <2>1, <1>4, <1>2, <1>5 DEF ServedHasNoEvent, ServedIsRegistered, Registered, Names, f
  <2>2. \A g \in Fd : events'[g] # "fired"
    BY <1>2 DEF ServedHasNoEvent
  <2> QED
    BY <2>1, <2>2, <1>3 DEF ServedHasNoEvent
<1>13. UnwatchedIsStale'
  <2>1. ASSUME NEW x \in Session, x # s, Registered(x)
        PROVE  watch'[x] = watch[x] /\ pending'[fdOf[x]] = pending[fdOf[x]]
    BY <2>1, <1>4, <1>2, <1>6 DEF Held, Registered, Names
  <2> QED
    BY <2>1, <1>3, <1>5, <1>7 DEF UnwatchedIsStale
<1>14. DeletesEnded' /\ AbortsOnlyOnReset'
  BY <1>3 DEF DeletesEnded, AbortsOnlyOnReset
<1> QED
  BY <1>9, <1>10, <1>11, <1>12, <1>13, <1>14

LEMMA AbortOwnership ==
  ASSUME IInv, NEW s \in Session, OnDataRecvAborts(s)
  PROVE  Ownership'
<1> USE ReactorAssumption DEF IInv, Typed, Ownership, TypeOK
<1>1. /\ UNCHANGED <<idOf, fdOf, conn, sent, taken, sessions, events, pending, watch,
                     newborn, sessionQ, pc, cur>>
      /\ watch[s] = "on" /\ None \in {GetSession(addr) : addr \in PeerName(s)}
  BY DEF OnDataRecvAborts, kernelVars, eventVars, reactorVars
<1>2. Registered(s)
  BY <1>1 DEF WatchedHasEvent
<1>3. conn[s] = "reset"
  BY <1>1, <1>2 DEF PeerName, GetSession, Registered
<1>4. OneReader' /\ \A x \in Session : Served(x)' <=> Served(x)
  BY <1>1, SameServed DEF Serving, SingleOwner
<1>5. \A x \in Session : Registered(x)' <=> Registered(x)
  BY <1>1 DEF Registered
<1>6. \A x \in Session : Held(x)' <=> Held(x)
  BY <1>1, <1>5 DEF Held
<1>7. Names' /\ Unused' /\ SingleOwner' /\ ServedIsRegistered'
  BY <1>1, <1>4, <1>5, <1>6 DEF Names, Unused, SingleOwner, ServedIsRegistered
<1>8. WatchedHasEvent' /\ ServedHasNoEvent' /\ UnwatchedIsStale'
  BY <1>1, <1>4, <1>5 DEF WatchedHasEvent, ServedHasNoEvent, UnwatchedIsStale
<1>9. DeletesEnded' /\ AbortsOnlyOnReset'
  BY <1>1, <1>2, <1>3, <1>5 DEF DeletesEnded, AbortsOnlyOnReset
<1> QED
  BY <1>7, <1>8, <1>9

LEMMA DeleteOwnership ==
  ASSUME IInv, ~aborted, NEW r \in SubReactor, DeleteSession(r)
  PROVE  Ownership'
<1> USE ReactorAssumption DEF IInv, Typed, Ownership, TypeOK
<1> DEFINE s == cur[r]
<1>1. /\ pc[r] = "delete" /\ sessions' = [sessions EXCEPT ![idOf[s]] = None]
      /\ pc' = [pc EXCEPT ![r] = "idle"] /\ cur' = [cur EXCEPT ![r] = None]
      /\ UNCHANGED <<idOf, fdOf, conn, sent, taken, events, pending, watch,
                     newborn, sessionQ, aborted>>
  BY DEF DeleteSession, ReturnToLoop, PacketReleased, kernelVars, eventVars
<1>2. s \in Session /\ Serving(r) /\ Served(s) /\ Registered(s) /\ idOf[s] \in Peer
  BY <1>1 DEF BusyHasSession, Serving, Served, ServedIsRegistered, Registered
<1>3. OneReader' /\ \A x \in Session : Served(x)' <=> Served(x) /\ x # s
  <2>1. \A q \in SubReactor : Serving(q)' <=> (Serving(q) /\ q # r)
    BY <1>1 DEF Serving
  <2>2. \A q \in SubReactor : q # r => cur'[q] = cur[q]
    BY <1>1
  <2> QED
    BY <2>1, <2>2, <1>1, <1>2, StopServes DEF SingleOwner
<1> HIDE DEF s
<1>4. \A x \in Session : Registered(x)' <=> Registered(x) /\ x # s
  BY <1>1, <1>2 DEF Registered
<1>5. \A x \in Session : Held(x)' => Held(x)
  BY <1>1, <1>4 DEF Held
<1>6. Names' /\ Unused'
  BY <1>1, <1>3, <1>5 DEF Names, Unused
<1>7. SingleOwner' /\ ServedIsRegistered'
  BY <1>1, <1>3, <1>4 DEF SingleOwner, ServedIsRegistered
<1>8. WatchedHasEvent' /\ ServedHasNoEvent' /\ UnwatchedIsStale'
  BY <1>1, <1>2, <1>3, <1>4
     DEF WatchedHasEvent, ServedHasNoEvent, UnwatchedIsStale, SingleOwner
<1>9. DeletesEnded' /\ AbortsOnlyOnReset'
  BY <1>1 DEF DeletesEnded, AbortsOnlyOnReset
<1> QED
  BY <1>6, <1>7, <1>8, <1>9

LEMMA RearmOwnership ==
  ASSUME IInv, ~aborted, NEW r \in SubReactor, Rearm(r)
  PROVE  Ownership'
<1> USE ReactorAssumption DEF IInv, Typed, Ownership, TypeOK
<1> DEFINE s == cur[r]
           f == fdOf[s]
<1>1. /\ pc[r] = "rearm" /\ pc' = [pc EXCEPT ![r] = "push"]
      /\ UNCHANGED <<idOf, fdOf, conn, sent, taken, sessions, newborn, sessionQ, cur, aborted>>
      /\ \E edge \in {"on", "spent"} : AddEvent(s, edge)
  BY DEF Rearm, kernelVars
<1>2. s \in Session /\ Serving(r) /\ Served(s) /\ Registered(s) /\ Held(s) /\ f \in Fd
  BY <1>1 DEF BusyHasSession, Serving, Served, ServedIsRegistered, Held, Registered, Names
<1>3. OneReader' /\ \A x \in Session : Served(x)' <=> Served(x) /\ x # s
  <2>1. \A q \in SubReactor : Serving(q)' <=> (Serving(q) /\ q # r)
    BY <1>1 DEF Serving
  <2> QED
    BY <2>1, <1>1, <1>2, StopServes DEF SingleOwner
<1>4. pending[f] = 0 /\ events[f] = "absent"
  BY <1>2 DEF ServedHasNoEvent, EventsAreCounted
<1>5. /\ pending' = [pending EXCEPT ![f] = 1]
      /\ \A g \in Fd : events'[g] = IF g = f THEN "live" ELSE events[g]
      /\ watch'[s] # "off"
      /\ \A x \in Session : x # s => watch'[x] = watch[x]
  BY <1>1, <1>2, <1>4, AddEventEffect
<1> HIDE DEF s, f
<1>6. \A x \in Session : Held(x) /\ x # s => fdOf[x] # f
  BY <1>2 DEF Names, f
<1>7. \A x \in Session : Registered(x)' <=> Registered(x)
  BY <1>1 DEF Registered
<1>8. \A x \in Session : Held(x)' <=> Held(x)
  BY <1>1, <1>7 DEF Held
<1>9. Names' /\ Unused'
  BY <1>1, <1>2, <1>3, <1>5, <1>8 DEF Names, Unused, Registered
<1>10. SingleOwner' /\ ServedIsRegistered'
  BY <1>1, <1>3, <1>5, <1>7 DEF SingleOwner, ServedIsRegistered
<1>11. ASSUME NEW x \in Session, Registered(x), x # s
       PROVE  /\ pending'[fdOf[x]] = pending[fdOf[x]] /\ events'[fdOf[x]] = events[fdOf[x]]
              /\ watch'[x] = watch[x]
  BY <1>11, <1>5, <1>6 DEF Held, Registered, Names
<1>12. WatchedHasEvent'
  <2> SUFFICES ASSUME NEW x \in Session, watch'[x] # "off"
               PROVE  /\ Registered(x)' /\ pending'[fdOf'[x]] = 1
                      /\ events'[fdOf'[x]] = "live"
    BY DEF WatchedHasEvent
  <2>1. CASE x = s
    BY <2>1, <1>1, <1>2, <1>5, <1>7 DEF f
  <2>2. CASE x # s
    BY <2>2, <1>1, <1>5, <1>7, <1>11 DEF WatchedHasEvent
  <2> QED
    BY <2>1, <2>2
<1>13. ServedHasNoEvent'
  BY <1>1, <1>3, <1>5, <1>11 DEF ServedHasNoEvent, ServedIsRegistered
<1>14. UnwatchedIsStale'
  BY <1>1, <1>3, <1>5, <1>7, <1>11 DEF UnwatchedIsStale
<1>15. DeletesEnded' /\ AbortsOnlyOnReset'
  BY <1>1 DEF DeletesEnded, AbortsOnlyOnReset
<1> QED
  BY <1>9, <1>10, <1>12, <1>13, <1>14, <1>15
-----------------------------------------------------------------------------
(* The edges.  A session that is queued or read has had something happen to *)
(* it, and one whose edge was used up has been read from before.            *)

LEMMA EdgesInit == Init => Edges
<1> SUFFICES ASSUME Init PROVE Edges
  OBVIOUS
<1>1. \A s \in Session : ~Served(s)
  BY DEF Init, Served, Serving, Elements
<1> QED
  BY <1>1 DEF Init, Edges

(* A step that tells no thread anything new of a stream.                    *)
LEMMA EdgesKept ==
  ASSUME Edges, UNCHANGED <<conn, sent, taken>>,
         \A x \in Session : Served(x)' => Served(x),
         \A q \in SubReactor : pc'[q] = "rearm" => pc[q] = "rearm" /\ cur'[q] = cur[q],
         \A x \in Session : watch'[x] = "spent" => watch[x] = "spent"
  PROVE  Edges'
<1>1. \A s \in Session : Served(s)' => (sent[s] > 0 \/ conn[s] # "open")'
  BY DEF Edges
<1>2. \A q \in SubReactor : (pc[q] = "rearm")' => (taken[cur[q]] > 0)'
  BY DEF Edges
<1>3. \A s \in Session : (watch[s] = "spent")' => LostEdge(s)'
  BY DEF Edges, LostEdge, Ready
<1> QED
  BY <1>1, <1>2, <1>3 DEF Edges

LEMMA PeerEdges ==
  ASSUME IInv, NEW s \in Session, PeerStep(s)
  PROVE  Edges'
<1>1. /\ UNCHANGED <<taken, sessionQ, pc, cur>>
      /\ \A x \in Session : x # s => /\ conn'[x] = conn[x] /\ sent'[x] = sent[x]
                                     /\ watch'[x] = watch[x]
      /\ watch'[s] # "spent"
  BY DEF PeerStep, PeerSend, PeerEnd, eventVars, reactorVars, IInv, Typed, TypeOK
<1>2. sent'[s] > 0 \/ conn'[s] # "open"
  <2>1. sent \in [Session -> 0..MaxUnits] /\ conn \in [Session -> {"open", "fin", "reset"}]
    BY DEF IInv, Typed, TypeOK
  <2>2. CASE PeerSend(s)
    BY <2>1, <2>2, ReactorAssumption DEF PeerSend
  <2>3. ASSUME NEW how \in {"fin", "reset"}, PeerEnd(s, how) PROVE conn'[s] # "open"
    BY <2>1, <2>3 DEF PeerEnd
  <2> QED
    BY <2>2, <2>3 DEF PeerStep
<1>3. \A x \in Session : Served(x)' <=> Served(x)
  BY <1>1, SameServed DEF Serving
<1>4. \A x \in Session : Served(x)' => (sent[x] > 0 \/ conn[x] # "open")'
  BY <1>1, <1>2, <1>3 DEF IInv, Edges
<1>5. \A q \in SubReactor : (pc[q] = "rearm")' => (taken[cur[q]] > 0)'
  BY <1>1 DEF IInv, Edges
<1>6. \A x \in Session : (watch[x] = "spent")' => LostEdge(x)'
  BY <1>1 DEF IInv, Edges, LostEdge, Ready
<1> QED
  BY <1>4, <1>5, <1>6 DEF Edges

LEMMA SelectorEdges ==
  ASSUME OwnName, IInv, NEW s \in Session, SelectorStep(s)
  PROVE  Edges'
<1>1. ASSUME NEW p \in Peer, NEW f \in Fd, Accept(p, s, f) PROVE Edges'
  <2>1. UNCHANGED <<conn, sent, taken, watch, sessionQ, pc, cur>>
    BY <1>1 DEF Accept, eventVars, reactorVars
  <2>2. \A x \in Session : Served(x)' <=> Served(x)
    BY <2>1, SameServed DEF Serving
  <2> QED
    BY <2>1, <2>2, EdgesKept DEF IInv
<1>2. ASSUME NEW t \in Session, NEW inMap \in BOOLEAN, OnDataRecv(s, t, inMap)
      PROVE  Edges'
  <2>1. /\ t = s /\ ~Served(s)
        /\ watch' = [x \in Session |-> IF fdOf[x] = fdOf[s] THEN "off" ELSE watch[x]]
    BY <1>2, DataRecvEffect
  <2>2. /\ UNCHANGED <<conn, sent, taken, pc, cur>> /\ Ready(s)
        /\ sessionQ' = Append(sessionQ, t)
    BY <1>2 DEF OnDataRecv, OnPushSession, kernelVars, reactorVars
  <2>3. \A x \in Session : Served(x)' <=> Served(x) \/ x = s
    BY <2>1, <2>2, PushServes DEF IInv, Ownership, SingleOwner
  <2>4. sent[s] > 0 \/ conn[s] # "open"
    <3>1. sent[s] \in Nat /\ taken[s] \in Nat
      BY ReactorAssumption DEF IInv, Typed, TypeOK
    <3> QED
      BY <2>2, <3>1 DEF Ready
  <2>5. \A x \in Session : Served(x)' => (sent[x] > 0 \/ conn[x] # "open")'
    BY <2>2, <2>3, <2>4 DEF IInv, Edges
  <2>6. \A q \in SubReactor : (pc[q] = "rearm")' => (taken[cur[q]] > 0)'
    BY <2>2 DEF IInv, Edges
  <2>7. \A x \in Session : (watch[x] = "spent")' => LostEdge(x)'
    BY <2>1, <2>2 DEF IInv, Edges, LostEdge, Ready
  <2> QED
    BY <2>5, <2>6, <2>7 DEF Edges
<1>3. ASSUME OnDataRecvAborts(s) PROVE Edges'
  <2>1. UNCHANGED <<conn, sent, taken, watch, sessionQ, pc, cur>>
    BY <1>3 DEF OnDataRecvAborts, kernelVars, eventVars, reactorVars
  <2>2. \A x \in Session : Served(x)' <=> Served(x)
    BY <2>1, SameServed DEF Serving
  <2> QED
    BY <2>1, <2>2, EdgesKept DEF IInv
<1> QED
  BY <1>1, <1>2, <1>3 DEF SelectorStep

LEMMA ListenEdges == ASSUME IInv, ListenToNewborn PROVE Edges'
<1>1. /\ UNCHANGED <<conn, sent, taken, sessionQ, pc, cur>>
      /\ \A x \in Session : watch'[x] = "spent" => watch[x] = "spent"
  BY DEF ListenToNewborn, AddEvent, Registers, kernelVars, eventVars, reactorVars,
         IInv, Typed, TypeOK
<1>2. \A x \in Session : Served(x)' <=> Served(x)
  BY <1>1, SameServed DEF Serving, IInv, Ownership, SingleOwner
<1> QED
  BY <1>1, <1>2, EdgesKept DEF IInv

LEMMA ReactorEdges ==
  ASSUME IInv, NEW r \in SubReactor, ReactorStep(r)
  PROVE  Edges'
<1> DEFINE s == cur[r]
<1>1. /\ pc \in [SubReactor -> {"idle", "read", "rearm", "delete", "push"}]
      /\ cur \in [SubReactor -> Session \cup {None}]
      /\ sent \in [Session -> 0..MaxUnits] /\ taken \in [Session -> 0..MaxUnits]
      /\ MaxUnits \in Nat /\ watch \in [Session -> {"off", "on", "spent"}]
      /\ OneReader /\ Edges /\ Typed
      /\ pc[r] # "idle" => s \in Session
      /\ Serving(r) => Served(s) /\ watch[s] = "off"
  BY ReactorAssumption
     DEF IInv, Typed, TypeOK, BusyHasSession, Ownership, SingleOwner, Served, Serving
<1>2. CASE TakeSession(r)
  <2>1. UNCHANGED <<conn, sent, taken, watch>>
    BY <1>2 DEF TakeSession, kernelVars, eventVars
  <2>2. \A q \in SubReactor : pc'[q] = "rearm" => pc[q] = "rearm" /\ cur'[q] = cur[q]
    BY <1>1, <1>2 DEF TakeSession
  <2> QED
    BY <1>1, <1>2, <2>1, <2>2, TakeServes, EdgesKept
<1>3. CASE ReadData(r)
  <2>1. /\ UNCHANGED <<conn, sent, watch, sessionQ, pc, cur>> /\ pc[r] = "read"
        /\ \E n \in taken[s] + 1 .. sent[s] : taken' = [taken EXCEPT ![s] = n]
    BY <1>3 DEF ReadData, kernelVars, eventVars
  <2>2. \A x \in Session : taken'[x] >= taken[x] /\ (x # s => taken'[x] = taken[x])
    BY <1>1, <2>1
  <2>3. \A x \in Session : Served(x)' <=> Served(x)
    BY <2>1, SameServed DEF Serving
  <2>4. \A x \in Session : Served(x)' => (sent[x] > 0 \/ conn[x] # "open")'
    BY <1>1, <2>1, <2>3 DEF Edges
  <2>5. ASSUME NEW q \in SubReactor, (pc[q] = "rearm")' PROVE (taken[cur[q]] > 0)'
    <3>1. pc[q] = "rearm" /\ cur'[q] = cur[q] /\ cur[q] \in Session /\ taken[cur[q]] > 0
      BY <1>1, <2>1, <2>5 DEF Edges, Typed, BusyHasSession
    <3>2. taken'[cur[q]] >= taken[cur[q]] /\ taken[cur[q]] \in Nat /\ taken'[cur[q]] \in Int
      BY <1>1, <2>1, <2>2, <3>1
    <3> QED
      BY <3>1, <3>2
  <2>6. ASSUME NEW x \in Session, (watch[x] = "spent")' PROVE LostEdge(x)'
    <3>1. x # s /\ watch[x] = "spent"
      BY <1>1, <2>1, <2>6 DEF Serving
    <3> QED
      BY <1>1, <2>1, <2>2, <3>1 DEF Edges, LostEdge, Ready
  <2> QED
    BY <2>4, <2>5, <2>6 DEF Edges
<1>4. CASE ReadStops(r)
  <2>1. /\ UNCHANGED <<conn, sent, taken, watch, sessionQ, cur>>
        /\ pc[r] = "read" /\ taken[s] = sent[s]
        /\ pc' = [pc EXCEPT ![r] = IF conn[s] = "open" THEN "rearm" ELSE "delete"]
    BY <1>4 DEF ReadStops, StopsWith, kernelVars, eventVars
  <2>2. \A q \in SubReactor : Serving(q)' <=> Serving(q)
    BY <1>1, <2>1 DEF Serving
  <2>3. \A x \in Session : Served(x)' <=> Served(x)
    BY <2>1, <2>2, SameServed
  <2>4. \A x \in Session : Served(x)' => (sent[x] > 0 \/ conn[x] # "open")'
    BY <1>1, <2>1, <2>3 DEF Edges
  <2>5. s \in Session /\ (sent[s] > 0 \/ conn[s] # "open")
    BY <1>1, <2>1 DEF Edges, Serving
  <2>6. \A q \in SubReactor : (pc[q] = "rearm")' => (taken[cur[q]] > 0)'
    BY <1>1, <2>1, <2>5 DEF Edges
  <2>7. \A x \in Session : (watch[x] = "spent")' => LostEdge(x)'
    BY <1>1, <2>1 DEF Edges, LostEdge, Ready
  <2> QED
    BY <2>4, <2>6, <2>7 DEF Edges
<1>5. CASE Rearm(r)
  <2>1. /\ UNCHANGED <<idOf, fdOf, sessions, conn, sent, taken, sessionQ, cur>>
        /\ pc[r] = "rearm" /\ pc' = [pc EXCEPT ![r] = "push"]
    BY <1>5 DEF Rearm, kernelVars
  <2>2. PICK edge \in {"on"} \cup (IF EdgeRace /\ Ready(s) THEN {"spent"} ELSE {}) :
          AddEvent(s, edge)
    BY <1>5 DEF Rearm
  <2>3. s \in Session /\ taken[s] > 0
    BY <1>1, <2>1 DEF Edges
  <2>4. \A x \in Session : watch'[x] = "spent" =>
          watch[x] = "spent" \/ (x = s /\ EdgeRace /\ Ready(s))
    BY <1>1, <2>2, <2>3 DEF AddEvent, Registers
  <2>5. \A q \in SubReactor : Serving(q)' <=> (Serving(q) /\ q # r)
    BY <1>1, <2>1 DEF Serving
  <2>6. Serving(r)
    BY <2>1 DEF Serving
  <2>7. \A x \in Session : Served(x)' => Served(x)
    BY <1>1, <2>1, <2>5, <2>6, StopServes
  <2>8. \A x \in Session : Served(x)' => (sent[x] > 0 \/ conn[x] # "open")'
    BY <1>1, <2>1, <2>7 DEF Edges
  <2>9. \A q \in SubReactor : (pc[q] = "rearm")' => (taken[cur[q]] > 0)'
    BY <1>1, <2>1 DEF Edges
  <2>10. ASSUME NEW x \in Session, (watch[x] = "spent")' PROVE LostEdge(x)'
    BY <1>1, <2>1, <2>3, <2>4, <2>10 DEF Edges, LostEdge, Ready
  <2> QED
    BY <2>8, <2>9, <2>10 DEF Edges
<1>6. CASE DeleteSession(r) \/ PushMessage(r)
  <2>1. /\ UNCHANGED <<conn, sent, taken, watch, sessionQ>>
        /\ pc' = [pc EXCEPT ![r] = "idle"] /\ cur' = [cur EXCEPT ![r] = None]
    BY <1>6 DEF DeleteSession, PushMessage, ReturnToLoop, PacketReleased, kernelVars, eventVars
  <2>2. \A q \in SubReactor : pc'[q] = "rearm" => pc[q] = "rearm" /\ cur'[q] = cur[q]
    BY <1>1, <2>1
  <2>3. \A q \in SubReactor : Serving(q)' => Serving(q) /\ cur'[q] = cur[q]
    BY <1>1, <2>1 DEF Serving
  <2>4. \A x \in Session : Served(x)' => Served(x)
    BY <2>1, <2>3 DEF Served, Elements
  <2> QED
    BY <1>1, <2>1, <2>2, <2>4, EdgesKept
<1> QED
  BY <1>2, <1>3, <1>4, <1>5, <1>6 DEF ReactorStep

LEMMA WorkerEdges ==
  ASSUME IInv, NEW w \in ServiceWorker, WorkerStep(w)
  PROVE  Edges'
<1>1. UNCHANGED <<conn, sent, taken, watch, sessionQ, pc, cur>>
  BY DEF WorkerStep, TakeMessage, FinishMessage, kernelVars, eventVars, reactorVars
<1>2. \A x \in Session : Served(x)' <=> Served(x)
  BY <1>1, SameServed DEF Serving
<1> QED
  BY <1>1, <1>2, EdgesKept DEF IInv

LEMMA EdgesStep == IInv /\ [Next /\ OwnName]_vars => Edges'
<1> SUFFICES ASSUME IInv, [Next /\ OwnName]_vars PROVE Edges'
  OBVIOUS
<1>1. CASE Next /\ OwnName
  BY <1>1, PeerEdges, SelectorEdges, ListenEdges, ReactorEdges, WorkerEdges DEF Next
<1>2. CASE UNCHANGED vars
  <2>1. UNCHANGED <<conn, sent, taken, watch, sessionQ, pc, cur>>
    BY <1>2 DEF vars, kernelVars, eventVars, reactorVars
  <2>2. \A x \in Session : Served(x)' <=> Served(x)
    BY <2>1, SameServed DEF Serving
  <2> QED
    BY <2>1, <2>2, EdgesKept DEF IInv
<1> QED
  BY <1>1, <1>2
-----------------------------------------------------------------------------
LEMMA OwnershipStep == IInv /\ [Next /\ OwnName]_vars => IInv'
<1> SUFFICES ASSUME IInv, [Next /\ OwnName]_vars PROVE IInv'
  OBVIOUS
<1>1. Typed' /\ Edges'
  BY TypedStep, EdgesStep DEF IInv
<1>2. CASE Next /\ OwnName
  <2>1. ASSUME NEW s \in Session, SelectorStep(s), ~aborted PROVE Ownership'
    BY <1>2, <2>1, AcceptOwnership, DataRecvOwnership, AbortOwnership DEF SelectorStep
  <2>2. ASSUME NEW r \in SubReactor, ReactorStep(r), ~aborted PROVE Ownership'
    BY <2>2, TakeOwnership, ReadOwnership, DeleteOwnership, RearmOwnership DEF ReactorStep
  <2> QED
    BY <1>2, <2>1, <2>2, PeerOwnership, ListenOwnership, WorkerOwnership, <1>1 DEF Next, IInv
<1>3. CASE UNCHANGED vars
  <2>1. Ownership'
    BY <1>3 DEF IInv, Ownership, vars, kernelVars, eventVars, reactorVars, workerVars,
       Names, Unused, SingleOwner, OneReader, Served, Serving, Elements, Registered, Held,
       ServedIsRegistered, WatchedHasEvent, ServedHasNoEvent, UnwatchedIsStale,
       DeletesEnded, AbortsOnlyOnReset
  <2> QED
    BY <2>1, <1>1 DEF IInv
<1> QED
  BY <1>2, <1>3

LEMMA InvariantInit == Init => IInv
BY TypedInit, OwnershipInit, EdgesInit DEF IInv

(* IInv is an invariant of every process in which the address of a reset    *)
(* connection names that connection or none, whatever it happens to hold.   *)
THEOREM Invariant == OwnNameSpec => []IInv
<1>1. Init => IInv
  BY InvariantInit
<1>2. IInv /\ [Next /\ OwnName]_vars => IInv'
  BY OwnershipStep
<1> QED
  BY <1>1, <1>2, PTL DEF OwnNameSpec

(* It is so where no peer but the connection's own has an address that the  *)
(* sockaddr_in may hold (StaleAddr = {}, or a single peer): a connection    *)
(* that is watched is the one registered under its address.                 *)
THEOREM NoStaleName ==
  ASSUME \A p \in StaleAddr : \A q \in Peer : q = p PROVE Spec => OwnNameSpec
<1>1. ASSUME IInv PROVE OwnName
  <2> SUFFICES ASSUME NEW s \in Session, NEW t \in Session, NEW inMap \in BOOLEAN,
                      OnDataRecv(s, t, inMap)
               PROVE  t = s
    BY DEF OwnName
  <2>1. watch[s] = "on"
    BY DEF OnDataRecv
  <2>2. Registered(s) /\ idOf[s] \in Peer
    BY <1>1, <2>1 DEF IInv, Typed, TypeOK, Ownership, WatchedHasEvent, Registered
  <2>3. PeerName(s) \subseteq {idOf[s], None}
    BY <2>2, ReactorAssumption DEF PeerName
  <2> QED
    BY <2>2, <2>3 DEF OnDataRecv, GetSession, Registered
<1>2. IInv /\ [Next]_vars => [Next /\ OwnName]_vars
  BY <1>1
<1>3. IInv /\ [Next]_vars => IInv'
  BY <1>2, OwnershipStep
<1> QED
  BY <1>2, <1>3, InvariantInit, PTL DEF Spec, OwnNameSpec

(* It is so, too, whatever addresses the sockaddr_in may hold, as long as   *)
(* no peer resets its connection: getpeername then never fails.             *)
THEOREM OrderlyName ==
  Spec /\ [](\A s \in Session : conn[s] # "reset") => OwnNameSpec
<1> DEFINE Orderly == \A s \in Session : conn[s] # "reset"
<1>1. ASSUME IInv, Orderly PROVE OwnName
  <2> SUFFICES ASSUME NEW s \in Session, NEW t \in Session, NEW inMap \in BOOLEAN,
                      OnDataRecv(s, t, inMap)
               PROVE  t = s
    BY DEF OwnName
  <2>1. watch[s] = "on" /\ conn[s] # "reset"
    BY <1>1 DEF OnDataRecv
  <2>2. Registered(s) /\ idOf[s] # None
    BY <1>1, <2>1 DEF IInv, Ownership, WatchedHasEvent, Registered
  <2> QED
    BY <2>1, <2>2 DEF OnDataRecv, PeerName, GetSession, Registered
<1> HIDE DEF Orderly
<1>2. IInv /\ Orderly /\ [Next]_vars => [Next /\ OwnName]_vars
  BY <1>1
<1>3. IInv /\ Orderly /\ [Next]_vars => IInv'
  BY <1>2, OwnershipStep
<1>4. Spec /\ []Orderly => OwnNameSpec
  BY <1>2, <1>3, InvariantInit, PTL DEF Spec, OwnNameSpec
<1> QED
  BY <1>4 DEF Orderly

(* SubReactor::OnDataRecv never has a second reader on its socket: a        *)
(* session is watched, queued or read, and by one sub-reactor.              *)
THEOREM SingleOwnership == OwnNameSpec => []SingleOwner
<1>1. IInv => SingleOwner
  BY DEF IInv, Ownership
<1> QED
  BY <1>1, Invariant, PTL

(* DeleteSession(session_id) never removes another connection's session.    *)
THEOREM ServedRegistered == OwnNameSpec => []ServedIsRegistered
<1>1. IInv => ServedIsRegistered
  BY DEF IInv, Ownership
<1> QED
  BY <1>1, Invariant, PTL

(* A registered session the loop does not look at and no thread has is one  *)
(* of two: its descriptor has a stale event, which is why epoll was never   *)
(* told of it; or the edge was used up when a sub-reactor put the event     *)
(* back, and then it has been read from, and something has come since.      *)
(* UnwatchedIsStale gives the first, and Edges follows the second from the  *)
(* event that made a sub-reactor take the session to the one it put back.   *)
THEOREM OutOfReachByEvent == OwnNameSpec => []OutOfReachOnlyByEvent
<1>1. ASSUME IInv PROVE OutOfReachOnlyByEvent
  <2> SUFFICES ASSUME NEW s \in Session, OutOfReach(s) PROVE StaleEvent(s) \/ LostEdge(s)
    BY DEF OutOfReachOnlyByEvent
  <2>1. watch[s] \in {"off", "spent"} /\ fdOf[s] \in Fd
    BY <1>1 DEF OutOfReach, Registered, IInv, Typed, TypeOK, Ownership, Names
  <2>2. CASE watch[s] = "off"
    BY <1>1, <2>1, <2>2 DEF OutOfReach, IInv, Ownership, UnwatchedIsStale, StaleEvent
  <2>3. CASE watch[s] = "spent"
    BY <1>1, <2>3 DEF IInv, Edges
  <2> QED
    BY <2>1, <2>2, <2>3
<1> QED
  BY <1>1, Invariant, PTL

(* CHECK_NOTNULL(session.get()) fails only for a connection its peer reset. *)
THEOREM OnlyResetsAbort == OwnNameSpec => []AbortsOnlyOnReset
<1>1. IInv => AbortsOnlyOnReset
  BY DEF IInv, Ownership
<1> QED
  BY <1>1, Invariant, PTL

(* A session is only unregistered once its own peer has ended the           *)
(* connection and all it sent has been read: DeletesEnded says so of the    *)
(* session the sub-reactor holds, ServedIsRegistered that it is the one     *)
(* erased.                                                                  *)
THEOREM UnregisteredAtEnd == OwnNameSpec => UnregisteredOnlyAtEnd
<1> DEFINE AtEnd ==
      \A p \in Peer :
        sessions[p] # None /\ sessions'[p] # sessions[p] =>
          /\ sessions'[p] = None
          /\ conn[sessions[p]] # "open"
          /\ taken[sessions[p]] = sent[sessions[p]]
<1>1. ASSUME IInv, [Next /\ OwnName]_vars PROVE [AtEnd]_vars
  <2> SUFFICES ASSUME Next, NEW p \in Peer, sessions[p] # None, sessions'[p] # sessions[p]
               PROVE  /\ sessions'[p] = None
                      /\ conn[sessions[p]] # "open"
                      /\ taken[sessions[p]] = sent[sessions[p]]
    BY <1>1
  <2>1. sessions \in [Peer -> Session \cup {None}]
    BY <1>1 DEF IInv, Typed, TypeOK
  <2>2. PICK r \in SubReactor : DeleteSession(r)
    <3>1. ASSUME NEW s \in Session, PeerStep(s) PROVE FALSE
      BY <3>1 DEF PeerStep, PeerSend, PeerEnd
    <3>2. ASSUME NEW s \in Session, SelectorStep(s) PROVE FALSE
      BY <3>2, <2>1 DEF SelectorStep, Accept, AddSession, OnDataRecv, OnDataRecvAborts
    <3>3. ASSUME ListenToNewborn PROVE FALSE
      BY <3>3 DEF ListenToNewborn
    <3>4. ASSUME NEW r \in SubReactor, ReactorStep(r), ~DeleteSession(r) PROVE FALSE
      BY <3>4 DEF ReactorStep, TakeSession, Popped, ReadData, ReadStops, StopsWith, Rearm, PushMessage
    <3>5. ASSUME NEW w \in ServiceWorker, WorkerStep(w) PROVE FALSE
      BY <3>5 DEF WorkerStep, TakeMessage, FinishMessage
    <3> QED
      BY <3>1, <3>2, <3>3, <3>4, <3>5 DEF Next
  <2>3. /\ pc[r] = "delete" /\ sessions' = [sessions EXCEPT ![idOf[cur[r]]] = None]
        /\ p = idOf[cur[r]]
    BY <2>1, <2>2 DEF DeleteSession
  <2>4. Served(cur[r]) /\ cur[r] \in Session
    BY <1>1, <2>3 DEF IInv, Typed, TypeOK, BusyHasSession, Served, Serving
  <2>5. sessions[p] = cur[r]
    BY <1>1, <2>3, <2>4 DEF IInv, Ownership, ServedIsRegistered, Registered
  <2> QED
    BY <1>1, <2>1, <2>3, <2>5 DEF IInv, Ownership, DeletesEnded
<1> QED
  BY <1>1, Invariant, PTL DEF OwnNameSpec, UnregisteredOnlyAtEnd
=============================================================================
