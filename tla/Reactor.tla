------------------------------ MODULE Reactor ------------------------------
(***************************************************************************)
(* The life of a connection in sc_netfw: the acceptor's selector thread    *)
(* takes connections and readiness events from libevent, the sub-reactors  *)
(* take sessions from SessionDemutiplexor's queue, drain their sockets,    *)
(* put the one-shot read event back and push what they read to             *)
(* MessageDemutiplexor's queue, whose workers answer it.                   *)
(*                                                                         *)
(* Every step is what one thread does between two points where another     *)
(* thread can see the difference: one critical section, one system call,   *)
(* or one libevent call.  The two queues are used here as their mutex and  *)
(* condition variable make them appear, a FIFO queue with atomic push and  *)
(* pop.                                                                    *)
(***************************************************************************)
EXTENDS Integers, Sequences, FiniteSets

CONSTANTS
  Peer,          \* remote addresses; "ip:port" is also the session_id
  Session,       \* SessionImpl objects, a fresh one for every accept()
  Fd,            \* descriptor numbers the kernel can hand out
  SubReactor,    \* sub-reactor threads
  ServiceWorker, \* threads of the pool
  MaxUnits,      \* bound: units of data one connection sends
  StaleAddr,     \* addresses an uninitialised sockaddr_in may happen to hold
  EdgeRace,      \* may an event_add outside the loop's thread lose its edge?
  None           \* nullptr, -1, an address nobody has

ASSUME ReactorAssumption ==
  /\ MaxUnits \in Nat
  /\ StaleAddr \subseteq Peer
  /\ EdgeRace \in BOOLEAN
  /\ None \notin Peer \cup Session \cup Fd

(* get_nprocs_conf() of each.                                               *)
ASSUME ThreadsAssumption == IsFiniteSet(SubReactor) /\ IsFiniteSet(ServiceWorker)

VARIABLES
  \* the kernel's side of a connection
  idOf,       \* remote address of a session, None before accept()
  fdOf,       \* its descriptor
  conn,       \* "open", or how the peer ended it: "fin" or "reset"
  sent,       \* units the peer has sent
  taken,      \* units read() has returned
  \* SessionManager
  sessions,   \* sessions_: address -> registered session or None
  \* Selector and libevent
  events,     \* events_: what the map holds for a descriptor
  pending,    \* number of pending events libevent has for a descriptor
  watch,      \* epoll's registration of a session's open descriptor
  newborn,    \* the session OnAcceptedCallback is working on, or None
  \* SessionDemutiplexor and SubReactor
  sessionQ,   \* sessions_ : sessions to read from
  pc, cur,    \* what a sub-reactor is doing, and with which session
  datagram,   \* the units it has put into its DataPacket
  \* MessageDemutiplexor and ServiceWorker
  msgQ,       \* queue_: contexts waiting for a worker
  work,       \* the context a worker is handling, or None
  handled,    \* units ServiceHandler::OnHandler is done with
  aborted     \* a CHECK failed: glog has aborted the process

kernelVars == <<idOf, fdOf, conn, sent>>
eventVars  == <<events, pending, watch>>
reactorVars == <<pc, cur, datagram>>
workerVars == <<work, handled>>
vars == <<kernelVars, taken, sessions, eventVars, newborn, sessionQ,
          reactorVars, msgQ, workerVars, aborted>>

Units == 1..MaxUnits
Context == [session : Session, units : SUBSET Units]

ASSUME ContextAssumption == None \notin Context

Elements(q) == {q[i] : i \in DOMAIN q}
-----------------------------------------------------------------------------
(* shared_ptr<Session>: the objects somebody still refers to.  The last     *)
(* reference closes the descriptor, so these are the open descriptors.      *)
Live(s) ==
  \/ s = newborn
  \/ idOf[s] # None /\ sessions[idOf[s]] = s
  \/ s \in Elements(sessionQ)
  \/ \E r \in SubReactor : cur[r] = s
  \/ \E c \in Elements(msgQ) : c.session = s
  \/ \E w \in ServiceWorker : work[w] # None /\ work[w].session = s

(* Does epoll find the descriptor readable: data, end of stream or error.   *)
Ready(s) == taken[s] < sent[s] \/ conn[s] # "open"

GetSession(addr) == IF addr = None THEN None ELSE sessions[addr]

(* GetIpAdressBySocket and GetPortBySocket ignore getpeername's result: on  *)
(* a connection that was reset it fails with ENOTCONN, and what they return *)
(* is whatever the uninitialised sockaddr_in holds.                         *)
PeerName(s) == IF conn[s] = "reset" THEN StaleAddr \cup {None} ELSE {idOf[s]}

(* epoll's registration is touched only for a descriptor's first event (and *)
(* not, as in the wrong form, for every one), and the map keeps an entry it *)
(* already has.                                                             *)
RegisteredAgain(f, was, edge) == edge

Registers(f, was, edge) == IF pending[f] = 0 THEN edge ELSE was

NotRecorded(entry) == entry

Recorded(entry) == IF entry = "absent" THEN "live" ELSE entry

(* Selector::AddEvent on session s.                                         *)
AddEvent(s, edge) ==
  LET f == fdOf[s]
  IN  /\ pending' = [pending EXCEPT ![f] = @ + 1]
      /\ events'  = [events EXCEPT ![f] = Recorded(@)]
      /\ watch'   = [watch EXCEPT ![s] = Registers(f, @, edge)]

(* Selector::DeleteEvent: event_del of the event events_ holds for g; an    *)
(* event that has already run is no longer pending.                         *)
DeleteEventAlways(ev, pnd, g) == [pnd EXCEPT ![g] = @ - 1]

DeleteEvent(ev, pnd, g) == [pnd EXCEPT ![g] = IF ev[g] = "live" THEN @ - 1 ELSE @]
-----------------------------------------------------------------------------
(* The peers.                                                               *)

PeerSend(s) ==
  /\ Live(s) /\ conn[s] = "open" /\ sent[s] < MaxUnits
  /\ sent'  = [sent EXCEPT ![s] = @ + 1]
  /\ watch' = [watch EXCEPT ![s] = IF @ = "spent" THEN "on" ELSE @]
  /\ UNCHANGED <<idOf, fdOf, conn, taken, sessions, events, pending, newborn,
                 sessionQ, reactorVars, msgQ, workerVars, aborted>>

PeerEnd(s, how) ==
  /\ Live(s)
  /\ conn[s] = "open" \/ (conn[s] = "fin" /\ how = "reset")
  /\ conn'  = [conn EXCEPT ![s] = how]
  /\ watch' = [watch EXCEPT ![s] = IF @ = "spent" THEN "on" ELSE @]
  /\ UNCHANGED <<idOf, fdOf, sent, taken, sessions, events, pending, newborn,
                 sessionQ, reactorVars, msgQ, workerVars, aborted>>

-----------------------------------------------------------------------------
(* The selector thread.                                                     *)

(* SessionManager::AddSession keeps the session an address already has.     *)
AddSessionOverwrites(p, s) == sessions' = [sessions EXCEPT ![p] = s]

AddSession(p, s) == sessions' = [sessions EXCEPT ![p] = IF @ = None THEN s ELSE @]

(* OnAcceptedCallback: accept() a connection from p and register it.  A     *)
(* peer has a new connection from the same address only when its previous   *)
(* one is gone or reset.                                                    *)
Accept(p, s, f) ==
  /\ newborn = None
  /\ idOf[s] = None
  /\ \A x \in Session : Live(x) => fdOf[x] # f
  /\ \A x \in Session : Live(x) /\ idOf[x] = p => conn[x] = "reset"
  /\ newborn' = s
  /\ idOf' = [idOf EXCEPT ![s] = p]
  /\ fdOf' = [fdOf EXCEPT ![s] = f]
  /\ AddSession(p, s)
  /\ UNCHANGED <<conn, sent, taken, eventVars, sessionQ, reactorVars, msgQ,
                 workerVars, aborted>>

(* The rest of OnAcceptedCallback: if the address is registered, listen to  *)
(* the new descriptor; then the session goes out of scope, and unless it is *)
(* the registered one its descriptor is closed, which takes it out of epoll *)
(* but leaves the event in libevent and in events_.                         *)
ListenToNewborn ==
  /\ newborn # None
  /\ newborn' = None
  /\ LET owner == GetSession(idOf[newborn])
     IN  \/ owner = newborn /\ AddEvent(newborn, "on")
         \/ owner \notin {None, newborn} /\ AddEvent(newborn, "off")
         \/ owner = None /\ UNCHANGED eventVars
  /\ UNCHANGED <<kernelVars, taken, sessions, sessionQ, reactorVars, msgQ,
                 workerVars, aborted>>

(* SessionDemutiplexor::OnPushSession, reached through MainReactor's         *)
(* OnDataRecvNotify.                                                        *)
OnPushSession(s) == sessionQ' = Append(sessionQ, s)

(* The loop finds s readable, takes one of its one-shot events off the base *)
(* and calls OnDataRecv.  The session found under the address of the        *)
(* socket's peer, t, loses its event (OnDataRecvCallback calls DeleteEvent, *)
(* because the event is edge-triggered) and is pushed to the sub-reactors.  *)
(* inMap tells whether the event is the one events_ holds; libevent has     *)
(* others only where one was added twice.                                   *)
OnDataRecv(s, t, inMap) ==
  LET f   == fdOf[s]
      g   == fdOf[t]
      ev  == [events EXCEPT ![f] = IF inMap THEN "fired" ELSE @]
      pnd == [pending EXCEPT ![f] = @ - 1]
      Remaining == DeleteEvent(ev, pnd, g)
  IN  /\ newborn = None /\ watch[s] = "on"
      /\ Live(s) /\ Ready(s)
      /\ IF inMap THEN events[f] = "live"
                  ELSE pending[f] > (IF events[f] = "live" THEN 1 ELSE 0)
      /\ t # None /\ t \in {GetSession(addr) : addr \in PeerName(s)}
      /\ events'  = [ev EXCEPT ![g] = "absent"]
      /\ pending' = Remaining
      /\ watch'   = [x \in Session |->
                       IF fdOf[x] \in {f, g} /\ Remaining[fdOf[x]] = 0
                       THEN "off" ELSE watch[x]]
      /\ OnPushSession(t)
      /\ UNCHANGED <<kernelVars, taken, sessions, newborn, reactorVars, msgQ,
                     workerVars, aborted>>

(* The address names no session: CHECK_NOTNULL(session.get()) aborts.       *)
OnDataRecvAborts(s) ==
  /\ newborn = None /\ watch[s] = "on"
  /\ Live(s) /\ Ready(s)
  /\ None \in {GetSession(addr) : addr \in PeerName(s)}
  /\ aborted' = TRUE
  /\ UNCHANGED <<kernelVars, taken, sessions, eventVars, newborn, sessionQ,
                 reactorVars, msgQ, workerVars>>
-----------------------------------------------------------------------------
(* The sub-reactors.                                                        *)

(* OnSessionDispatch takes the oldest session and enters OnDataRecv.        *)
NotPopped(q) == q

Popped(q) == Tail(q)

TakeSession(r) ==
  /\ pc[r] = "idle" /\ sessionQ # <<>>
  /\ cur' = [cur EXCEPT ![r] = Head(sessionQ)]
  /\ sessionQ' = Popped(sessionQ)
  /\ pc' = [pc EXCEPT ![r] = "read"]
  /\ UNCHANGED <<kernelVars, taken, sessions, eventVars, newborn, datagram,
                 msgQ, workerVars, aborted>>

(* One turn of the read loop in SubReactor::OnDataRecv: read() returns some *)
(* of the data (n units in all so far), EAGAIN, or the end of the           *)
(* connection.  What was sent before the end is read before it.             *)
ReadData(r) ==
  LET s == cur[r]
  IN  /\ pc[r] = "read"
      /\ \E n \in taken[s] + 1 .. sent[s] :
           /\ taken' = [taken EXCEPT ![s] = n]
           /\ datagram' = [datagram EXCEPT ![r] = @ \cup (taken[s] + 1 .. n)]
      /\ UNCHANGED <<kernelVars, sessions, eventVars, newborn, sessionQ, pc,
                     cur, msgQ, workerVars, aborted>>

(* Where the loop goes when read() has no more data.  Wrong forms: on       *)
(* EAGAIN the session is not listened to again, or is deleted.              *)
StopsForGood(s) == IF conn[s] = "open" THEN "push" ELSE "delete"

StopsOnAgain(s) == "delete"

StopsWith(s) == IF conn[s] = "open" THEN "rearm" ELSE "delete"

ReadStops(r) ==
  LET s == cur[r]
  IN  /\ pc[r] = "read" /\ taken[s] = sent[s]
      /\ pc' = [pc EXCEPT ![r] = StopsWith(s)]
      /\ UNCHANGED <<kernelVars, taken, sessions, eventVars, newborn, sessionQ,
                     cur, datagram, msgQ, workerVars, aborted>>

(* Leave OnDataRecv: the references to the session and the packet go.       *)
PacketKept(units) == units

PacketReleased(units) == {}

ReturnToLoop(r) ==
  /\ pc' = [pc EXCEPT ![r] = "idle"]
  /\ cur' = [cur EXCEPT ![r] = None]
  /\ datagram' = [datagram EXCEPT ![r] = PacketReleased(@)]

(* read() returned 0 or an error: DeleteSession(session_id) and return.     *)
DeleteSession(r) ==
  /\ pc[r] = "delete"
  /\ sessions' = [sessions EXCEPT ![idOf[cur[r]]] = None]
  /\ ReturnToLoop(r)
  /\ UNCHANGED <<kernelVars, taken, eventVars, newborn, sessionQ, msgQ,
                 workerVars, aborted>>

(* ev_action_callbacks_: OnEventAction adds a new read event.  epoll may    *)
(* report the descriptor before this thread has put the event where the     *)
(* loop's thread looks for it; the edge is then used up (EdgeRace).         *)
Rearm(r) ==
  /\ pc[r] = "rearm"
  /\ \E edge \in {"on"} \cup (IF EdgeRace /\ Ready(cur[r]) THEN {"spent"} ELSE {}) :
       AddEvent(cur[r], edge)
  /\ pc' = [pc EXCEPT ![r] = "push"]
  /\ UNCHANGED <<kernelVars, taken, sessions, newborn, sessionQ, cur, datagram,
                 msgQ, workerVars, aborted>>

(* MessageDemutiplexor::OnPushMessage.                                      *)
OnPushMessage(s, units) == msgQ' = Append(msgQ, [session |-> s, units |-> units])

(* push_msg_callbacks_: the context goes to MessageDemutiplexor's queue.    *)
PushMessage(r) ==
  /\ pc[r] = "push"
  /\ OnPushMessage(cur[r], datagram[r])
  /\ ReturnToLoop(r)
  /\ UNCHANGED <<kernelVars, taken, sessions, eventVars, newborn, sessionQ,
                 workerVars, aborted>>
-----------------------------------------------------------------------------
(* The thread pool.                                                         *)

(* OnMessageDispatch takes the oldest context.                              *)
TakeMessage(w) ==
  /\ work[w] = None /\ msgQ # <<>>
  /\ work' = [work EXCEPT ![w] = Head(msgQ)]
  /\ msgQ' = Tail(msgQ)
  /\ UNCHANGED <<kernelVars, taken, sessions, eventVars, newborn, sessionQ,
                 reactorVars, handled, aborted>>

(* ServiceHandler::OnHandler returns and the context is released.           *)
FinishMessage(w) ==
  /\ work[w] # None
  /\ handled' = [handled EXCEPT ![work[w].session] = @ \cup work[w].units]
  /\ work' = [work EXCEPT ![w] = None]
  /\ UNCHANGED <<kernelVars, taken, sessions, eventVars, newborn, sessionQ,
                 reactorVars, msgQ, aborted>>
-----------------------------------------------------------------------------
Init ==
  /\ idOf = [s \in Session |-> None]
  /\ fdOf = [s \in Session |-> None]
  /\ conn = [s \in Session |-> "open"]
  /\ sent = [s \in Session |-> 0]
  /\ taken = [s \in Session |-> 0]
  /\ sessions = [p \in Peer |-> None]
  /\ events = [f \in Fd |-> "absent"]
  /\ pending = [f \in Fd |-> 0]
  /\ watch = [s \in Session |-> "off"]
  /\ newborn = None
  /\ sessionQ = <<>>
  /\ pc = [r \in SubReactor |-> "idle"]
  /\ cur = [r \in SubReactor |-> None]
  /\ datagram = [r \in SubReactor |-> {}]
  /\ msgQ = <<>>
  /\ work = [w \in ServiceWorker |-> None]
  /\ handled = [s \in Session |-> {}]
  /\ aborted = FALSE

PeerStep(s) == PeerSend(s) \/ \E how \in {"fin", "reset"} : PeerEnd(s, how)

SelectorStep(s) ==
  \/ \E p \in Peer, f \in Fd : Accept(p, s, f)
  \/ \E t \in Session, inMap \in BOOLEAN : OnDataRecv(s, t, inMap)
  \/ OnDataRecvAborts(s)

ReactorStep(r) ==
  \/ TakeSession(r) \/ ReadData(r) \/ ReadStops(r)
  \/ DeleteSession(r) \/ Rearm(r) \/ PushMessage(r)

WorkerStep(w) == TakeMessage(w) \/ FinishMessage(w)

Next ==
  /\ ~aborted
  /\ \/ \E s \in Session : PeerStep(s) \/ SelectorStep(s)
     \/ ListenToNewborn
     \/ \E r \in SubReactor : ReactorStep(r)
     \/ \E w \in ServiceWorker : WorkerStep(w)

Spec == Init /\ [][Next]_vars

(* What the safety properties ask of the uninitialised sockaddr_in: that it *)
(* names the connection's own address or none, never another session.       *)
OwnName ==
  \A s, t \in Session, inMap \in BOOLEAN : OnDataRecv(s, t, inMap) => t = s

OwnNameSpec == Init /\ [][Next /\ OwnName]_vars

(* The threads are scheduled by the kernel and never stop, so each one that *)
(* can take a step takes one.  The selector handles every event epoll has   *)
(* reported before it polls again, so it does not pass over a readable      *)
(* session for ever.  Nothing is asked of the peers.                        *)
Fairness ==
  /\ WF_vars(~aborted /\ ListenToNewborn)
  /\ \A s \in Session :
       WF_vars(/\ ~aborted
               /\ \/ \E t \in Session, inMap \in BOOLEAN : OnDataRecv(s, t, inMap)
                  \/ OnDataRecvAborts(s))
  /\ \A r \in SubReactor : WF_vars(~aborted /\ ReactorStep(r))
  /\ \A w \in ServiceWorker : WF_vars(~aborted /\ WorkerStep(w))

FairSpec == Spec /\ Fairness
-----------------------------------------------------------------------------
(* Every variable holds what the code's member can hold; in particular the  *)
(* count of a descriptor's events never goes below zero.                    *)
TypeOK ==
  /\ idOf \in [Session -> Peer \cup {None}]
  /\ fdOf \in [Session -> Fd \cup {None}]
  /\ conn \in [Session -> {"open", "fin", "reset"}]
  /\ sent \in [Session -> 0..MaxUnits]
  /\ taken \in [Session -> 0..MaxUnits]
  /\ sessions \in [Peer -> Session \cup {None}]
  /\ events \in [Fd -> {"absent", "live", "fired"}]
  /\ pending \in [Fd -> Nat]
  /\ watch \in [Session -> {"off", "on", "spent"}]
  /\ newborn \in Session \cup {None}
  /\ sessionQ \in Seq(Session)
  /\ pc \in [SubReactor -> {"idle", "read", "rearm", "delete", "push"}]
  /\ cur \in [SubReactor -> Session \cup {None}]
  /\ datagram \in [SubReactor -> SUBSET Units]
  /\ msgQ \in Seq(Context)
  /\ work \in [ServiceWorker -> Context \cup {None}]
  /\ handled \in [Session -> SUBSET Units]
  /\ aborted \in BOOLEAN

(* A sub-reactor that may still call read() on its session, re-arm it or    *)
(* delete it by name.                                                       *)
Serving(r) == pc[r] \in {"read", "delete", "rearm"}

Served(s) == s \in Elements(sessionQ) \/ \E r \in SubReactor : Serving(r) /\ cur[r] = s

Registered(s) == idOf[s] # None /\ sessions[idOf[s]] = s

(* One event, one owner.  A session is in one place at a time: watched by   *)
(* epoll, or once in the queue, or with one sub-reactor that reads it.      *)
(* This is what lets OnDataRecv read a socket without a lock: it rests on   *)
(* the read event being one-shot and added again only after the last read.  *)
OneReader ==
  /\ \A i, j \in DOMAIN sessionQ : sessionQ[i] = sessionQ[j] => i = j
  /\ \A r, q \in SubReactor :
       Serving(r) /\ Serving(q) /\ cur[r] = cur[q] => r = q
  /\ \A r \in SubReactor : Serving(r) => cur[r] \notin Elements(sessionQ)

SingleOwner == OneReader /\ \A s \in Session : Served(s) => watch[s] = "off"

(* DeleteSession takes a name, not an object: it must never remove a later  *)
(* connection from the same address.  As long as a session is queued or     *)
(* being read it is the one registered under its address.                   *)
ServedIsRegistered == \A s \in Session : Served(s) => Registered(s)

(* A registered session that no thread has and the loop does not look at is *)
(* out of reach for one of two reasons.  Its descriptor had an event left   *)
(* over from a connection refused because its address was still registered: *)
(* event_add found the stale event and did not tell epoll about the new     *)
(* descriptor, and nobody ever reads the session.  Or its edge was lost     *)
(* when a sub-reactor put the event back, and nobody reads it before the    *)
(* peer sends more or ends: then what it waits for came after the last      *)
(* read.  A connection's first event, which the loop's own thread adds, is  *)
(* not lost so: the session has been read from before.                      *)
OutOfReach(s) == Registered(s) /\ watch[s] # "on" /\ ~Served(s) /\ s # newborn

StaleEvent(s) == watch[s] = "off" /\ fdOf[s] \in Fd /\ pending[fdOf[s]] > 1

LostEdge(s) == EdgeRace /\ watch[s] = "spent" /\ taken[s] > 0 /\ Ready(s)

OutOfReachOnlyByEvent ==
  \A s \in Session : OutOfReach(s) => StaleEvent(s) \/ LostEdge(s)

(* At most once, and while its session is registered exactly once: a unit   *)
(* read() returned is in one reader's packet, in one queued context, with   *)
(* one worker, or handled, and never in two of them.  Only unregistering    *)
(* its session may drop it.                                                 *)
Reading(s, u) == {r \in SubReactor : cur[r] = s /\ u \in datagram[r]}

Waiting(s, u) == {i \in DOMAIN msgQ : msgQ[i].session = s /\ u \in msgQ[i].units}

Working(s, u) ==
  {w \in ServiceWorker : work[w] # None /\ work[w].session = s /\ u \in work[w].units}

Places(s, u) ==
  Cardinality(Reading(s, u)) + Cardinality(Waiting(s, u)) + Cardinality(Working(s, u))
  + (IF u \in handled[s] THEN 1 ELSE 0)

NothingLost ==
  \A s \in Session : \A u \in 1..taken[s] :
    Places(s, u) \in {0, 1} /\ (Registered(s) => Places(s, u) = 1)

(* The packet handed to the service is a stretch of the peer's stream       *)
(* without a hole: no other sub-reactor read in the middle of it.           *)
Contiguous(units) == \A u, v \in units : u..v \subseteq units

DatagramsContiguous ==
  /\ \A r \in SubReactor : Contiguous(datagram[r])
  /\ \A c \in Elements(msgQ) : Contiguous(c.units)
  /\ \A w \in ServiceWorker : work[w] # None => Contiguous(work[w].units)

(* The session is listened to again before its packet is pushed, so the     *)
(* next stretch may reach the workers first.  It can do so only in that     *)
(* window: when somebody else has taken data behind the units a sub-reactor *)
(* holds, it has nothing left to do with the session but the push.          *)
Overtaken(r) ==
  \E u \in datagram[r] : \E v \in u + 1 .. taken[cur[r]] : v \notin datagram[r]

OvertakenOnlyAtPush ==
  \A r \in SubReactor : cur[r] # None /\ Overtaken(r) => pc[r] = "push"

(* CHECK_NOTNULL in OnDataRecv fails only for a connection that was reset:  *)
(* events outlive neither the session nor its registration.                 *)
AbortsOnlyOnReset == aborted => \E s \in Session : Registered(s) /\ conn[s] = "reset"

(* A session leaves SessionManager only when its own peer has ended the     *)
(* connection and everything the peer sent has been read, and an address is *)
(* never given to another session while it is taken.                        *)
UnregisteredOnlyAtEnd ==
  [][\A p \in Peer :
       sessions[p] # None /\ sessions'[p] # sessions[p] =>
         /\ sessions'[p] = None
         /\ conn[sessions[p]] # "open"
         /\ taken[sessions[p]] = sent[sessions[p]]]_vars

(* What reaches a registered session is handled in the end, unless the peer *)
(* ends the connection, the process aborts, or, unread, it stays out of     *)
(* reach: behind a stale event, or behind a lost edge that no further send  *)
(* of the peer makes up for.                                                *)
Unreached(s, u) == taken[s] < u /\ (StaleEvent(s) \/ LostEdge(s))

SentIsHandled ==
  \A s \in Session : \A u \in Units :
    [](Registered(s) /\ sent[s] >= u =>
         <>(\/ u \in handled[s] \/ conn[s] # "open" \/ aborted
            \/ []Unreached(s, u)))

(* What SentIsHandled promises of the end, said of a state: when no thread  *)
(* has anything to do, every registered session's data is handled, except   *)
(* where the loop no longer looks.  What was read is handled even then.     *)
AtRest ==
  /\ newborn = None /\ sessionQ = <<>> /\ msgQ = <<>>
  /\ \A s \in Session : watch[s] = "on" => ~Ready(s)
  /\ \A r \in SubReactor : pc[r] = "idle"
  /\ \A w \in ServiceWorker : work[w] = None

RestMeansHandled ==
  AtRest => \A s \in Session : Registered(s) =>
    /\ 1..taken[s] \subseteq handled[s]
    /\ \/ conn[s] = "open" /\ 1..sent[s] \subseteq handled[s]
       \/ StaleEvent(s) \/ LostEdge(s)

(* The sub-reactors read in turns: events, descriptors, addresses and the   *)
(* order of the queues aside, every step is one of Turns, in which a        *)
(* session has one owner, a turn reads on where the last one ended, and     *)
(* what it read is passed on once.                                          *)
Life == [s \in Session |-> IF Registered(s) THEN "in"
                           ELSE IF idOf[s] = None THEN "new" ELSE "out"]
Watched == {s \in Session : watch[s] # "off"}
InQueue == Elements(sessionQ)
InTurn == [r \in SubReactor |-> IF Serving(r) THEN cur[r] ELSE None]
Parcel == [r \in SubReactor |-> {<<cur[r], u>> : u \in datagram[r]}]
Handed(s, u) == Waiting(s, u) # {} \/ Working(s, u) # {} \/ u \in handled[s]
PassedOn == {x \in Session \X Units : Handed(x[1], x[2])}

Turn == INSTANCE Turns WITH
          life <- Life, watched <- Watched, queued <- InQueue,
          reading <- InTurn, parcel <- Parcel, passed <- PassedOn

TurnsSpec == Turn!Spec

(* Selector.cpp: CHECK_NOTNULL(session.get()).                              *)
SessionFound == ~aborted

(* README: "All the datagrams were received by subreactors.  After          *)
(* sub-reactor get the message, and it would push the message to threadpool *)
(* for processing."                                                         *)
ReadIsPushed ==
  \A s \in Session : \A u \in 1..taken[s] : Places(s, u) >= 1

(* README: "Main-reactor is used for listen event what ever read or write." *)
EverySessionListenedTo ==
  \A s \in Session :
    Registered(s) => watch[s] # "off" \/ Served(s) \/ s = newborn
-----------------------------------------------------------------------------
(* The inductive invariant behind the safety properties, for OwnNameSpec.   *)

(* A session that can be found by its address, or is about to be listened   *)
(* to: these hold distinct descriptors.                                     *)
Held(s) == Registered(s) \/ s = newborn

(* An entry of events_ stands for an event libevent has not yet run.        *)
EventsAreCounted ==
  \A f \in Fd : events[f] = "live" => pending[f] > 0

(* OnDataRecv runs with a session.                                          *)
BusyHasSession ==
  \A r \in SubReactor : pc[r] # "idle" => cur[r] # None

Typed == TypeOK /\ EventsAreCounted /\ BusyHasSession

(* SessionManager files a session under its own address, and the sessions   *)
(* it holds have different descriptors.                                     *)
Names ==
  /\ \A p \in Peer : sessions[p] # None => idOf[sessions[p]] = p
  /\ \A s \in Session : idOf[s] # None => fdOf[s] \in Fd
  /\ \A x, y \in Session : Held(x) /\ Held(y) /\ fdOf[x] = fdOf[y] => x = y

(* Nothing refers to a session before accept() or reads it before it is     *)
(* listened to.                                                             *)
Unused ==
  /\ \A s \in Session : idOf[s] = None => ~Served(s) /\ watch[s] = "off"
  /\ newborn # None => /\ idOf[newborn] # None
                       /\ ~Served(newborn) /\ watch[newborn] = "off"

(* What epoll watches is registered and has exactly one event, the one in   *)
(* events_.                                                                 *)
WatchedHasEvent ==
  \A s \in Session : watch[s] # "off" =>
    Registered(s) /\ pending[fdOf[s]] = 1 /\ events[fdOf[s]] = "live"

(* A session that is queued or being read has no event left, and events_    *)
(* never keeps one that has run.                                            *)
ServedHasNoEvent ==
  /\ \A s \in Session : Served(s) => pending[fdOf[s]] = 0
  /\ \A f \in Fd : events[f] # "fired"

(* A session epoll no longer watches and nobody has kept from its first     *)
(* event has a stale one.                                                   *)
UnwatchedIsStale ==
  \A s \in Session :
    Registered(s) => \/ watch[s] # "off" \/ Served(s) \/ s = newborn
                     \/ pending[fdOf[s]] > 1

(* A sub-reactor about to call DeleteSession has read all there will be.    *)
DeletesEnded ==
  \A r \in SubReactor : pc[r] = "delete" =>
    conn[cur[r]] # "open" /\ taken[cur[r]] = sent[cur[r]]

Ownership ==
  /\ Names /\ Unused /\ SingleOwner /\ ServedIsRegistered
  /\ WatchedHasEvent /\ ServedHasNoEvent /\ UnwatchedIsStale
  /\ DeletesEnded /\ AbortsOnlyOnReset

(* A session is only taken up when its peer has done something, so when its *)
(* event is put back it has been read from; and its edge is lost only to    *)
(* what came after that.                                                    *)
Edges ==
  /\ \A s \in Session : Served(s) => sent[s] > 0 \/ conn[s] # "open"
  /\ \A r \in SubReactor : pc[r] = "rearm" => taken[cur[r]] > 0
  /\ \A s \in Session : watch[s] = "spent" => LostEdge(s)

IInv == Typed /\ Ownership /\ Edges

(* A packet holds units its session's stream has given up, and none between *)
(* two sessions.                                                            *)
PacketIsTaken ==
  \A r \in SubReactor :
    IF pc[r] = "idle" THEN datagram[r] = {}
                      ELSE datagram[r] \subseteq 1..taken[cur[r]]

(* As long as a sub-reactor may still read, its packet goes up to the last  *)
(* unit read: nobody else has read behind it.                               *)
PacketReachesEnd ==
  \A r \in SubReactor : Serving(r) =>
    \A u \in datagram[r] : u..taken[cur[r]] \subseteq datagram[r]

Stream == PacketIsTaken /\ PacketReachesEnd /\ DatagramsContiguous

(* NothingLost with what it rests on: a unit that read() has not returned   *)
(* is nowhere, and nothing is read from a session before accept().          *)
Accounted ==
  /\ NothingLost
  /\ \A s \in Session : \A u \in Units : u > taken[s] => Places(s, u) = 0
  /\ \A s \in Session : idOf[s] = None => taken[s] = 0
=============================================================================
