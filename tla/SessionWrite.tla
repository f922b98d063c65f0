---------------------------- MODULE SessionWrite ----------------------------
(***************************************************************************)
(* The way back: a worker that has taken a context from the message queue  *)
(* sends the datagram to the session it came from, in a loop of write()s   *)
(* on a non-blocking socket, and then calls the plugins.                   *)
(*                                                                         *)
(* A step is one write(), or what a worker does between the queue and the  *)
(* first or after the last of them.  While the send buffer is full write() *)
(* returns EAGAIN and the loop turns without changing anything.  The       *)
(* context holds a reference to the session, so sockfd() stays open for as *)
(* long as the loop runs (see Live in Reactor).                            *)
(***************************************************************************)
EXTENDS Integers, Sequences, FiniteSets

CONSTANTS
  Session, Worker,
  Message,     \* contexts the sub-reactors push
  sessionOf,   \* context.session()
  size,        \* datagram()->length()
  SendBuffer,  \* units each socket's send buffer holds
  Reader,      \* sessions whose peer goes on reading until it ends
  None

ASSUME WriteAssumption ==
  /\ sessionOf \in [Message -> Session]
  /\ size \in [Message -> Nat]
  /\ SendBuffer \in [Session -> Nat \ {0}]
  /\ Reader \subseteq Session
  /\ None \notin Message

VARIABLES
  pushed,      \* contexts pushed so far
  queue,       \* MessageDemutiplexor::queue_
  pc, work,    \* what a worker does, and its context
  offset,      \* SendMessage's offset, by context
  buffer,      \* a socket's send buffer: units <<context, place>>
  received,    \* what the peer has read
  conn,        \* "open", "reset": the error is yet to be reported, or "broken"
  done,        \* contexts OnHandler has returned for
  cut,         \* contexts whose SendMessage gave up
  overlapped,  \* history: contexts sent while another of their session was
  killed       \* SIGPIPE has ended the process

poolVars == <<pushed, queue, pc, work, done, overlapped>>
socketVars == <<buffer, received, conn>>
vars == <<poolVars, socketVars, offset, cut, killed>>

Free(s) == SendBuffer[s] - Len(buffer[s])

Unsent(m) == size[m] - offset[m]

(* n units of the datagram of m, from `from` on.                            *)
Chunk(m, from, n) == [i \in 1..n |-> <<m, from + i>>]
-----------------------------------------------------------------------------
(* MessageDemutiplexor::OnPushMessage.                                      *)
OnPushMessage(m) ==
  /\ m \notin pushed
  /\ pushed' = pushed \cup {m}
  /\ queue' = Append(queue, m)
  /\ UNCHANGED <<pc, work, done, overlapped, socketVars, offset, cut, killed>>

(* OnMessageDispatch takes the oldest context and calls OnHandler.          *)
TakeMessage(w) ==
  LET m == Head(queue)
      Same == {v \in Worker : pc[v] = "send" /\ sessionOf[work[v]] = sessionOf[m]}
  IN  /\ pc[w] = "idle" /\ queue # <<>>
      /\ queue' = Tail(queue)
      /\ pc' = [pc EXCEPT ![w] = "send"]
      /\ work' = [work EXCEPT ![w] = m]
      /\ overlapped' = overlapped \cup
           IF Same = {} THEN {} ELSE {m} \cup {work[v] : v \in Same}
      /\ UNCHANGED <<pushed, done, socketVars, offset, cut, killed>>
-----------------------------------------------------------------------------
(* SessionImpl::SendMessage.                                                *)

(* How many units of the rest write() may take: at most what fits, and none *)
(* only of an empty datagram, for which the loop turns once all the same.   *)
Accepted(m) ==
  {n \in 0..Unsent(m) : n <= Free(sessionOf[m]) /\ (n = 0 => size[m] = 0)}

(* The next n units, from data + offset on; and wrongly from data on.       *)
FromStart(m, n) == Chunk(m, 0, n)

FromOffset(m, n) == Chunk(m, offset[m], n)

(* The loop turns while offset < size.  The wrong forms: it turns while     *)
(* offset <= size, and then goes on writing nothing; it puts a context with *)
(* a rest back into the queue and takes another one.                        *)
LoopOnceMore(w, m) ==
  /\ pc' = [pc EXCEPT ![w] = IF offset'[m] <= size[m] THEN "send" ELSE "callbacks"]
  /\ UNCHANGED queue

LoopYields(w, m) ==
  /\ pc' = [pc EXCEPT ![w] = IF offset'[m] < size[m] THEN "idle" ELSE "callbacks"]
  /\ queue' = IF offset'[m] < size[m] THEN Append(queue, m) ELSE queue

Loop(w, m) ==
  /\ pc' = [pc EXCEPT ![w] = IF offset'[m] < size[m] THEN "send" ELSE "callbacks"]
  /\ UNCHANGED queue

Write(w) ==
  LET m == work[w]
      s == sessionOf[m]
  IN  /\ pc[w] = "send" /\ conn[s] = "open"
      /\ \E n \in Accepted(m) :
           /\ buffer' = [buffer EXCEPT ![s] = @ \o FromOffset(m, n)]
           /\ offset' = [offset EXCEPT ![m] = @ + n]
      /\ Loop(w, m)
      /\ UNCHANGED <<pushed, work, done, overlapped, received, conn, cut, killed>>

(* write() reports an error; the wrong form takes EAGAIN for one.           *)
ReportedOnAgain(s) ==
  \/ conn[s] = "reset" /\ conn' = [conn EXCEPT ![s] = "broken"]
  \/ Free(s) = 0 /\ UNCHANGED conn

Reported(s) == conn[s] = "reset" /\ conn' = [conn EXCEPT ![s] = "broken"]

(* The reset is reported once: the loop breaks.                             *)
WriteFails(w) ==
  /\ pc[w] = "send" /\ Reported(sessionOf[work[w]])
  /\ cut' = cut \cup {work[w]}
  /\ pc' = [pc EXCEPT ![w] = "callbacks"]
  /\ UNCHANGED <<pushed, queue, work, done, overlapped, buffer, received,
                 offset, killed>>

(* After that the error is EPIPE, which comes with a signal nobody handles. *)
WriteKills(w) ==
  /\ pc[w] = "send" /\ conn[sessionOf[work[w]]] = "broken"
  /\ killed' = TRUE
  /\ UNCHANGED <<poolVars, socketVars, offset, cut>>

(* The plugins' callbacks have returned, and so has OnHandler.              *)
Callbacks(w) ==
  /\ pc[w] = "callbacks"
  /\ pc' = [pc EXCEPT ![w] = "idle"]
  /\ work' = [work EXCEPT ![w] = None]
  /\ done' = done \cup {work[w]}
  /\ UNCHANGED <<pushed, queue, overlapped, socketVars, offset, cut, killed>>
-----------------------------------------------------------------------------
(* The peers and the kernel.                                                *)

PeerReads(s) ==
  /\ conn[s] = "open" /\ buffer[s] # <<>>
  /\ received' = [received EXCEPT ![s] = Append(@, Head(buffer[s]))]
  /\ buffer' = [buffer EXCEPT ![s] = Tail(@)]
  /\ UNCHANGED <<poolVars, conn, offset, cut, killed>>

(* A reset arrives.  If the peer had closed before, the error is EPIPE.     *)
PeerEnds(s, how) ==
  /\ conn[s] = "open"
  /\ conn' = [conn EXCEPT ![s] = how]
  /\ buffer' = [buffer EXCEPT ![s] = <<>>]
  /\ UNCHANGED <<poolVars, received, offset, cut, killed>>

(* The error is reported once: here to a sub-reactor's read().              *)
ErrorIsRead(s) ==
  /\ conn[s] = "reset"
  /\ conn' = [conn EXCEPT ![s] = "broken"]
  /\ UNCHANGED <<poolVars, buffer, received, offset, cut, killed>>
-----------------------------------------------------------------------------
Init ==
  /\ pushed = {} /\ queue = <<>>
  /\ pc = [w \in Worker |-> "idle"]
  /\ work = [w \in Worker |-> None]
  /\ offset = [m \in Message |-> 0]
  /\ buffer = [s \in Session |-> <<>>]
  /\ received = [s \in Session |-> <<>>]
  /\ conn = [s \in Session |-> "open"]
  /\ done = {} /\ cut = {} /\ overlapped = {}
  /\ killed = FALSE

WorkerStep(w) ==
  TakeMessage(w) \/ Write(w) \/ WriteFails(w) \/ WriteKills(w) \/ Callbacks(w)

Next ==
  /\ ~killed
  /\ \/ \E m \in Message : OnPushMessage(m)
     \/ \E w \in Worker : WorkerStep(w)
     \/ \E s \in Session : \/ PeerReads(s) \/ ErrorIsRead(s)
                           \/ \E how \in {"reset", "broken"} : PeerEnds(s, how)

Spec == Init /\ [][Next]_vars

(* The workers run, and the peers of Reader read.  Other peers need not.    *)
FairSpec ==
  /\ Spec
  /\ \A w \in Worker : WF_vars(~killed /\ WorkerStep(w))
  /\ \A s \in Reader : WF_vars(~killed /\ PeerReads(s))
-----------------------------------------------------------------------------
(* Every variable holds what the code's local or member can hold; the       *)
(* offset stays within the datagram.                                        *)
TypeOK ==
  /\ pushed \subseteq Message /\ queue \in Seq(Message)
  /\ pc \in [Worker -> {"idle", "send", "callbacks"}]
  /\ work \in [Worker -> Message \cup {None}]
  /\ offset \in [Message -> Nat] /\ \A m \in Message : offset[m] <= size[m]
  /\ buffer \in [Session -> Seq(Message \X (Nat \ {0}))]
  /\ \A s \in Session : Len(buffer[s]) <= SendBuffer[s]
  /\ received \in [Session -> Seq(Message \X (Nat \ {0}))]
  /\ conn \in [Session -> {"open", "reset", "broken"}]
  /\ done \subseteq Message /\ cut \subseteq Message /\ overlapped \subseteq Message
  /\ killed \in BOOLEAN

(* What has been written to a session, as far as the peer may still see it. *)
Stream(s) == received[s] \o buffer[s]

InStream(m, k) == \E i \in DOMAIN Stream(sessionOf[m]) : Stream(sessionOf[m])[i] = <<m, k>>

(* The parts of the next property, for what a stream st of session s holds. *)
IsOwn(s, st) ==
  \A i \in DOMAIN st : sessionOf[st[i][1]] = s /\ st[i][2] <= offset[st[i][1]]

IsOrdered(st) ==
  \A i, j \in DOMAIN st : i < j /\ st[i][1] = st[j][1] => st[i][2] < st[j][2]

HasNoGap(st) ==
  \A i \in DOMAIN st : \A k \in 1..st[i][2] : \E j \in DOMAIN st : st[j] = <<st[i][1], k>>

(* However the socket cuts the writes up, and whoever else writes to it, a  *)
(* peer gets the datagrams that answer it and no others, the units of each  *)
(* in order, each once, from the first on, and as many as SendMessage       *)
(* believes while the connection lasts.                                     *)
AnswerIsPrefix ==
  /\ \A s \in Session : LET st == Stream(s) IN IsOwn(s, st) /\ IsOrdered(st) /\ HasNoGap(st)
  /\ \A m \in Message : conn[sessionOf[m]] = "open" => \A k \in 1..offset[m] : InStream(m, k)

(* A context is pushed once, and OnHandler returns once for it: until then  *)
(* it is queued or in one worker's hands, whatever its connection does.     *)
Queued == {queue[i] : i \in DOMAIN queue}
InHand == {work[w] : w \in {v \in Worker : pc[v] # "idle"}}

NoneMislaid ==
  pushed = Queued \cup InHand \cup done /\ done \cap (Queued \cup InHand) = {}

(* With the types, in particular offset <= size: no write asks for more     *)
(* than the rest of the datagram.                                           *)
AnswerInv == TypeOK /\ AnswerIsPrefix /\ NoneMislaid

(* A slow peer is no error: an answer is cut short, or the process killed,  *)
(* only when a peer has ended its connection.                               *)
CutOnlyByEnd ==
  /\ \A m \in done : conn[sessionOf[m]] = "open" => \A k \in 1..size[m] : InStream(m, k)
  /\ \A m \in cut : conn[sessionOf[m]] = "broken"
  /\ killed => \E s \in Session : conn[s] = "broken"

(* SendMessage takes no lock (Session::mutex_ is never used).  Another      *)
(* answer comes between the units of this one only if two workers were      *)
(* sending to the session at once.                                          *)
IsUnmixed(st) ==
  \A i, j, k \in DOMAIN st :
    i < j /\ j < k /\ st[i][1] = st[k][1] /\ st[i][1] \notin overlapped => st[j][1] = st[i][1]

MixedOnlyIfOverlapped == \A s \in Session : IsUnmixed(Stream(s))

(* What the three rest on: a context is pushed once, and is then in the     *)
(* queue or with one worker, who has not sent any of it when he takes it;   *)
WithOneWorker ==
  /\ \A w \in Worker : pc[w] # "idle" => work[w] \in pushed
  /\ \A i \in DOMAIN queue : queue[i] \in pushed /\ offset[queue[i]] = 0
  /\ \A i, j \in DOMAIN queue : queue[i] = queue[j] => i = j
  /\ \A w \in Worker : pc[w] # "idle" =>
       /\ \A i \in DOMAIN queue : queue[i] # work[w]
       /\ \A v \in Worker : pc[v] # "idle" /\ work[v] = work[w] => v = w
  /\ \A m \in Message : m \notin pushed => offset[m] = 0

(* a worker leaves the loop with all sent or the connection at its end; and *)
(* an answer that is being sent alone is what the stream ends with.         *)
LeftComplete ==
  /\ \A w \in Worker : pc[w] = "callbacks" =>
       offset[work[w]] = size[work[w]] \/ conn[sessionOf[work[w]]] # "open"
  /\ \A m \in done : offset[m] = size[m] \/ conn[sessionOf[m]] # "open"

OverlapsNoted ==
  \A v, w \in Worker :
    v # w /\ pc[v] = "send" /\ pc[w] = "send" /\ sessionOf[work[v]] = sessionOf[work[w]] =>
      work[w] \in overlapped

EndsStream(m, st) ==
  \A i, j \in DOMAIN st : i <= j /\ st[i][1] = m => st[j][1] = m

LastIsAlone ==
  \A w \in Worker : pc[w] = "send" /\ work[w] \notin overlapped =>
    EndsStream(work[w], Stream(sessionOf[work[w]]))

WriteInv ==
  /\ AnswerInv /\ CutOnlyByEnd /\ MixedOnlyIfOverlapped
  /\ WithOneWorker /\ LeftComplete /\ OverlapsNoted /\ LastIsAlone

(* A worker turns for as long as a peer does not read.  This holds up the   *)
(* others only when every worker is held for good by such a peer.           *)
HeldUp == \A w \in Worker : pc[w] = "send" /\ sessionOf[work[w]] \notin Reader

PushedIsDone ==
  \A m \in Message :
    m \in pushed /\ sessionOf[m] \in Reader ~> m \in done \/ killed \/ []HeldUp
=============================================================================
