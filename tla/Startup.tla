------------------------------ MODULE Startup ------------------------------
(***************************************************************************)
(* NetWrapper's construction: the main thread creates the acceptor with    *)
(* its selector thread, the sub-reactors and MessageDemutiplexor, starts   *)
(* the threads and connects the parts by callbacks, while peers already    *)
(* send.                                                                   *)
(*                                                                         *)
(* A thread that finds running_ FALSE joins the waiters of its condition   *)
(* variable only in a later step, and Start notifies without the mutex.    *)
(* A datagram goes the way that module Reactor has in detail; here the     *)
(* queues are sets, and the workers take from theirs when there are any    *)
(* (MessagePool shows that the workers themselves start safely).  A loop   *)
(* over a vector of callbacks loads begin() and end() in two steps, between*)
(* which the main thread may do anything, the end of the constructor       *)
(* included.                                                               *)
(***************************************************************************)
EXTENDS FiniteSets

CONSTANTS
  Selector,    \* the acceptor's selector thread
  SubReactor,  \* the sub-reactors and their threads
  Datagram,    \* what peers send, each over a connection of its own
  None

ASSUME StartupAssumption ==
  /\ IsFiniteSet(SubReactor) /\ SubReactor # {} /\ Selector \notin SubReactor
  /\ None \notin Datagram

VARIABLES
  step,         \* what the main thread does next
  created,      \* sub_reactors_
  registered,   \* sub-reactors whose callbacks are set
  running,      \* threads whose running_ is TRUE
  started,      \* threads whose Start has returned
  pc,           \* SelectorMainloop and SubReactor::Mainloop
  missed,       \* history: threads that were not yet waiting when notified
  pushCb,       \* SessionDemutiplexor::push_msg_callbacks_
  handlerCb,    \* MessageDemutiplexor::callbacks_
  where, cur,   \* where a datagram is, and what a sub-reactor reads
  first,        \* what the loop over the callbacks that a datagram is in has
                \* loaded as begin(), or "unread"
  exposed,      \* history: datagrams still in a loop that had begun when the
                \* constructor returned
  crashed       \* a loop got begin() and end() of different blocks

mainVars == <<step, created, registered, running, started>>
callbackVars == <<pushCb, handlerCb>>
dataVars == <<where, cur, first, exposed, crashed>>
vars == <<mainVars, pc, missed, callbackVars, dataVars>>

Thread == SubReactor \cup {Selector}
-----------------------------------------------------------------------------
(* Acceptor's constructor: the port is open and the selector thread exists. *)
CreateMainReactor ==
  /\ step = "acceptor" /\ step' = "create"
  /\ pc' = [pc EXCEPT ![Selector] = "begin"]
  /\ UNCHANGED <<created, registered, running, started, missed, callbackVars, dataVars>>

RunsAtOnce(r) == running \cup {r}
WaitsForStart(r) == running

(* A sub-reactor's thread exists and waits for Start.                       *)
CreateSubReactor(r) ==
  /\ step = "create" /\ r \notin created
  /\ created' = created \cup {r}
  /\ running' = WaitsForStart(r)
  /\ pc' = [pc EXCEPT ![r] = "begin"]
  /\ step' = IF created' = SubReactor THEN "relate" ELSE "create"
  /\ UNCHANGED <<registered, started, missed, callbackVars, dataVars>>

(* MakeRelationship: AddMainloopCallback and AddPushMessageCallback take    *)
(* the mutex that Mainloop holds from its check to its wait, and then for   *)
(* as long as it runs.                                                      *)
MakeRelationship(r) ==
  /\ step = "relate" /\ r \notin registered
  /\ pc[r] \notin {"checked", "loop"}
  /\ registered' = registered \cup {r}
  /\ step' = IF registered' = SubReactor THEN "start" ELSE "relate"
  /\ UNCHANGED <<created, running, started, pc, missed, callbackVars, dataVars>>

(* StartUpReactors: running_ = true and then notify_one, first the selector *)
(* and then one sub-reactor after the other.                                *)
SetRunning(t) ==
  /\ step = "start" /\ running = started /\ t \notin running
  /\ t # Selector => Selector \in started
  /\ running' = running \cup {t}
  /\ UNCHANGED <<step, created, registered, started, pc, missed, callbackVars, dataVars>>

NotNotified(t) == pc[t]
Notified(t) == IF pc[t] = "asleep" THEN "begin" ELSE pc[t]

Notify(t) ==
  /\ step = "start" /\ t \in running \ started
  /\ started' = started \cup {t}
  /\ pc' = [pc EXCEPT ![t] = Notified(t)]
  /\ missed' = IF pc[t] = "checked" THEN missed \cup {t} ELSE missed
  /\ step' = IF started' = Thread THEN "pool" ELSE "start"
  /\ UNCHANGED <<created, registered, running, callbackVars, dataVars>>

(* MessageDemutiplexor's constructor: from here on there are workers.       *)
CreateMessageDemutiplexor ==
  /\ step = "pool" /\ step' = "relationship"
  /\ UNCHANGED <<created, registered, running, started, pc, missed, callbackVars, dataVars>>

(* CreateRelationShip: two push_backs into vectors that the threads above   *)
(* may be reading.                                                          *)
AddPushMessageCallback ==
  /\ step = "relationship"
  /\ \/ pushCb = "empty" /\ pushCb' = "moving" /\ UNCHANGED step
     \/ pushCb = "moving" /\ pushCb' = "set" /\ step' = "handler"
  /\ UNCHANGED <<created, registered, running, started, pc, missed, handlerCb, dataVars>>

Looping == {d \in Datagram : first[d] # "unread"}

AddCallbackForgotten ==
  /\ step = "handler" /\ step' = "launched" /\ exposed' = Looping
  /\ UNCHANGED <<created, registered, running, started, pc, missed, callbackVars,
                 where, cur, first, crashed>>

AddCallback ==
  /\ step = "handler"
  /\ \/ handlerCb = "empty" /\ handlerCb' = "moving" /\ UNCHANGED <<step, exposed>>
     \/ /\ handlerCb = "moving" /\ handlerCb' = "set"
        /\ step' = "launched" /\ exposed' = Looping
  /\ UNCHANGED <<created, registered, running, started, pc, missed, pushCb,
                 where, cur, first, crashed>>
-----------------------------------------------------------------------------
(* cond_var_.wait(lock, running_) in the two main loops.                    *)
Check(t) ==
  /\ pc[t] = "begin"
  /\ pc' = [pc EXCEPT ![t] = IF t \in running THEN "loop" ELSE "checked"]
  /\ UNCHANGED <<mainVars, missed, callbackVars, dataVars>>

Block(t) ==
  /\ pc[t] = "checked"
  /\ pc' = [pc EXCEPT ![t] = "asleep"]
  /\ UNCHANGED <<mainVars, missed, callbackVars, dataVars>>

Spurious(t) ==
  /\ pc[t] = "asleep"
  /\ pc' = [pc EXCEPT ![t] = "begin"]
  /\ UNCHANGED <<mainVars, missed, callbackVars, dataVars>>
-----------------------------------------------------------------------------
(* A datagram on its way.                                                   *)

Send(d) ==
  /\ where[d] = "away" /\ step # "acceptor"
  /\ where' = [where EXCEPT ![d] = "readable"]
  /\ UNCHANGED <<mainVars, pc, missed, callbackVars, cur, first, exposed, crashed>>

(* The selector accepts its connection and queues the session.              *)
OnDataRecv(d) ==
  /\ pc[Selector] = "loop" /\ where[d] = "readable"
  /\ where' = [where EXCEPT ![d] = "queued"]
  /\ UNCHANGED <<mainVars, pc, missed, callbackVars, cur, first, exposed, crashed>>

(* A sub-reactor that finds itself in sub_reactors_ reads it.               *)
OnSessionDispatch(r, d) ==
  /\ pc[r] = "loop" /\ r \in registered /\ cur[r] = None /\ where[d] = "queued"
  /\ IF r \in created
       THEN /\ where' = [where EXCEPT ![d] = "read"]
            /\ cur' = [cur EXCEPT ![r] = d]
       ELSE /\ where' = [where EXCEPT ![d] = "dropped"]
            /\ UNCHANGED cur
  /\ UNCHANGED <<mainVars, pc, missed, callbackVars, first, exposed, crashed>>

(* What a load of one of a vector's pointers may find: push_back into an    *)
(* empty one sets its three pointers, in whatever order, to a new block.    *)
Loads(cb) ==
  CASE cb = "empty"  -> {"null"}
    [] cb = "moving" -> {"null", "block"}
    [] cb = "set"    -> {"block"}

(* Going through a vector of at most one callback: begin() first, and then  *)
(* end().  Of one block they call it and of none they do not; otherwise the *)
(* loop runs off either end of the block.                                   *)
BeginLoop(d, cb) ==
  /\ first[d] = "unread"
  /\ \E begin \in Loads(cb) : first' = [first EXCEPT ![d] = begin]
  /\ UNCHANGED <<where, cur, exposed, crashed>>

EndLoop(d, cb, called) ==
  /\ first[d] # "unread"
  /\ \E end \in Loads(cb) :
       /\ crashed' = (first[d] # end)
       /\ where' = [where EXCEPT ![d] = IF end = "block" THEN called ELSE "dropped"]
  /\ first' = [first EXCEPT ![d] = "unread"]
  /\ exposed' = exposed \ {d}

(* SessionDemutiplexor::OnPushMessage.                                      *)
OnPushMessage(r) ==
  /\ cur[r] # None
  /\ \/ BeginLoop(cur[r], pushCb)
     \/ EndLoop(cur[r], pushCb, "pushed") /\ cur' = [cur EXCEPT ![r] = None]
  /\ UNCHANGED <<mainVars, pc, missed, callbackVars>>

(* MessageDemutiplexor::OnMessageDispatch, in some worker.                  *)
OnMessageDispatch(d) ==
  /\ step \in {"relationship", "handler", "launched"} /\ where[d] = "pushed"
  /\ \/ BeginLoop(d, handlerCb)
     \/ EndLoop(d, handlerCb, "handled") /\ UNCHANGED cur
  /\ UNCHANGED <<mainVars, pc, missed, callbackVars>>
-----------------------------------------------------------------------------
Init ==
  /\ step = "acceptor"
  /\ created = {} /\ registered = {} /\ running = {} /\ started = {}
  /\ pc = [t \in Thread |-> "none"] /\ missed = {}
  /\ pushCb = "empty" /\ handlerCb = "empty"
  /\ where = [d \in Datagram |-> "away"]
  /\ cur = [r \in SubReactor |-> None]
  /\ first = [d \in Datagram |-> "unread"] /\ exposed = {}
  /\ crashed = FALSE

MainStep ==
  \/ CreateMainReactor \/ CreateMessageDemutiplexor
  \/ \E r \in SubReactor : CreateSubReactor(r) \/ MakeRelationship(r)
  \/ \E t \in Thread : SetRunning(t) \/ Notify(t)
  \/ AddPushMessageCallback \/ AddCallback

ReactorStep(r) == (\E d \in Datagram : OnSessionDispatch(r, d)) \/ OnPushMessage(r)

Next ==
  /\ ~crashed
  /\ \/ MainStep
     \/ \E t \in Thread : Check(t) \/ Block(t) \/ Spurious(t)
     \/ \E d \in Datagram : Send(d) \/ OnDataRecv(d) \/ OnMessageDispatch(d)
     \/ \E r \in SubReactor : ReactorStep(r)

Spec == Init /\ [][Next]_vars

(* Every thread that can take a step takes one, and the main thread gets a  *)
(* sub-reactor's mutex if that is free again and again.  Nobody has to send *)
(* and no wakeup is owed.                                                   *)
FairSpec ==
  /\ Spec
  /\ SF_vars(~crashed /\ MainStep)
  /\ \A t \in Thread : WF_vars(~crashed /\ (Check(t) \/ Block(t)))
  /\ \A d \in Datagram : /\ WF_vars(~crashed /\ OnDataRecv(d))
                         /\ WF_vars(~crashed /\ OnMessageDispatch(d))
  /\ \A r \in SubReactor : WF_vars(~crashed /\ ReactorStep(r))
-----------------------------------------------------------------------------
(* Every variable holds what the code's member can hold.                    *)
TypeOK ==
  /\ step \in {"acceptor", "create", "relate", "start", "pool", "relationship",
               "handler", "launched"}
  /\ created \subseteq SubReactor /\ registered \subseteq SubReactor
  /\ running \subseteq Thread /\ started \subseteq running
  /\ pc \in [Thread -> {"none", "begin", "checked", "asleep", "loop"}]
  /\ missed \subseteq Thread
  /\ pushCb \in {"empty", "moving", "set"} /\ handlerCb \in {"empty", "moving", "set"}
  /\ where \in [Datagram -> {"away", "readable", "queued", "read", "pushed",
                             "handled", "dropped"}]
  /\ cur \in [SubReactor -> Datagram \cup {None}]
  /\ first \in [Datagram -> {"unread", "null", "block"}]
  /\ exposed \subseteq Datagram
  /\ crashed \in BOOLEAN

(* A sub-reactor in its loop reads sub_reactors_ and its own callbacks      *)
(* without a lock: the main thread has stopped writing them by then.        *)
LoopsOverCompleteTables ==
  \A r \in SubReactor :
    pc[r] = "loop" => created = SubReactor /\ registered = SubReactor

(* A thread whose Start has returned sleeps on only if the notification     *)
(* fell between its check of running_ and its wait.                         *)
SleepsOnlyIfMissed ==
  \A t \in started : pc[t] \in {"checked", "asleep"} => t \in missed

(* The order the constructors keep: no thread runs before its part is       *)
(* complete, and when the last one returns every thread has been started    *)
(* and every callback is in place.                                          *)
ConstructionOrder ==
  /\ \A t \in Thread : pc[t] = "loop" => t \in running
  /\ running # {} => step \notin {"acceptor", "create", "relate"}
  /\ step # "acceptor" => pc[Selector] # "none"
  /\ \A r \in created : pc[r] # "none"
  /\ step \notin {"acceptor", "create"} => created = SubReactor
  /\ step \notin {"acceptor", "create", "relate"} => registered = SubReactor
  /\ step \in {"pool", "relationship", "handler", "launched"} => started = Thread
  /\ step \in {"handler", "launched"} => pushCb = "set"
  /\ step = "launched" => handlerCb = "set"

(* A datagram that is being read is read by one sub-reactor.                *)
OneReader ==
  /\ \A r \in SubReactor : cur[r] # None => where[cur[r]] = "read"
  /\ \A q, r \in SubReactor : cur[q] = cur[r] /\ cur[r] # None => q = r
  /\ \A d \in Datagram : where[d] = "read" => \E r \in SubReactor : cur[r] = d

(* Loops are over what is being read or pushed, and one that found nothing  *)
(* in its vector began before the constructor returned.                     *)
LoopsInProgress ==
  \A d \in Datagram :
    /\ first[d] # "unread" => where[d] \in {"read", "pushed"}
    /\ d \in exposed => first[d] # "unread"
    /\ step = "launched" /\ first[d] = "null" => d \in exposed

StartupInv ==
  TypeOK /\ SleepsOnlyIfMissed /\ ConstructionOrder /\ OneReader /\ LoopsInProgress

(* What ConstructionEnds promises, said of a state: nobody has a mutex for  *)
(* good that MakeRelationship waits for.                                    *)
RelatesUnhindered ==
  step = "relate" => \A r \in SubReactor : pc[r] \in {"begin", "checked", "asleep"}

(* And LaterIsHandled: when NetWrapper is constructed and no thread has     *)
(* anything left to do, a datagram is still on its way only because the     *)
(* selector or all of the sub-reactors missed their notification.           *)
AtRest ==
  /\ \A t \in Thread : pc[t] # "begin"
  /\ \A r \in SubReactor : cur[r] = None
  /\ \A d \in Datagram :
       /\ where[d] # "pushed"
       /\ where[d] = "readable" => pc[Selector] # "loop"
       /\ where[d] = "queued" => \A r \in SubReactor : pc[r] # "loop"

RestMeansHandled ==
  step = "launched" /\ AtRest =>
    \A d \in Datagram :
      where[d] \in {"away", "handled", "dropped"}
      \/ Selector \in missed \/ SubReactor \subseteq missed

(* Once NetWrapper is constructed, no datagram is dropped for want of a     *)
(* callback.  A loop over the callbacks that has loaded one of its two      *)
(* pointers when the constructor returns may still run off the vector, and  *)
(* end the process; no loop that begins later does.                         *)
ExposedOnlyIfBegunEarlier ==
  [][step = "launched" =>
       /\ \A d \in Datagram : where'[d] = "dropped" => where[d] = "dropped"
       /\ crashed' # crashed => exposed' # exposed]_vars

(* The constructor ends: no sub-reactor holds the mutex that the main       *)
(* thread needs to register its callbacks.                                  *)
ConstructionEnds == <>(step = "launched" \/ crashed)

(* From then on what arrives is handled, unless the selector or all of the  *)
(* sub-reactors missed their notification.                                  *)
LaterIsHandled ==
  \A d \in Datagram :
    step = "launched" /\ where[d] \in {"readable", "queued"} ~>
      \/ where[d] = "handled" \/ crashed
      \/ Selector \in missed \/ SubReactor \subseteq missed

(* NetWrapper.cpp: "Message demutiplexor must startup before session        *)
(* demutiplexor".                                                           *)
MessageDemutiplexorFirst ==
  started # {} => step \in {"relationship", "handler", "launched"}
=============================================================================
