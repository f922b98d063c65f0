------------------------------ MODULE Shutdown ------------------------------
(***************************************************************************)
(* The destruction of a NetWrapper whose threads have been started: the    *)
(* handler goes first, then SessionDemutiplexor's destructor stops the     *)
(* sub-reactors with one nullptr each, then its members go in the reverse  *)
(* of their declaration, the selector and its thread last of all.  (The    *)
(* destructor of MessageDemutiplexor, which follows, is MessagePool's.)    *)
(*                                                                         *)
(* A part is alive until its destructor begins to take it apart.  A thread *)
(* that uses one after that is undefined: the use is recorded in dangling  *)
(* and the behaviour ends.  Sessions in the queue are all alike.           *)
(*                                                                         *)
(* The nullptrs are pushed without the mutex under which the selector      *)
(* pushes and the sub-reactors pop, so a push has a beginning, where it    *)
(* finds the end of the queue, and an end, where it writes there and moves *)
(* it.  Pushes that overlap may overwrite one another, or leave a deque     *)
(* whose parts do not fit together: torn, and the behaviour ends.          *)
(***************************************************************************)
EXTENDS Integers, Sequences, FiniteSets

CONSTANTS
  SubReactor,
  MaxEvents    \* bound: readable events the selector dispatches

ASSUME ShutdownAssumption ==
  IsFiniteSet(SubReactor) /\ SubReactor # {} /\ MaxEvents \in Nat

VARIABLES
  phase,      \* where the destructing thread is
  alive,      \* parts not yet destroyed
  running,    \* SubReactor::running_
  nulls,      \* nullptrs pushed
  missed,     \* history: who was between check and wait at the last notify_all
  sessionQ,   \* SessionDemutiplexor::sessions_
  found,      \* where a push in progress found the end of sessions_
  lost,       \* history: items by which a push of the selector shortened it
  torn,       \* sessions_ no longer fits together
  pc,         \* what a sub-reactor does
  loop,       \* what the selector's thread does
  events,     \* events dispatched so far
  broken,     \* event_base_loopbreak was called
  messages,   \* contexts the workers have yet to handle
  dangling    \* <<thread, part>>: a use of a part that is gone

mainVars == <<phase, alive, running, nulls, missed, broken>>
queueVars == <<sessionQ, found, lost, torn, pc>>
vars == <<mainVars, queueVars, loop, events, messages, dangling>>

(* "queue" stands for SessionDemutiplexor's queue with its mutex, condition  *)
(* variable and push_msg_callbacks_; "callbacks" for those of MainReactor   *)
(* and Acceptor.                                                            *)
Part == {"handler", "reactors", "queue", "manager", "callbacks", "events", "base"}

null == "nullptr"
Checked == {r \in SubReactor : pc[r] = "checked"}
Blocked == {r \in SubReactor : pc[r] = "blocked"}

NobodyWakes == pc
BlockedWake == [r \in SubReactor |-> IF pc[r] = "blocked" THEN "woken" ELSE pc[r]]

(* A thread uses a set of parts: all alive, or undefined.                   *)
Uses(thread, parts) ==
  dangling' = dangling \cup {<<thread, p>> : p \in parts \ alive}

(* std::queue::push, in progress while the thread is between its steps.     *)
Pusher == {"main", "selector"}
Pushing(p) == IF p = "main" THEN phase = "push" ELSE loop = "pushing"

BeginPush(p) ==
  /\ found' = [found EXCEPT ![p] = Len(sessionQ)]
  /\ UNCHANGED <<sessionQ, lost, torn>>

(* Nothing else was pushed meanwhile, and nobody else is about to.          *)
Alone(p) == found[p] = Len(sessionQ) /\ \A o \in Pusher \ {p} : ~Pushing(o)

(* The item x goes behind the rest; or, after another push, over what was   *)
(* pushed since, with the end of the queue where this push leaves it.       *)
Overwritten(p, x) ==
  IF found[p] < 0 THEN {<<>>}
  ELSE {Append(SubSeq(sessionQ, 1, found[p]), y) : y \in {x, sessionQ[found[p] + 1]}}

EndPush(p, x) ==
  /\ found' = [found EXCEPT ![p] = 0]
  /\ \/ /\ sessionQ' = Append(sessionQ, x)
        /\ torn' \in (IF Alone(p) THEN {FALSE} ELSE BOOLEAN)
     \/ /\ found[p] \in -1..(Len(sessionQ) - 1)
        /\ sessionQ' \in Overwritten(p, x)
        /\ UNCHANGED torn
-----------------------------------------------------------------------------
(* The destructing thread.                                                  *)

Destroy(part, from, to) ==
  /\ phase = from /\ phase' = to
  /\ alive' = alive \ {part}
  /\ UNCHANGED <<running, nulls, missed, broken, queueVars, loop, events,
                 messages, dangling>>

(* service_handler_ is declared last and destroyed first.                   *)
DestroyHandler == Destroy("handler", "run", "stop")

Stop(r) ==
  /\ phase = "stop" /\ running[r]
  /\ running' = [running EXCEPT ![r] = FALSE]
  /\ UNCHANGED <<phase, alive, nulls, missed, broken, queueVars, loop, events,
                 messages, dangling>>

(* sessions_.push(nullptr), without the mutex.                              *)
BeginPushNull ==
  /\ phase = "stop" /\ \A r \in SubReactor : ~running[r]
  /\ phase' = "push"
  /\ BeginPush("main")
  /\ UNCHANGED <<alive, running, nulls, missed, broken, pc, loop, events, messages, dangling>>

PushNull ==
  /\ phase = "push"
  /\ phase' = "notify"
  /\ EndPush("main", null)
  /\ nulls' = nulls + 1
  /\ UNCHANGED <<alive, running, missed, broken, lost, pc, loop, events, messages, dangling>>

OneTooFew == nulls + 1 = Cardinality(SubReactor)
OneForEach == nulls = Cardinality(SubReactor)

NotifyAll ==
  /\ phase = "notify"
  /\ phase' = IF OneForEach THEN "clear" ELSE "stop"
  /\ pc' = BlockedWake /\ missed' = Checked
  /\ UNCHANGED <<alive, running, nulls, broken, sessionQ, found, lost, torn, loop,
                 events, messages, dangling>>

(* sub_reactors_.clear(): the map is taken apart while each reactor's       *)
(* destructor joins its thread.                                             *)
ClearReactors == Destroy("reactors", "clear", "joinReactors")

NobodyIsJoined == TRUE
AllExited == \A r \in SubReactor : pc[r] = "exited"

JoinedReactors ==
  /\ phase = "joinReactors" /\ AllExited
  /\ phase' = "queue"
  /\ UNCHANGED <<alive, running, nulls, missed, broken, queueVars, loop, events,
                 messages, dangling>>

(* The members of SessionDemutiplexor, then MainReactor's and Acceptor's    *)
(* callbacks, then the events of ~Selector.                                 *)
DestroyQueue == Destroy("queue", "queue", "manager")
DestroyManager == Destroy("manager", "manager", "callbacks")
DestroyCallbacks == Destroy("callbacks", "callbacks", "events")
DeleteEvents == Destroy("events", "events", "break")

(* event_base_loopbreak sets a flag.  It would wake the loop's thread only  *)
(* in a base made for several threads.                                      *)
NotTold == broken
ToldToLeave == TRUE

LoopBreak ==
  /\ phase = "break" /\ phase' = "free"
  /\ broken' = ToldToLeave
  /\ UNCHANGED <<alive, running, nulls, missed, queueVars, loop, events, messages, dangling>>

FreeBase == Destroy("base", "free", "joinSelector")

JoinedSelector ==
  /\ phase = "joinSelector" /\ loop = "exited"
  /\ phase' = "done"
  /\ UNCHANGED <<alive, running, nulls, missed, broken, queueVars, loop, events,
                 messages, dangling>>
-----------------------------------------------------------------------------
(* The selector's thread.                                                   *)

(* SelectorMainloop waits for running_; ~Selector sets it to false and      *)
(* notifies nobody.                                                         *)
StartLoop ==
  /\ loop = "begin"
  /\ loop' = IF phase \in {"events", "break", "free", "joinSelector"} THEN "asleep" ELSE "enter"
  /\ UNCHANGED <<mainVars, queueVars, events, messages, dangling>>

(* event_base_loop begins by clearing the flag of event_base_loopbreak.     *)
EnterLoop ==
  /\ loop = "enter"
  /\ loop' = "poll"
  /\ broken' = FALSE
  /\ Uses("selector", {"base"})
  /\ UNCHANGED <<phase, alive, running, nulls, missed, queueVars, events, messages>>

(* Data arrives: OnDataRecv.                                                *)
Dispatch ==
  /\ loop = "poll" /\ events < MaxEvents /\ "events" \in alive
  /\ events' = events + 1
  /\ loop' = "find"
  /\ UNCHANGED <<mainVars, queueVars, messages, dangling>>

FindSession ==
  /\ loop = "find"
  /\ loop' = "push"
  /\ Uses("selector", {"manager"})
  /\ UNCHANGED <<mainVars, queueVars, events, messages>>

(* recv_callback_, recv_callbacks_ and OnPushSession: under the mutex push  *)
(* and notify_one.                                                          *)
OnPushSession ==
  /\ loop = "push" /\ Checked = {}
  /\ loop' = "pushing"
  /\ Uses("selector", {"callbacks", "queue"})
  /\ BeginPush("selector")
  /\ UNCHANGED <<mainVars, pc, events, messages>>

PushSession ==
  /\ loop = "pushing"
  /\ loop' = "return"
  /\ Uses("selector", {"queue"})
  /\ EndPush("selector", "session")
  /\ lost' = IF Len(sessionQ') < Len(sessionQ) THEN lost + Len(sessionQ) - Len(sessionQ')
                                               ELSE lost
  /\ IF Blocked # {} THEN \E r \in Blocked : pc' = [pc EXCEPT ![r] = "woken"]
                     ELSE UNCHANGED pc
  /\ UNCHANGED <<mainVars, events, messages>>

(* Back in event_base_loop: leave, or poll again.                           *)
ReturnToLoop ==
  /\ loop = "return"
  /\ loop' = IF broken THEN "exited" ELSE "poll"
  /\ Uses("selector", {"base"})
  /\ UNCHANGED <<mainVars, queueVars, events, messages>>
-----------------------------------------------------------------------------
(* The sub-reactors.                                                        *)

(* Mainloop waits for running_ to be set; Stop clears it without a word.    *)
StartReactor(r) ==
  /\ pc[r] = "begin"
  /\ pc' = [pc EXCEPT ![r] = IF running[r] THEN "loop" ELSE "asleep"]
  /\ UNCHANGED <<mainVars, sessionQ, found, lost, torn, loop, events, messages, dangling>>

Loop(r) ==
  /\ pc[r] = "loop"
  /\ pc' = [pc EXCEPT ![r] = IF running[r] THEN "lock" ELSE "exited"]
  /\ UNCHANGED <<mainVars, sessionQ, found, lost, torn, loop, events, messages, dangling>>

(* OnSessionDispatch: with the mutex, which the selector holds while it     *)
(* pushes, look at the queue and take from it.  What the destructing thread *)
(* is pushing may be torn by it.                                            *)
Look(r) ==
  /\ pc[r] \in {"lock", "woken"} /\ Checked = {} /\ ~Pushing("selector")
  /\ Uses("reactor", {"queue"})
  /\ IF sessionQ = <<>>
       THEN /\ pc' = [pc EXCEPT ![r] = "checked"]
            /\ UNCHANGED <<sessionQ, found, torn>>
       ELSE /\ pc' = [pc EXCEPT ![r] = IF Head(sessionQ) = null THEN "loop" ELSE "find"]
            /\ sessionQ' = Tail(sessionQ)
            /\ found' = [p \in Pusher |-> IF Pushing(p) THEN found[p] - 1 ELSE found[p]]
            /\ torn' \in (IF Pushing("main") THEN BOOLEAN ELSE {FALSE})
  /\ UNCHANGED <<mainVars, lost, loop, events, messages>>

Block(r) ==
  /\ pc[r] = "checked"
  /\ pc' = [pc EXCEPT ![r] = "blocked"]
  /\ UNCHANGED <<mainVars, sessionQ, found, lost, torn, loop, events, messages, dangling>>

Spurious(r) ==
  /\ pc[r] \in {"asleep", "blocked"}
  /\ pc' = [pc EXCEPT ![r] = IF @ = "asleep" THEN "begin" ELSE "woken"]
  /\ UNCHANGED <<mainVars, sessionQ, found, lost, torn, loop, events, messages, dangling>>

(* It looks itself up in sub_reactors_.                                     *)
FindReactor(r) ==
  /\ pc[r] = "find"
  /\ pc' = [pc EXCEPT ![r] = "serve"]
  /\ Uses("reactor", {"reactors"})
  /\ UNCHANGED <<mainVars, sessionQ, found, lost, torn, loop, events, messages>>

(* OnDataRecv: read, and delete the session or put the event back and push. *)
Serve(r) ==
  /\ pc[r] = "serve"
  /\ pc' = [pc EXCEPT ![r] = "loop"]
  /\ \/ Uses("reactor", {"manager"}) /\ UNCHANGED messages
     \/ Uses("reactor", {"events", "base", "queue"}) /\ messages' = messages + 1
  /\ UNCHANGED <<mainVars, sessionQ, found, lost, torn, loop, events>>

(* A worker calls ServiceHandler::OnHandler.                                *)
Handle ==
  /\ messages > 0 /\ messages' = messages - 1
  /\ Uses("worker", {"handler"})
  /\ UNCHANGED <<mainVars, queueVars, loop, events>>
-----------------------------------------------------------------------------
(* All threads exist and Start has been called for each; some may not have  *)
(* run yet, and the selector may have missed its notification (Startup).    *)
Init ==
  /\ phase = "run" /\ alive = Part
  /\ running = [r \in SubReactor |-> TRUE]
  /\ nulls = 0 /\ missed = {} /\ broken = FALSE
  /\ sessionQ = <<>> /\ found = [p \in Pusher |-> 0] /\ lost = 0 /\ torn = FALSE
  /\ pc = [r \in SubReactor |-> "begin"]
  /\ loop \in {"begin", "asleep"}
  /\ events = 0 /\ messages = 0
  /\ dangling = {}

MainStep ==
  \/ \E r \in SubReactor : Stop(r)
  \/ BeginPushNull \/ PushNull \/ NotifyAll \/ ClearReactors \/ JoinedReactors
  \/ DestroyQueue \/ DestroyManager \/ DestroyCallbacks \/ DeleteEvents
  \/ LoopBreak \/ FreeBase \/ JoinedSelector

SelectorStep == StartLoop \/ EnterLoop \/ FindSession \/ PushSession \/ ReturnToLoop

ReactorStep(r) ==
  StartReactor(r) \/ Loop(r) \/ Block(r) \/ FindReactor(r) \/ Serve(r)

Defined == dangling = {} /\ ~torn

Next ==
  /\ Defined
  /\ \/ DestroyHandler \/ MainStep
     \/ SelectorStep \/ Dispatch \/ OnPushSession
     \/ \E r \in SubReactor : ReactorStep(r) \/ Look(r) \/ Spurious(r)
     \/ Handle

Spec == Init /\ [][Next]_vars

(* Threads run when they can and get a mutex that is let go of again and    *)
(* again.  Nobody has to destroy anything, to send or to wake up by itself. *)
FairSpec ==
  /\ Spec
  /\ WF_vars(Defined /\ MainStep)
  /\ WF_vars(Defined /\ SelectorStep)
  /\ SF_vars(Defined /\ OnPushSession)
  /\ WF_vars(Defined /\ Handle)
  /\ \A r \in SubReactor : /\ WF_vars(Defined /\ ReactorStep(r))
                           /\ SF_vars(Defined /\ Look(r))
-----------------------------------------------------------------------------
(* Every variable holds what the code's member can hold; no more nullptrs   *)
(* are pushed than there are sub-reactors.                                  *)
TypeOK ==
  /\ phase \in {"run", "stop", "push", "notify", "clear", "joinReactors", "queue",
                "manager", "callbacks", "events", "break", "free", "joinSelector", "done"}
  /\ alive \subseteq Part
  /\ running \in [SubReactor -> BOOLEAN] /\ broken \in BOOLEAN
  /\ nulls \in 0..Cardinality(SubReactor) /\ missed \subseteq SubReactor
  /\ sessionQ \in Seq({"session", null})
  /\ found \in [Pusher -> Int] /\ lost \in Nat /\ torn \in BOOLEAN
  /\ pc \in [SubReactor -> {"begin", "asleep", "loop", "lock", "checked", "blocked",
                            "woken", "find", "serve", "exited"}]
  /\ loop \in {"begin", "asleep", "enter", "poll", "find", "push", "pushing", "return",
              "exited"}
  /\ events \in 0..MaxEvents /\ messages \in Nat
  /\ dangling \subseteq {"selector", "reactor", "worker"} \X Part

(* One nullptr for each sub-reactor is enough, although the selector goes   *)
(* on pushing sessions and a session may go over a nullptr: the queue never *)
(* holds fewer items than sub-reactors that may still take one, but for     *)
(* those that a push of the selector undid, which takes one during which    *)
(* two nullptrs or more were pushed.                                        *)
MayPop(r) == pc[r] \in {"lock", "checked", "blocked", "woken"}

EnoughSentinels ==
  phase \in {"clear", "joinReactors"} =>
    Len(sessionQ) + lost >= Cardinality({r \in SubReactor : MayPop(r)})

(* So while they are joined, a sub-reactor waits for a session only if it   *)
(* was between its check and its wait at the last notify_all, or if items   *)
(* were lost.                                                               *)
SleepsOnlyIfMissed ==
  phase \in {"clear", "joinReactors"} /\ lost = 0 => Checked \cup Blocked \subseteq missed

(* Why the join ends, if every thread has begun: each step a sub-reactor    *)
(* takes meanwhile, a wakeup that nobody caused included, brings it nearer  *)
(* to the end of its thread, although the selector goes on pushing sessions *)
(* and the sub-reactor on serving them.  One that had not begun only goes   *)
(* back to sleep.                                                           *)
StepsLeft ==
  [exited |-> 0, loop |-> 1, serve |-> 2, find |-> 3, lock |-> 4, woken |-> 4,
   blocked |-> 5, checked |-> 6]

Nearer(r) ==
  \/ {pc[r], pc'[r]} = {"begin", "asleep"}
  \/ pc[r] \in DOMAIN StepsLeft /\ StepsLeft[pc'[r]] < StepsLeft[pc[r]]

JoinDescends ==
  [][\A r \in SubReactor :
       phase \in {"clear", "joinReactors"} /\ lost = 0 /\ pc'[r] # pc[r] => Nearer(r)]_vars

(* The destructor's progress, the sentinels that are left or taken, and     *)
(* what is still there while the sub-reactors are not all joined.           *)
DestructorOrder ==
  /\ phase = "run" => nulls = 0
  /\ phase \in {"stop", "push"} => nulls < Cardinality(SubReactor)
  /\ phase \notin {"run", "stop", "push", "notify"} => nulls = Cardinality(SubReactor)
  /\ phase \notin {"run", "stop"} \/ nulls > 0 => \A r \in SubReactor : ~running[r]

ItemsLeft ==
  LET past == Cardinality({r \in SubReactor : ~MayPop(r)})
  IN  /\ nulls <= Len(sessionQ) + past + lost
      /\ Pushing("main") => nulls <= found["main"] + past + lost

MembersLast ==
  \/ phase \in {"run", "stop", "push", "notify", "clear", "joinReactors"}
     /\ {"queue", "manager", "events", "base"} \subseteq alive
  \/ AllExited

(* A part is used after its destruction only by a thread that is joined     *)
(* later: by a worker the handler, by a sub-reactor the map that is cleared *)
(* while it is joined, and by the selector's thread all that goes before    *)
(* it.  The queue, the session manager and the selector outlive the         *)
(* sub-reactors that work with them.                                        *)
DanglesOnlyWhereUnjoined ==
  dangling \subseteq {<<"worker", "handler">>, <<"reactor", "reactors">>}
     \cup {"selector"} \X {"queue", "manager", "callbacks", "base"}

ShutdownInv ==
  /\ TypeOK /\ DestructorOrder /\ ItemsLeft /\ EnoughSentinels
  /\ SleepsOnlyIfMissed /\ MembersLast /\ DanglesOnlyWhereUnjoined

(* The sub-reactors are joined, unless one had not begun to run when it was *)
(* stopped, and waits for running_ from then on; or the last notify_all     *)
(* fell between a check and a wait; or items were lost by pushes that       *)
(* overlap; or what was taken apart or torn was used.                       *)
NeverStarted == \E r \in SubReactor : pc[r] = "asleep"

ReactorsAreJoined ==
  phase = "stop" ~>
    \/ phase = "queue" \/ ~Defined
    \/ phase = "joinReactors" /\ (NeverStarted \/ missed # {} \/ lost > 0)

(* The selector's thread is joined if it is in a callback when it is told   *)
(* to leave, unless the base is freed before it is back from it.  (One that *)
(* polls is not woken, and one that never started is not told.)             *)
SelectorIsJoined ==
  phase = "free" /\ loop = "return" ~> phase = "done" \/ dangling # {}
=============================================================================
