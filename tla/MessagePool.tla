---------------------------- MODULE MessagePool ----------------------------
(***************************************************************************)
(* MessageDemutiplexor and its ServiceWorker threads: the queue of         *)
(* contexts behind a mutex and a condition variable, from the workers'     *)
(* creation to the destructor that stops them with one nullptr each.       *)
(*                                                                         *)
(* A worker that finds the queue empty gives up the mutex and joins the    *)
(* condition variable's waiters in one step, but after it looked.  Whoever *)
(* holds the mutex to push cannot come between; the destructor pushes      *)
(* without it and can.  SessionDemutiplexor's queue of sessions has the    *)
(* same push, the same wait and the same destructor.                       *)
(***************************************************************************)
EXTENDS Integers, Sequences, FiniteSets

CONSTANTS
  Worker,       \* threads of the pool
  MaxMessages   \* bound: contexts pushed

ASSUME PoolAssumption ==
  /\ IsFiniteSet(Worker) /\ Worker # {}
  /\ MaxMessages \in Nat

VARIABLES
  queue,      \* queue_: numbers of contexts, 0 for nullptr
  pushed,     \* contexts pushed so far
  handled,    \* contexts whose callbacks have returned
  callback,   \* ServiceWorker::callbacks_ : "none", "added", "started"
  running,    \* ServiceWorker::running_
  pc, item,   \* what a worker does, and the context it popped
  phase,      \* where the thread that owns the demultiplexor is
  nulls,      \* sentinels pushed by the destructor
  missed      \* history: who was between check and wait at the last notify_all

poolVars == <<queue, pushed, handled>>
ownerVars == <<callback, running, phase, nulls, missed>>
vars == <<poolVars, ownerVars, pc, item>>

null == 0
Checked == {w \in Worker : pc[w] = "checked"}
Blocked == {w \in Worker : pc[w] = "blocked"}
Woken   == {w \in Worker : pc[w] = "woken"}
-----------------------------------------------------------------------------
(* Construction: for every worker AddCallback, under the worker's mutex,    *)
(* and then Start, which notifies without it.                               *)

AddCallback(w) ==
  /\ phase = "create" /\ callback[w] = "none"
  /\ \A v \in Worker : callback[v] # "added"
  /\ callback' = [callback EXCEPT ![w] = "added"]
  /\ UNCHANGED <<poolVars, running, pc, item, phase, nulls, missed>>

NotNotified(w) == pc[w]
Notified(w) == IF pc[w] = "asleep" THEN "starting" ELSE pc[w]

Start(w) ==
  /\ callback[w] = "added"
  /\ callback' = [callback EXCEPT ![w] = "started"]
  /\ pc' = [pc EXCEPT ![w] = Notified(w)]
  /\ UNCHANGED <<poolVars, running, item, phase, nulls, missed>>

Constructed ==
  /\ phase = "create" /\ \A w \in Worker : callback[w] = "started"
  /\ phase' = "run"
  /\ UNCHANGED <<poolVars, callback, running, pc, item, nulls, missed>>
-----------------------------------------------------------------------------
(* OnPushMessage, called by the sub-reactors: push and notify_one under the *)
(* mutex, which no worker between its check and its wait leaves free.       *)

NotifyOneIfEmpty ==
  IF queue = <<>> /\ Blocked # {}
  THEN \E w \in Blocked : pc' = [pc EXCEPT ![w] = "woken"]
  ELSE UNCHANGED pc

NotifyNobody == UNCHANGED pc

NotifyOne ==
  IF Blocked # {}
  THEN \E w \in Blocked : pc' = [pc EXCEPT ![w] = "woken"]
  ELSE UNCHANGED pc

OnPushMessage ==
  /\ phase = "run" /\ pushed < MaxMessages
  /\ Checked = {}
  /\ pushed' = pushed + 1
  /\ queue' = Append(queue, pushed + 1)
  /\ NotifyOne
  /\ UNCHANGED <<handled, item, ownerVars>>
-----------------------------------------------------------------------------
(* ServiceProcessor waits for its first callback, under the same mutex as   *)
(* AddCallback, so that to look and to sleep are one step.                  *)
AwaitCallback(w) ==
  /\ pc[w] = "starting"
  /\ pc' = [pc EXCEPT ![w] = IF callback[w] = "none" THEN "asleep" ELSE "loop"]
  /\ UNCHANGED <<poolVars, ownerVars, item>>

(* while (running_): OnMessageDispatch once more, or leave the thread.      *)
Loop(w) ==
  /\ pc[w] = "loop"
  /\ pc' = [pc EXCEPT ![w] = IF running[w] THEN "lock" ELSE "exited"]
  /\ UNCHANGED <<poolVars, ownerVars, item>>

(* With the mutex: look at the queue and take the oldest context.           *)
NotPopped == queue
Popped == Tail(queue)

Look(w) ==
  /\ pc[w] \in {"lock", "woken"}
  /\ Checked = {}
  /\ IF queue = <<>>
       THEN /\ pc' = [pc EXCEPT ![w] = "checked"]
            /\ UNCHANGED <<queue, item>>
       ELSE /\ pc' = [pc EXCEPT ![w] = "handle"]
            /\ item' = [item EXCEPT ![w] = Head(queue)]
            /\ queue' = Popped
  /\ UNCHANGED <<pushed, handled, ownerVars>>

(* wait() lets the mutex go and joins the waiters.                          *)
Block(w) ==
  /\ pc[w] = "checked"
  /\ pc' = [pc EXCEPT ![w] = "blocked"]
  /\ UNCHANGED <<poolVars, ownerVars, item>>

(* A condition variable may wake up by itself.                              *)
WakeUp(w) ==
  /\ pc[w] \in {"asleep", "blocked"}
  /\ pc' = [pc EXCEPT ![w] = IF @ = "asleep" THEN "starting" ELSE "woken"]
  /\ UNCHANGED <<poolVars, ownerVars, item>>

(* The callbacks have run, unless the context is nullptr.                   *)
Handle(w) ==
  /\ pc[w] = "handle"
  /\ handled' = handled \cup ({item[w]} \ {null})
  /\ item' = [item EXCEPT ![w] = null]
  /\ pc' = [pc EXCEPT ![w] = "loop"]
  /\ UNCHANGED <<queue, pushed, ownerVars>>
-----------------------------------------------------------------------------
(* The destructor, once the sub-reactors are gone: Stop every worker, push  *)
(* a nullptr for each of them and notify all, without the mutex, then join. *)

Stop(w) ==
  /\ phase \in {"run", "stop"} /\ running[w]
  /\ phase' = "stop"
  /\ running' = [running EXCEPT ![w] = FALSE]
  /\ UNCHANGED <<poolVars, callback, pc, item, nulls, missed>>

PushNull ==
  /\ phase = "stop" /\ \A w \in Worker : ~running[w]
  /\ queue' = Append(queue, null)
  /\ nulls' = nulls + 1
  /\ phase' = "notify"
  /\ UNCHANGED <<pushed, handled, callback, running, pc, item, missed>>

(* One nullptr too few: index starts at 1.                                  *)
OneTooFew == nulls + 1 = Cardinality(Worker)
OneForEach == nulls = Cardinality(Worker)

NobodyWakes == pc
BlockedWake == [w \in Worker |-> IF pc[w] = "blocked" THEN "woken" ELSE pc[w]]

NotifyAll ==
  /\ phase = "notify"
  /\ phase' = IF OneForEach THEN "join" ELSE "stop"
  /\ pc' = BlockedWake
  /\ missed' = Checked
  /\ UNCHANGED <<poolVars, callback, running, nulls, item>>

Joined ==
  /\ phase = "join" /\ \A w \in Worker : pc[w] = "exited"
  /\ phase' = "done"
  /\ UNCHANGED <<poolVars, callback, running, nulls, pc, item, missed>>
-----------------------------------------------------------------------------
Init ==
  /\ queue = <<>> /\ pushed = 0 /\ handled = {}
  /\ callback = [w \in Worker |-> "none"]
  /\ running = [w \in Worker |-> TRUE]
  /\ pc = [w \in Worker |-> "starting"]
  /\ item = [w \in Worker |-> null]
  /\ phase = "create" /\ nulls = 0 /\ missed = {}

OwnerStep(w) == AddCallback(w) \/ Start(w) \/ Stop(w)

WorkerStep(w) ==
  AwaitCallback(w) \/ Loop(w) \/ Look(w) \/ Block(w) \/ Handle(w)

Next ==
  \/ \E w \in Worker : OwnerStep(w) \/ WorkerStep(w) \/ WakeUp(w)
  \/ Constructed \/ OnPushMessage \/ PushNull \/ NotifyAll \/ Joined

Spec == Init /\ [][Next]_vars

(* The workers run when they can, and get the mutex when it is let go of    *)
(* again and again: it is held for a few instructions at a time.  The       *)
(* owner's thread finishes the constructor, and the destructor if it enters *)
(* it; nothing forces it to, nobody has to push and no wakeup is owed.      *)
FairSpec ==
  /\ Spec
  /\ \A w \in Worker :
       /\ WF_vars(AwaitCallback(w) \/ Loop(w) \/ Block(w) \/ Handle(w))
       /\ SF_vars(Look(w))
       /\ WF_vars(AddCallback(w) \/ Start(w))
       /\ WF_vars(phase = "stop" /\ Stop(w))
  /\ WF_vars(Constructed) /\ WF_vars(PushNull) /\ WF_vars(NotifyAll) /\ WF_vars(Joined)
-----------------------------------------------------------------------------
(* Every variable holds what the code's member can hold.                    *)
TypeOK ==
  /\ queue \in Seq(0..MaxMessages)
  /\ pushed \in 0..MaxMessages
  /\ handled \subseteq 1..MaxMessages
  /\ callback \in [Worker -> {"none", "added", "started"}]
  /\ running \in [Worker -> BOOLEAN]
  /\ pc \in [Worker -> {"starting", "asleep", "loop", "lock", "checked",
                        "blocked", "woken", "handle", "exited"}]
  /\ item \in [Worker -> 0..MaxMessages]
  /\ phase \in {"create", "run", "stop", "notify", "join", "done"}
  /\ nulls \in 0..Cardinality(Worker)
  /\ missed \subseteq Worker

(* A worker sleeps in OnMessageDispatch only if everything in the queue has *)
(* a woken worker on its way to it: notify_one for every push is enough,    *)
(* although a worker that was busy may take what another was woken for.     *)
WorkConserving ==
  phase \in {"create", "run"} /\ Blocked # {} =>
    Len(queue) <= Cardinality(Woken)

(* No worker that was started sleeps on in ServiceProcessor: AddCallback    *)
(* takes the mutex the worker checks callbacks_ under.                      *)
StartedIsAwake == \A w \in Worker : callback[w] = "started" => pc[w] # "asleep"

(* One nullptr for each worker is enough: once they are pushed, the queue   *)
(* holds at least as many items as workers may still pop one, whatever      *)
(* contexts were left in it and in whatever order the workers stopped.      *)
MayPop(w) == pc[w] \in {"lock", "checked", "blocked", "woken"}

EnoughSentinels ==
  phase = "join" => Cardinality({w \in Worker : MayPop(w)}) <= Len(queue)

(* So while the destructor joins, a worker waits only if it was between its *)
(* check and its wait at the last notify_all.                               *)
SleepsOnlyIfMissed == phase = "join" => Checked \cup Blocked \subseteq missed

(* Why the join ends: every step a worker takes meanwhile, a wakeup that    *)
(* nobody caused included, brings it nearer to the end of its thread.  No   *)
(* worker goes round its loop again, or back to sleep.                      *)
StepsLeft ==
  [exited |-> 0, loop |-> 1, handle |-> 2, starting |-> 2, lock |-> 3, woken |-> 3,
   blocked |-> 4, checked |-> 5, asleep |-> 6]

JoinDescends ==
  [][phase = "join" =>
       \A w \in Worker : pc'[w] # pc[w] => StepsLeft[pc'[w]] < StepsLeft[pc[w]]]_vars

(* What PushedIsHandled promises of the end, said of a state: when every    *)
(* worker waits, everything pushed has been handled.                        *)
RestMeansHandled == phase = "run" /\ Blocked = Worker => handled = 1..pushed

(* The inductive invariant behind these: the owner's progress, what a       *)
(* worker between its check and its wait has seen, and the items that are   *)
(* left or taken for the sentinels pushed so far.                           *)
ConstructorOrder ==
  /\ phase # "create" => \A w \in Worker : callback[w] = "started"
  /\ phase \in {"create", "run"} =>
       \A w \in Worker : running[w] /\ pc[w] # "exited"

DestructorOrder ==
  /\ phase \in {"create", "run"} => nulls = 0
  /\ phase = "stop" => nulls < Cardinality(Worker)
  /\ phase \in {"join", "done"} => nulls = Cardinality(Worker)
  /\ phase \in {"notify", "join", "done"} \/ nulls > 0 => \A w \in Worker : ~running[w]

CheckedIsEmpty ==
  phase \in {"create", "run"} /\ Checked # {} => queue = <<>>

ItemsLeft == nulls <= Len(queue) + Cardinality({w \in Worker : ~MayPop(w)})

(* Contexts are queued in the order of their numbers, before any nullptr,   *)
(* and a worker has one in hand only while it handles it.                   *)
InOrder ==
  /\ \A i \in DOMAIN queue :
       /\ queue[i] <= pushed
       /\ queue[i] = null => nulls > 0
       /\ \A j \in DOMAIN queue : i < j /\ queue[j] # null => queue[i] # null /\ queue[i] < queue[j]
  /\ \A w \in Worker : item[w] # null => pc[w] = "handle"

PoolInv ==
  /\ TypeOK /\ StartedIsAwake /\ ConstructorOrder /\ DestructorOrder
  /\ CheckedIsEmpty /\ WorkConserving /\ ItemsLeft /\ InOrder
  /\ EnoughSentinels /\ SleepsOnlyIfMissed

(* Pushing, popping and handling are those of a queue that gives every      *)
(* context to one worker, in order and once, with the nullptrs, the waits   *)
(* and the destructor as stuttering steps.                                  *)
WQ == INSTANCE WorkQueue WITH
        waiting <- {queue[i] : i \in DOMAIN queue} \ {null}, taken <- item

QueueSpec == WQ!Spec

(* While nobody destroys the pool, what is pushed is handled.               *)
PushedIsHandled ==
  \A m \in 1..MaxMessages : pushed >= m ~> m \in handled \/ phase \notin {"create", "run"}

(* The destructor ends, unless its last notify_all fell between a worker's  *)
(* check and its wait, which only a push without the mutex allows: that     *)
(* worker may sleep on beside the nullptr meant for it.                     *)
ShutdownCompletes ==
  phase = "stop" ~> phase = "done" \/ (phase = "join" /\ missed # {})
=============================================================================
