----------------------------- MODULE WorkQueue -----------------------------
(***************************************************************************)
(* What MessageDemutiplexor promises its callers, without its locks, its   *)
(* sleeping threads, its sentinels or its destructor: the contexts, which  *)
(* are numbered as they are pushed, are taken in that order, each by one   *)
(* worker and once, and a worker takes the next one when it has finished.  *)
(***************************************************************************)
EXTENDS Integers

CONSTANTS Worker, MaxMessages

VARIABLES
  pushed,    \* contexts pushed so far
  waiting,   \* pushed and not taken
  taken,     \* the context a worker has in hand, 0 for none
  handled    \* contexts whose callbacks have returned

vars == <<pushed, waiting, taken, handled>>

Push ==
  /\ pushed < MaxMessages
  /\ pushed' = pushed + 1
  /\ waiting' = waiting \cup {pushed + 1}
  /\ UNCHANGED <<taken, handled>>

Take(w, m) ==
  /\ taken[w] = 0 /\ \A n \in waiting : m <= n
  /\ waiting' = waiting \ {m}
  /\ taken' = [taken EXCEPT ![w] = m]
  /\ UNCHANGED <<pushed, handled>>

Finish(w) ==
  /\ taken[w] # 0
  /\ handled' = handled \cup {taken[w]}
  /\ taken' = [taken EXCEPT ![w] = 0]
  /\ UNCHANGED <<pushed, waiting>>

Init ==
  /\ pushed = 0 /\ waiting = {} /\ handled = {}
  /\ taken = [w \in Worker |-> 0]

Next ==
  \/ Push
  \/ \E w \in Worker : Finish(w) \/ \E m \in waiting : Take(w, m)

Spec == Init /\ [][Next]_vars
-----------------------------------------------------------------------------
(* Every context pushed is in one place: it waits, or one worker has it, or *)
(* it has been handled.                                                     *)
ExactlyOnce ==
  /\ pushed \in Nat /\ taken \in [Worker -> 0..pushed]
  /\ waiting \cup handled \cup {taken[w] : w \in Worker} \cup {0} = 0..pushed
  /\ waiting \cap handled = {} /\ 0 \notin waiting \cup handled
  /\ \A w \in Worker :
       /\ taken[w] \notin waiting \cup handled
       /\ \A v \in Worker : taken[v] = taken[w] => v = w \/ taken[w] = 0
=============================================================================
