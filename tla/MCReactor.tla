----------------------------- MODULE MCReactor -----------------------------
(* Small instances of Reactor.  Peers, sessions, descriptors and threads    *)
(* are interchangeable: nothing in the specification picks one of them.     *)
EXTENDS Reactor, TLC

Symmetry ==
  Permutations(Peer) \cup Permutations(Session) \cup Permutations(Fd)
    \cup Permutations(SubReactor) \cup Permutations(ServiceWorker)

(* ReactorStream checks liveness, where TLC cannot use symmetry.  There the *)
(* sessions and descriptors are numbers, and come up in order; and bounds   *)
(* on what each connection sends let the first one be read in many turns,   *)
(* and leave a second to be refused and a third to meet what it left.       *)
Sends == <<3, 0, 1>>

InOrder == \A s \in Session : idOf[s] # None => \A x \in 1..(s - 1) : idOf[x] # None

Bounded ==
  /\ InOrder' /\ fdOf'[1] \in {None, 1}
  /\ \A s \in Session : sent'[s] <= Sends[s]

StreamSpec == Init /\ [][Next /\ Bounded]_vars /\ Fairness
=============================================================================
