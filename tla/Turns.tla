-------------------------------- MODULE Turns --------------------------------
(***************************************************************************)
(* What selector, queue and sub-reactors promise a connection, without     *)
(* events, descriptors, addresses and locks: it is read in turns, each by  *)
(* one sub-reactor that alone has it from the report of its event to the   *)
(* end of its last read, and what is read in a turn is passed on once.     *)
(***************************************************************************)
EXTENDS Integers

CONSTANTS Session, SubReactor, MaxUnits, None

VARIABLES
  life,      \* "new" before accept(), "in" while registered, then "out"
  watched,   \* sessions whose event may be reported
  queued,    \* sessions that wait for a sub-reactor
  reading,   \* the session whose turn it is with a sub-reactor, or None
  taken,     \* how many units have been read from a session
  parcel,    \* what a sub-reactor has read and not passed on
  passed     \* what has been passed on to the service

vars == <<life, watched, queued, reading, taken, parcel, passed>>

Owned(s) == s \in watched \cup queued \/ \E r \in SubReactor : reading[r] = s

(* A session whose address is registered already is out at once.            *)
Accept(s) ==
  /\ life[s] = "new"
  /\ \E l \in {"in", "out"} : life' = [life EXCEPT ![s] = l]
  /\ UNCHANGED <<watched, queued, reading, taken, parcel, passed>>

Watch(s) ==
  /\ life[s] = "in" /\ ~Owned(s)
  /\ watched' = watched \cup {s}
  /\ UNCHANGED <<life, queued, reading, taken, parcel, passed>>

Report(s) ==
  /\ watched' = watched \ {s} /\ queued' = queued \cup {s}
  /\ UNCHANGED <<life, reading, taken, parcel, passed>>

Take(r, s) ==
  /\ reading[r] = None /\ parcel[r] = {}
  /\ queued' = queued \ {s}
  /\ reading' = [reading EXCEPT ![r] = s]
  /\ UNCHANGED <<life, watched, taken, parcel, passed>>

(* A turn goes on where the one before it ended.                            *)
Read(r, n) ==
  LET s == reading[r]
  IN  /\ s # None /\ taken[s] < n
      /\ parcel' = [parcel EXCEPT ![r] = @ \cup {<<s, u>> : u \in taken[s] + 1 .. n}]
      /\ taken' = [taken EXCEPT ![s] = n]
      /\ UNCHANGED <<life, watched, queued, reading, passed>>

(* The turn is over: the session is watched again before its units are      *)
(* passed on,                                                               *)
Release(r) ==
  /\ reading[r] # None
  /\ watched' = watched \cup {reading[r]}
  /\ reading' = [reading EXCEPT ![r] = None]
  /\ UNCHANGED <<life, queued, taken, parcel, passed>>

Pass(r) ==
  /\ reading[r] = None
  /\ passed' = passed \cup parcel[r]
  /\ parcel' = [parcel EXCEPT ![r] = {}]
  /\ UNCHANGED <<life, watched, queued, reading, taken>>

(* or the session is at its end, and the units of this turn go with it.     *)
Drop(r) ==
  /\ reading[r] # None
  /\ life' = [life EXCEPT ![reading[r]] = "out"]
  /\ reading' = [reading EXCEPT ![r] = None]
  /\ parcel' = [parcel EXCEPT ![r] = {}]
  /\ UNCHANGED <<watched, queued, taken, passed>>

Init ==
  /\ life = [s \in Session |-> "new"]
  /\ watched = {} /\ queued = {} /\ passed = {}
  /\ reading = [r \in SubReactor |-> None]
  /\ taken = [s \in Session |-> 0]
  /\ parcel = [r \in SubReactor |-> {}]

Next ==
  \/ \E s \in Session : Accept(s) \/ Watch(s)
  \/ \E s \in watched : Report(s)
  \/ \E r \in SubReactor :
       \/ \E s \in queued : Take(r, s)
       \/ \E n \in 1..MaxUnits : Read(r, n)
       \/ Release(r) \/ Pass(r) \/ Drop(r)

Spec == Init /\ [][Next]_vars
-----------------------------------------------------------------------------
(* A session is in one place: watched, queued, or having its turn with one  *)
(* sub-reactor; and it is registered then.                                  *)
OneTurn ==
  /\ watched \cap queued = {}
  /\ \A s \in Session : Owned(s) => life[s] = "in"
  /\ \A r \in SubReactor : reading[r] # None =>
       /\ reading[r] \notin watched \cup queued
       /\ \A q \in SubReactor : reading[q] = reading[r] => q = r

(* A unit that was read is in one parcel or passed on, never in two places, *)
(* and in none only when its session is out.                                *)
PassedOnce ==
  /\ \A s \in Session, u \in Int :
       /\ <<s, u>> \in passed \cup UNION {parcel[r] : r \in SubReactor} =>
            u \in 1..taken[s]
       /\ life[s] = "in" /\ u \in 1..taken[s] =>
            <<s, u>> \in passed \cup UNION {parcel[r] : r \in SubReactor}
  /\ \A r \in SubReactor :
       /\ parcel[r] \cap passed = {}
       /\ \A q \in SubReactor : q # r => parcel[q] \cap parcel[r] = {}
=============================================================================
