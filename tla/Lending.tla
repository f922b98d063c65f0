------------------------------ MODULE Lending ------------------------------
(***************************************************************************)
(* What DBStore promises its clients, without the queue, the mutex, the    *)
(* condition variable and the waiting: a store that lends each connection  *)
(* to one client at a time, drops one on its way to a client only if the   *)
(* server has closed it, and ends when it has closed every connection      *)
(* itself.  A client that uses a connection may lose it: whatever the      *)
(* database throws at the client takes the connection with it.             *)
(***************************************************************************)
CONSTANTS Client, Connection, None

VARIABLES
  open,    \* the store exists
  free,    \* connections that nobody has
  lent,    \* the connection each client has, or None
  users,   \* the clients that were given theirs to use
  bad,     \* connections the server has closed
  gone,    \* connections given up
  shut     \* connections the store has closed

vars == <<open, free, lent, users, bad, gone, shut>>

Nobody == [c \in Client |-> None]

Init ==
  /\ open = FALSE /\ free = {} /\ lent = Nobody /\ users = {}
  /\ bad = {} /\ gone = {} /\ shut = {}

(* A store is made with all its connections, or not at all.                 *)
Open ==
  /\ ~open /\ lent = Nobody /\ users = {} /\ gone = {}
  /\ open' \in BOOLEAN
  /\ free' = IF open' THEN Connection ELSE {}
  /\ bad' = {} /\ shut' = {}
  /\ UNCHANGED <<lent, users, gone>>

Break(x) ==
  /\ bad' = bad \cup {x}
  /\ UNCHANGED <<open, free, lent, users, gone, shut>>

Lend(c, x) ==
  /\ open /\ lent[c] = None
  /\ lent' = [lent EXCEPT ![c] = x]
  /\ free' = free \ {x}
  /\ UNCHANGED <<open, users, bad, gone, shut>>

(* The client gets to use it, made again if the server had closed it.       *)
Deliver(c) ==
  /\ lent[c] # None /\ c \notin users
  /\ users' = users \cup {c}
  /\ bad' = bad \ {lent[c]}
  /\ UNCHANGED <<open, free, lent, gone, shut>>

Return(c) ==
  /\ open /\ c \in users
  /\ free' = free \cup {lent[c]}
  /\ lent' = [lent EXCEPT ![c] = None]
  /\ users' = users \ {c}
  /\ UNCHANGED <<open, bad, gone, shut>>

(* The store gives up a connection it cannot make again, and a client loses *)
(* any, by an exception, while it uses it.                                  *)
GiveUp(c) ==
  /\ lent[c] \in bad \/ c \in users
  /\ gone' = gone \cup {lent[c]}
  /\ lent' = [lent EXCEPT ![c] = None]
  /\ users' = users \ {c}
  /\ UNCHANGED <<open, free, bad, shut>>

(* The store ends with the last connection, so with none lent or given up.  *)
Close(x) ==
  /\ open
  /\ free' = free \ {x} /\ shut' = shut \cup {x}
  /\ open' = (shut' # Connection)
  /\ UNCHANGED <<lent, users, bad, gone>>

Next ==
  \/ Open
  \/ \E x \in Connection : Break(x)
  \/ \E x \in free : Close(x) \/ \E c \in Client : Lend(c, x)
  \/ \E c \in Client : Deliver(c) \/ Return(c) \/ GiveUp(c)

Spec == Init /\ [][Next]_vars
=============================================================================
