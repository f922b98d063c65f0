------------------------------- MODULE DBPool -------------------------------
(***************************************************************************)
(* DBStore: a fixed number of database connections behind a mutex and a    *)
(* condition variable.  GetConnection takes one and reconnects it if the   *)
(* server has closed it; PutConnection rolls it back and returns it;       *)
(* Destory waits for every one of them.  Each critical section is one step,*)
(* because everyone takes the mutex and wait() lets it go only with the    *)
(* thread among the waiters.                                               *)
(*                                                                         *)
(* A client uses the store the way main() does: the connection, a statement*)
(* on it and its result set are variables of one scope, which ends behind  *)
(* PutConnection.  A statement shares the life of its result set.  What    *)
(* the database makes of a statement is its own affair: on a live          *)
(* connection too, any call may throw (an error in the SQL, a constraint,  *)
(* a deadlock), and whoever uses the store catches it outside that scope.  *)
(***************************************************************************)
EXTENDS Integers, Sequences, FiniteSets

CONSTANTS
  Client,      \* threads that use the store
  Owner,       \* the thread that calls Init and Destory
  Connection,  \* the kConnectCount connections
  None

ASSUME DBPoolAssumption ==
  /\ IsFiniteSet(Client) /\ IsFiniteSet(Connection) /\ Connection # {}
  /\ Owner \notin Client /\ None \notin Connection

VARIABLES
  pool,     \* connections_
  held,     \* the connection a client's variable refers to, or None
  stmt,     \* the connection a client's Statement was prepared on, or None
  pc,       \* where a thread is; "none" of the Owner: instance_ is nullptr
  broken,   \* connections the server has closed
  dirty,    \* connections with a transaction that is not committed
  lost,     \* connections dropped by the store or by an exception
  closed,   \* connections ~DBStore has closed
  status    \* "ok", "aborted" by LOG(FATAL) or "undefined"

vars == <<pool, held, stmt, pc, broken, dirty, lost, closed, status>>

Thread == Client \cup {Owner}
Sleeping == {t \in Thread : pc[t] = "asleep"}
Woken    == {t \in Thread : pc[t] = "woken"}
Pooled   == {pool[i] : i \in DOMAIN pool}
Holders  == {c \in Client : pc[c] \in {"check", "using", "push"}}
Taken    == {held[c] : c \in Holders}

Goto(t, from, to) == pc[t] \in from /\ pc' = [pc EXCEPT ![t] = to]
-----------------------------------------------------------------------------
(* CreateConnection, kConnectCount times; an exception ends the process.    *)
CreateConnections ==
  /\ pool' \in [1..Cardinality(Connection) -> Connection]
  /\ Pooled' = Connection

Construct ==
  \/ CreateConnections /\ pc' = [pc EXCEPT ![Owner] = "out"] /\ UNCHANGED status
  \/ status' = "aborted" /\ UNCHANGED <<pool, pc>>

(* DBStore::Init with an instance_ of nullptr; otherwise it does nothing.   *)
(* Bound: it is called again only when no client has anything left of the   *)
(* store before.                                                            *)
InitStore ==
  /\ pc[Owner] = "none" /\ \A c \in Client : pc[c] = "out"
  /\ Construct
  /\ broken' = {} /\ dirty' = {} /\ closed' = {}
  /\ UNCHANGED <<held, stmt, lost>>

(* The server closes a connection: restart, idle timeout, network.          *)
Break(x) ==
  /\ x \notin broken
  /\ broken' = broken \cup {x}
  /\ dirty' = dirty \ {x}
  /\ UNCHANGED <<pool, held, stmt, pc, lost, closed, status>>

(* A client enters instance()->GetConnection().  The callers' part of the   *)
(* bargain: the store exists, and Destory has not been called.              *)
GetConnection(c) ==
  /\ pc[Owner] = "out" /\ Goto(c, {"out"}, "look")
  /\ UNCHANGED <<pool, held, stmt, broken, dirty, lost, closed, status>>

(* cond_var_.wait with its predicate, in GetConnection or in ~DBStore.      *)
Wait(t) ==
  /\ pool = <<>> /\ Goto(t, {"look", "woken"}, "asleep")
  /\ UNCHANGED <<pool, held, stmt, broken, dirty, lost, closed, status>>

Spurious(t) ==
  /\ Goto(t, {"asleep"}, "woken")
  /\ UNCHANGED <<pool, held, stmt, broken, dirty, lost, closed, status>>

(* front() without pop(), and with it.                                      *)
NotPopped == pool

Popped == Tail(pool)

Take(c) ==
  /\ pool # <<>> /\ Goto(c, {"look", "woken"}, "check")
  /\ held' = [held EXCEPT ![c] = Head(pool)]
  /\ pool' = Popped
  /\ UNCHANGED <<stmt, broken, dirty, lost, closed, status>>

(* Reconnect is tried only if IsClosed: a wrong form tries it always.       *)
MayFailAlways(x) == TRUE

MayFail(x) == x \in broken

(* IsClosed and Reconnect, without the mutex: a connection that cannot be   *)
(* reconnected is dropped, and the client goes back for another.            *)
CheckConnection(c) ==
  /\ \/ /\ Goto(c, {"check"}, "using")
        /\ broken' = broken \ {held[c]}
        /\ UNCHANGED <<held, lost>>
     \/ /\ MayFail(held[c]) /\ Goto(c, {"check"}, "look")
        /\ lost' = lost \cup {held[c]}
        /\ held' = [held EXCEPT ![c] = None]
        /\ UNCHANGED broken
  /\ UNCHANGED <<pool, stmt, dirty, closed, status>>
-----------------------------------------------------------------------------
CreateStatement(c) ==
  /\ pc[c] = "using" /\ stmt[c] = None /\ held[c] \notin broken
  /\ stmt' = [stmt EXCEPT ![c] = held[c]]
  /\ UNCHANGED <<pool, held, pc, broken, dirty, lost, closed, status>>

(* ExecuteUpdate, or ExecuteQuery with its ResultSet: without autocommit    *)
(* both open a transaction.  They turn every exception of the database into *)
(* LOG(FATAL), and on a closed connection there is one.                     *)
Execute(c) ==
  /\ pc[c] = "using" /\ stmt[c] # None
  /\ \/ status' = "aborted" /\ UNCHANGED dirty
     \/ /\ stmt[c] \notin broken
        /\ dirty' = dirty \cup {stmt[c]}
        /\ UNCHANGED status
  /\ UNCHANGED <<pool, held, stmt, pc, broken, lost, closed>>

(* stmt.reset() before PutConnection.                                       *)
DeleteStatement(c) ==
  /\ pc[c] = "using" /\ stmt[c] # None
  /\ stmt' = [stmt EXCEPT ![c] = None]
  /\ UNCHANGED <<pool, held, pc, broken, dirty, lost, closed, status>>

Commit(c) ==
  /\ pc[c] = "using" /\ held[c] \notin broken
  /\ dirty' = dirty \ {held[c]}
  /\ UNCHANGED <<pool, held, stmt, pc, broken, lost, closed, status>>

(* PutConnection: rollback() first, without the mutex; and left out.        *)
NotRolledBack(x) == dirty

RolledBack(x) == dirty \ {x}

Rollback(c) ==
  /\ held[c] \notin broken /\ Goto(c, {"using"}, "push")
  /\ dirty' = RolledBack(held[c])
  /\ UNCHANGED <<pool, held, stmt, broken, lost, closed, status>>

(* prepareStatement, a setter of the statement, a getter of its result set, *)
(* commit() or rollback() throws: sooner or later on a closed connection,   *)
(* and possibly on a live one.  Nobody puts the connection back: the        *)
(* client's references go with its stack, the last one to the connection    *)
(* among them, which ends its transaction.                                  *)
Throw(c) ==
  /\ Goto(c, {"using"}, "out")
  /\ lost' = lost \cup {held[c]}
  /\ dirty' = dirty \ {held[c]}
  /\ held' = [held EXCEPT ![c] = None]
  /\ stmt' = [stmt EXCEPT ![c] = None]
  /\ UNCHANGED <<pool, broken, closed, status>>

(* Whom notify_one may wake; and a notification only of the first waiter,   *)
(* or none.                                                                 *)
NotifiableIfEmpty == IF pool = <<>> THEN Sleeping ELSE {}

NotifiableNobody == {}

Notifiable == Sleeping

(* Then push and notify_one under the mutex.                                *)
Push(c) ==
  /\ pc[c] = "push"
  /\ pool' = Append(pool, held[c])
  /\ IF Notifiable # {}
       THEN \E t \in Notifiable : pc' = [pc EXCEPT ![t] = "woken", ![c] = "leave"]
       ELSE pc' = [pc EXCEPT ![c] = "leave"]
  /\ UNCHANGED <<held, stmt, broken, dirty, lost, closed, status>>

(* The scope of main() ends: the result set, the statement and the client's *)
(* reference are deleted, and somebody else may have the connection by now. *)
Leave(c) ==
  /\ Goto(c, {"leave"}, "out")
  /\ held' = [held EXCEPT ![c] = None]
  /\ stmt' = [stmt EXCEPT ![c] = None]
  /\ UNCHANGED <<pool, broken, dirty, lost, closed, status>>
-----------------------------------------------------------------------------
Destory ==
  /\ Goto(Owner, {"out"}, "look")
  /\ UNCHANGED <<pool, held, stmt, broken, dirty, lost, closed, status>>

(* Whether the loop of ~DBStore is over; and one round early.               *)
OverEarly(done) == Cardinality(done) + 1 >= Cardinality(Connection)

Over(done) == Cardinality(done) = Cardinality(Connection)

(* ~DBStore takes as many connections as were created and closes each with  *)
(* the mutex held.  When the mutex and the condition variable go, so does   *)
(* the meaning of whatever a client still does in the store.                *)
CloseConnection ==
  /\ pool # <<>> /\ pc[Owner] \in {"look", "woken"}
  /\ closed' = closed \cup {Head(pool)}
  /\ pool' = Popped
  /\ IF Over(closed')
       THEN /\ pc' = [pc EXCEPT ![Owner] = "none"]
            /\ status' = IF \A c \in Client : pc[c] \in {"out", "leave"}
                           THEN "ok" ELSE "undefined"
       ELSE pc' = [pc EXCEPT ![Owner] = "look"] /\ UNCHANGED status
  /\ UNCHANGED <<held, stmt, broken, dirty, lost>>
-----------------------------------------------------------------------------
Init ==
  /\ pool = <<>>
  /\ held = [c \in Client |-> None] /\ stmt = [c \in Client |-> None]
  /\ pc = [t \in Thread |-> IF t = Owner THEN "none" ELSE "out"]
  /\ broken = {} /\ dirty = {} /\ lost = {} /\ closed = {} /\ status = "ok"

(* What the store's own code does for a client, and for the owner.          *)
ClientStep(c) == Wait(c) \/ Take(c) \/ CheckConnection(c) \/ Push(c)
OwnerStep == Wait(Owner) \/ CloseConnection

(* What the client does with a connection, and how it is rid of it.         *)
Use(c) == CreateStatement(c) \/ Execute(c) \/ DeleteStatement(c) \/ Commit(c) \/ Leave(c)
LetGo(c) == Rollback(c) \/ Throw(c)

Next ==
  /\ status = "ok"
  /\ \/ InitStore \/ Destory \/ OwnerStep
     \/ \E x \in Connection : Break(x)
     \/ \E c \in Client : GetConnection(c) \/ ClientStep(c) \/ Use(c) \/ LetGo(c)
     \/ \E t \in Thread : Spurious(t)

Spec == Init /\ [][Next]_vars

(* Threads in the store run when they can; a client returns the connection  *)
(* it got, or an exception takes both away.                                 *)
FairSpec ==
  /\ Spec
  /\ \A c \in Client : /\ WF_vars(status = "ok" /\ ClientStep(c))
                       /\ WF_vars(status = "ok" /\ LetGo(c))
  /\ WF_vars(status = "ok" /\ OwnerStep)
-----------------------------------------------------------------------------
(* Every variable holds what the code's member can hold.                    *)
TypeOK ==
  /\ pool \in Seq(Connection)
  /\ held \in [Client -> Connection \cup {None}]
  /\ stmt \in [Client -> Connection \cup {None}]
  /\ pc \in [Thread -> {"none", "out", "look", "asleep", "woken", "check", "using",
                        "push", "leave"}]
  /\ broken \subseteq Connection /\ dirty \subseteq Connection
  /\ lost \subseteq Connection /\ closed \subseteq Connection
  /\ status \in {"ok", "aborted", "undefined"}

(* A connection is in one place: in the pool once, with one client, closed  *)
(* by the destructor, or lost; so two threads never share one, and none is  *)
(* mislaid while the store exists.                                          *)
OnePlace ==
  /\ \A i, j \in DOMAIN pool : pool[i] = pool[j] => i = j
  /\ \A c, d \in Holders : held[c] = held[d] => c = d
  /\ Pooled \cap (Taken \cup lost \cup closed) = {}
  /\ Taken \cap (lost \cup closed) = {} /\ lost \cap closed = {}
  /\ pc[Owner] # "none" => Connection = Pooled \cup Taken \cup lost \cup closed

(* Nobody gets a connection with somebody else's uncommitted transaction:   *)
(* PutConnection rolls back before it pushes.                               *)
PooledIsClean ==
  \A x \in dirty : \E c \in Client : pc[c] = "using" /\ held[c] = x

(* Who is busy has a connection, and statements are on a connection of the  *)
(* client's own, or one it has given back in the scope it is leaving.       *)
BusyHasConnection ==
  /\ \A c \in Client : pc[c] \in {"check", "using", "push", "leave"} => held[c] \in Connection
  /\ \A c \in Client : stmt[c] # None =>
       pc[c] \in {"using", "push", "leave"} /\ stmt[c] = held[c]

(* The inductive invariant behind it: the server's end of a connection ends *)
(* its transaction too.                                                     *)
CleanInv == TypeOK /\ BusyHasConnection /\ PooledIsClean /\ dirty \cap broken = {}

(* A thread sleeps while the pool has connections only if as many threads   *)
(* have been woken for them.                                                *)
WorkConserving == Sleeping # {} => Len(pool) <= Cardinality(Woken)

(* The store is not destroyed under a client that has a connection: the     *)
(* destructor waits for it, and instance_ is there to return it to.         *)
OutlivesHolders == pc[Owner] = "none" => Holders = {}

(* The store lends: the queue and the waiting aside, every step is one of a *)
(* store that gives each connection to one client at a time, drops of its   *)
(* own accord only what the server has closed, loses another only in the    *)
(* hands of a client that was using it, and ends when it has closed all.    *)
Exists == pc[Owner] # "none"
Users == {c \in Client : pc[c] \in {"using", "push"}}
Lent == [c \in Client |-> IF c \in Holders THEN held[c] ELSE None]

Store == INSTANCE Lending WITH
           open <- Exists, free <- Pooled, lent <- Lent, users <- Users,
           bad <- broken, gone <- lost, shut <- closed

LendingSpec == Store!Spec

(* The destructor's progress.                                               *)
ClosingOrder ==
  /\ pc[Owner] \in {"none", "out", "look", "asleep", "woken"}
  /\ pc[Owner] = "out" => closed = {}
  /\ pc[Owner] \in {"look", "asleep", "woken"} => closed # Connection

(* What the two liveness properties promise, said of a state: if everybody  *)
(* in the store sleeps, a connection was lost, and all of them were if the  *)
(* store is not being destroyed.                                            *)
StuckMeansLost ==
  /\ status = "ok" /\ Sleeping # {}
  /\ \A t \in Thread : pc[t] \in {"none", "out", "asleep", "leave"}
  => lost # {} /\ (pc[Owner] = "out" => lost = Connection)

(* Somebody who waits is served as long as one connection is left - the     *)
(* server or the clients' exceptions may have taken them all - unless the   *)
(* owner destroys the store.                                                *)
SomebodyIsServed ==
  (\E c \in Client : pc[c] \in {"look", "asleep", "woken"}) ~>
    (\E c \in Client : pc[c] = "using") \/ lost = Connection \/ status # "ok"
    \/ pc[Owner] # "out"

(* Destory returns, unless a connection was lost, to a closed server or to  *)
(* an exception in a client: then the destructor waits for one that nobody  *)
(* can return.                                                              *)
DestoryCompletes ==
  pc[Owner] = "look" ~> pc[Owner] = "none" \/ lost # {} \/ status # "ok"
=============================================================================
