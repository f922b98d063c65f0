---------------------------- MODULE DBPoolProofs ----------------------------
(***************************************************************************)
(* For any number of clients and connections: a connection is in one place,*)
(* only a client that is using it has a transaction on it, no notification *)
(* is missed, the store of its own accord drops only what the server has   *)
(* closed, and it outlives every client that has a connection.             *)
(***************************************************************************)
EXTENDS DBPool, FiniteSetTheorems, SequenceTheorems, TLAPS

Typed == TypeOK /\ BusyHasConnection

LEMMA ThreadFacts ==
  Client \subseteq Thread /\ Owner \in Thread /\ Owner \notin Client /\ IsFiniteSet(Thread)
<1>1. IsFiniteSet(Thread)
  BY DBPoolAssumption, FS_AddElement DEF Thread
<1> QED
  BY <1>1, DBPoolAssumption DEF Thread

(* What Init and InitStore make of the pool.                                *)
LEMMA PoolFilled ==
  ASSUME NEW p \in [1..Cardinality(Connection) -> Connection],
         {p[i] : i \in DOMAIN p} = Connection
  PROVE  /\ p \in Seq(Connection)
         /\ \A i, j \in DOMAIN p : p[i] = p[j] => i = j
<1> DEFINE n == Cardinality(Connection)
<1>1. n \in Nat
  BY DBPoolAssumption, FS_CardinalityType
<1>2. p \in Seq(Connection)
  BY <1>1, SeqDef
<1>3. p \in Surjection(1..n, Connection)
  BY DEF Surjection
<1>4. IsFiniteSet(1..n) /\ Cardinality(1..n) = n
  BY <1>1, FS_Interval
<1>5. p \in Injection(1..n, Connection)
  BY <1>3, <1>4, FS_SurjSameCardinalityImpliesInj
<1> QED
  BY <1>2, <1>5 DEF Injection, IsInjective

LEMMA TypedInit == Init => Typed
<1> SUFFICES ASSUME Init PROVE Typed
  OBVIOUS
<1>1. pool \in Seq(Connection)
  BY DEF Init
<1> QED
  BY <1>1, ThreadFacts DEF Init, Typed, TypeOK, BusyHasConnection

LEMMA TypedStep == Typed /\ [Next]_vars => Typed'
<1> SUFFICES ASSUME Typed, [Next]_vars PROVE Typed'
  OBVIOUS
<1>0. TypeOK /\ BusyHasConnection
  BY DEF Typed
<1> USE <1>0, ThreadFacts DEF Typed
<1>1. CASE InitStore
  <2>1. pool' \in Seq(Connection)
    BY <1>1, PoolFilled DEF InitStore, Construct, CreateConnections, Pooled, TypeOK
  <2> QED
    BY <1>1, <2>1 DEF InitStore, Construct, TypeOK, BusyHasConnection
<1>2. ASSUME NEW x \in Connection, Break(x) PROVE Typed'
  BY <1>2 DEF Break, TypeOK, BusyHasConnection
<1>3. ASSUME NEW c \in Client, GetConnection(c) PROVE Typed'
  BY <1>3 DEF GetConnection, Goto, TypeOK, BusyHasConnection
<1>4. ASSUME NEW t \in Thread, Wait(t) \/ Spurious(t) PROVE Typed'
  BY <1>4 DEF Wait, Spurious, Goto, TypeOK, BusyHasConnection
<1>5. ASSUME NEW c \in Client, status = "ok", Take(c) PROVE Typed'
  BY <1>5 DEF Take, Popped, Goto, TypeOK, BusyHasConnection
<1>6. ASSUME NEW c \in Client, CheckConnection(c) PROVE Typed'
  BY <1>6 DEF CheckConnection, Goto, TypeOK, BusyHasConnection
<1>7. ASSUME NEW c \in Client, Execute(c) PROVE Typed'
  BY <1>7 DEF Execute, TypeOK, BusyHasConnection
<1>8. ASSUME NEW c \in Client, CreateStatement(c) \/ DeleteStatement(c) \/ Commit(c)
      PROVE  Typed'
  BY <1>8 DEF CreateStatement, DeleteStatement, Commit, TypeOK, BusyHasConnection
<1>9. ASSUME NEW c \in Client, Rollback(c) \/ Throw(c) \/ Leave(c) PROVE Typed'
  BY <1>9 DEF Rollback, RolledBack, Throw, Leave, Goto, TypeOK, BusyHasConnection
<1>10. ASSUME NEW c \in Client, Push(c) PROVE Typed'
  <2>1. held[c] \in Connection
    BY <1>10 DEF Push, BusyHasConnection
  <2>2. CASE pc' = [pc EXCEPT ![c] = "leave"]
    BY <1>10, <2>1, <2>2 DEF Push, TypeOK, BusyHasConnection
  <2>3. ASSUME NEW t \in Sleeping, pc' = [pc EXCEPT ![t] = "woken", ![c] = "leave"]
        PROVE  Typed'
    BY <1>10, <2>1, <2>3 DEF Push, Sleeping, TypeOK, BusyHasConnection
  <2> QED
    BY <1>10, <2>2, <2>3 DEF Push, Notifiable
<1>11. CASE Destory
  BY <1>11 DEF Destory, Goto, TypeOK, BusyHasConnection
<1>12. CASE CloseConnection
  BY <1>12 DEF CloseConnection, Popped, TypeOK, BusyHasConnection
<1>13. CASE UNCHANGED vars
  BY <1>13 DEF vars, TypeOK, BusyHasConnection
<1> QED
  BY <1>1, <1>2, <1>3, <1>4, <1>5, <1>6, <1>7, <1>8, <1>9, <1>10, <1>11, <1>12, <1>13
     DEF Next, ClientStep, OwnerStep, Use, LetGo
-----------------------------------------------------------------------------
LEMMA CleanStep ==
  CleanInv /\ [Next]_vars => PooledIsClean' /\ dirty' \cap broken' = {}
<1> SUFFICES ASSUME CleanInv, [Next]_vars PROVE PooledIsClean' /\ dirty' \cap broken' = {}
  OBVIOUS
<1>0. TypeOK /\ BusyHasConnection /\ PooledIsClean /\ dirty \cap broken = {}
  BY DEF CleanInv
<1> USE <1>0, ThreadFacts DEF PooledIsClean, TypeOK, BusyHasConnection
<1>1. CASE InitStore
  BY <1>1 DEF InitStore
<1>2. ASSUME NEW x \in Connection, Break(x)
      PROVE  PooledIsClean' /\ dirty' \cap broken' = {}
  BY <1>2 DEF Break
<1>3. ASSUME NEW t \in Thread, Wait(t) \/ Spurious(t)
      PROVE  PooledIsClean' /\ dirty' \cap broken' = {}
  BY <1>3 DEF Wait, Spurious, Goto
<1>4. ASSUME NEW c \in Client, GetConnection(c) \/ Take(c) \/ Leave(c)
      PROVE  PooledIsClean' /\ dirty' \cap broken' = {}
  BY <1>4 DEF GetConnection, Take, Leave, Goto
<1>5. ASSUME NEW c \in Client, CheckConnection(c)
      PROVE  PooledIsClean' /\ dirty' \cap broken' = {}
  BY <1>5 DEF CheckConnection, Goto
<1>6. ASSUME NEW c \in Client, Execute(c)
      PROVE  PooledIsClean' /\ dirty' \cap broken' = {}
  BY <1>6 DEF Execute
<1>7. ASSUME NEW c \in Client, CreateStatement(c) \/ DeleteStatement(c) \/ Commit(c)
      PROVE  PooledIsClean' /\ dirty' \cap broken' = {}
  BY <1>7 DEF CreateStatement, DeleteStatement, Commit
<1>8. ASSUME NEW c \in Client, LetGo(c)
      PROVE  PooledIsClean' /\ dirty' \cap broken' = {}
  BY <1>8 DEF LetGo, Rollback, RolledBack, Throw, Goto
<1>9. ASSUME NEW c \in Client, Push(c)
      PROVE  PooledIsClean' /\ dirty' \cap broken' = {}
  BY <1>9 DEF Push, Notifiable, Sleeping
<1>10. CASE Destory \/ CloseConnection
  BY <1>10 DEF Destory, CloseConnection, Goto
<1>11. CASE UNCHANGED vars
  BY <1>11 DEF vars
<1> QED
  BY <1>1, <1>2, <1>3, <1>4, <1>5, <1>6, <1>7, <1>8, <1>9, <1>10, <1>11
     DEF Next, ClientStep, OwnerStep, Use

(* The transactions in the pool, with what they rest on.                    *)
THEOREM CleanInvariant == Spec => []CleanInv
<1>1. Init => CleanInv
  <2> SUFFICES ASSUME Init PROVE CleanInv
    OBVIOUS
  <2>1. Typed
    BY TypedInit
  <2> QED
    BY <2>1 DEF Init, Typed, CleanInv, PooledIsClean
<1>2. CleanInv /\ [Next]_vars => CleanInv'
  <2> SUFFICES ASSUME CleanInv, [Next]_vars PROVE CleanInv'
    OBVIOUS
  <2>1. Typed'
    BY TypedStep DEF CleanInv, Typed
  <2> QED
    BY <2>1, CleanStep DEF CleanInv, Typed
<1> QED
  BY <1>1, <1>2, PTL DEF Spec

(* No connection in the pool, or on its way there, carries a transaction.   *)
THEOREM NoForeignTransaction == Spec => []PooledIsClean
BY CleanInvariant, PTL DEF CleanInv
-----------------------------------------------------------------------------
(* When there is no store, nothing of it is left: the destructor has taken  *)
(* every connection, so that no client has one and none was lost.           *)
NothingLeft ==
  pc[Owner] = "none" =>
    /\ lost = {} /\ pool = <<>> /\ Holders = {}
    /\ status = "ok" => \A c \in Client : pc[c] \in {"out", "leave"}

PlaceInv == Typed /\ OnePlace /\ NothingLeft

LEMMA PoolTail ==
  ASSUME pool \in Seq(Connection), pool # <<>>,
         \A i, j \in DOMAIN pool : pool[i] = pool[j] => i = j
  PROVE  /\ Head(pool) \in Connection /\ Head(pool) \in Pooled
         /\ Tail(pool) \in Seq(Connection)
         /\ \A i, j \in DOMAIN Tail(pool) : Tail(pool)[i] = Tail(pool)[j] => i = j
         /\ {Tail(pool)[i] : i \in DOMAIN Tail(pool)} = Pooled \ {Head(pool)}
<1> DEFINE t == Tail(pool)
<1>1. /\ Len(pool) \in Nat /\ Len(pool) > 0 /\ DOMAIN pool = 1..Len(pool)
      /\ Head(pool) = pool[1] /\ Head(pool) \in Connection
      /\ t \in Seq(Connection) /\ Len(t) = Len(pool) - 1 /\ DOMAIN t = 1..Len(t)
      /\ \A i \in 1..Len(t) : t[i] = pool[i + 1]
  BY HeadTailProperties, EmptySeq, LenProperties
<1> HIDE DEF t
<1>2. \A i \in DOMAIN t : i + 1 \in DOMAIN pool
  BY <1>1
<1>3. \A i, j \in DOMAIN t : t[i] = t[j] => i = j
  <2> SUFFICES ASSUME NEW i \in DOMAIN t, NEW j \in DOMAIN t, t[i] = t[j] PROVE i = j
    OBVIOUS
  <2>1. i + 1 = j + 1
    BY <1>1, <1>2
  <2> QED
    BY <1>1, <2>1
<1>4. Head(pool) \in Pooled
  BY <1>1 DEF Pooled
<1>5. ASSUME NEW i \in DOMAIN t PROVE t[i] \in Pooled \ {Head(pool)}
  <2>1. i + 1 \in DOMAIN pool /\ 1 \in DOMAIN pool /\ i + 1 # 1
    BY <1>1
  <2> QED
    BY <1>1, <2>1 DEF Pooled
<1>6. ASSUME NEW x \in Pooled \ {Head(pool)} PROVE \E i \in DOMAIN t : t[i] = x
  <2>1. PICK k \in DOMAIN pool : pool[k] = x
    BY DEF Pooled
  <2>2. k - 1 \in DOMAIN t /\ (k - 1) + 1 = k
    BY <1>1, <2>1
  <2> QED
    BY <1>1, <2>1, <2>2
<1>7. {t[i] : i \in DOMAIN t} = Pooled \ {Head(pool)}
  BY <1>5, <1>6
<1> QED
  BY <1>1, <1>3, <1>4, <1>7 DEF t

LEMMA TailOfPool ==
  ASSUME PlaceInv, pool # <<>>, pool' = Tail(pool)
  PROVE  /\ Head(pool) \in Pooled /\ Pooled' = Pooled \ {Head(pool)}
         /\ \A i, j \in DOMAIN pool' : pool'[i] = pool'[j] => i = j
<1>1. pool \in Seq(Connection) /\ \A i, j \in DOMAIN pool : pool[i] = pool[j] => i = j
  BY DEF PlaceInv, Typed, TypeOK, OnePlace
<1>2. /\ Head(pool) \in Pooled
      /\ \A i, j \in DOMAIN Tail(pool) : Tail(pool)[i] = Tail(pool)[j] => i = j
      /\ {Tail(pool)[i] : i \in DOMAIN Tail(pool)} = Pooled \ {Head(pool)}
  BY <1>1, PoolTail
<1>3. Pooled' = {pool'[i] : i \in DOMAIN pool'}
  BY DEF Pooled
<1> QED
  BY <1>2, <1>3

LEMMA PoolAppended ==
  ASSUME pool \in Seq(Connection), NEW x \in Connection, x \notin Pooled,
         \A i, j \in DOMAIN pool : pool[i] = pool[j] => i = j
  PROVE  /\ \A i, j \in DOMAIN Append(pool, x) :
               Append(pool, x)[i] = Append(pool, x)[j] => i = j
         /\ {Append(pool, x)[i] : i \in DOMAIN Append(pool, x)} = Pooled \cup {x}
<1> DEFINE t == Append(pool, x)
<1>1. /\ Len(pool) \in Nat /\ DOMAIN pool = 1..Len(pool)
      /\ DOMAIN t = 1..(Len(pool) + 1) /\ t[Len(pool) + 1] = x
      /\ \A i \in 1..Len(pool) : t[i] = pool[i]
  BY LenProperties
<1> HIDE DEF t
<1>2. \A i \in DOMAIN t : (i \in DOMAIN pool /\ t[i] = pool[i]) \/ (i = Len(pool) + 1 /\ t[i] = x)
  BY <1>1
<1>3. \A i, j \in DOMAIN t : t[i] = t[j] => i = j
  BY <1>2 DEF Pooled
<1>4. {t[i] : i \in DOMAIN t} = Pooled \cup {x}
  <2>1. ASSUME NEW i \in DOMAIN t PROVE t[i] \in Pooled \cup {x}
    BY <1>2 DEF Pooled
  <2>2. ASSUME NEW y \in Pooled \cup {x} PROVE \E i \in DOMAIN t : t[i] = y
    <3>1. CASE y \in Pooled
      <4>1. PICK k \in DOMAIN pool : pool[k] = y
        BY <3>1 DEF Pooled
      <4> QED
        BY <1>1, <4>1
    <3>2. CASE y = x
      BY <1>1, <3>2
    <3> QED
      BY <3>1, <3>2
  <2> QED
    BY <2>1, <2>2
<1> QED
  BY <1>3, <1>4 DEF t

(* Who has a connection by right: a step of somebody else changes nothing,  *)
(* and one client more or less is one connection more or less.              *)
LEMMA SameHolders ==
  ASSUME Holders' = Holders, \A c \in Holders : held'[c] = held[c]
  PROVE  Taken' = Taken
BY DEF Taken

LEMMA HolderGoes ==
  ASSUME NEW c \in Holders, Holders' = Holders \ {c},
         \A d \in Holders \ {c} : held'[d] = held[d],
         \A d, e \in Holders : held[d] = held[e] => d = e
  PROVE  /\ Taken' = Taken \ {held[c]} /\ held[c] \in Taken
         /\ \A d, e \in Holders' : held'[d] = held'[e] => d = e
BY DEF Taken

LEMMA HolderComes ==
  ASSUME NEW c \in Client, c \notin Holders, Holders' = Holders \cup {c},
         \A d \in Holders : held'[d] = held[d], held'[c] \notin Taken,
         \A d, e \in Holders : held[d] = held[e] => d = e
  PROVE  /\ Taken' = Taken \cup {held'[c]}
         /\ \A d, e \in Holders' : held'[d] = held'[e] => d = e
BY DEF Taken

(* A step that moves no connection from its place.                          *)
LEMMA NothingMoves ==
  ASSUME PlaceInv, Holders' = Holders, \A c \in Holders : held'[c] = held[c],
         pool' = pool, lost' = lost, closed' = closed,
         pc'[Owner] # "none" => pc[Owner] # "none"
  PROVE  OnePlace'
<1>1. Taken' = Taken /\ Pooled' = Pooled
  BY SameHolders DEF Pooled
<1> QED
  BY <1>1 DEF PlaceInv, OnePlace

LEMMA PlaceInit == Init => PlaceInv
<1> SUFFICES ASSUME Init PROVE PlaceInv
  OBVIOUS
<1>1. Holders = {} /\ Pooled = {} /\ Taken = {}
  BY ThreadFacts DEF Init, Holders, Pooled, Taken
<1>2. OnePlace
  BY <1>1, ThreadFacts DEF Init, OnePlace
<1>3. NothingLeft
  BY <1>1, ThreadFacts DEF Init, NothingLeft
<1> QED
  BY <1>2, <1>3, TypedInit DEF PlaceInv

LEMMA PlaceStep == PlaceInv /\ [Next]_vars => PlaceInv'
<1> SUFFICES ASSUME PlaceInv, [Next]_vars PROVE OnePlace' /\ NothingLeft'
  BY TypedStep DEF PlaceInv
<1>0. TypeOK /\ BusyHasConnection /\ OnePlace /\ NothingLeft
  BY DEF PlaceInv, Typed
<1> USE <1>0, ThreadFacts
<1>p. /\ pc \in [Thread -> {"none", "out", "look", "asleep", "woken", "check", "using",
                            "push", "leave"}]
      /\ held \in [Client -> Connection \cup {None}]
      /\ pool \in Seq(Connection)
  BY DEF TypeOK
<1>h. \A c \in Holders : c \in Client /\ held[c] \in Connection
  BY DEF Holders, BusyHasConnection
<1>1. CASE InitStore
  <2>1. Holders = {} /\ pc[Owner] = "none" /\ lost = {} /\ \A c \in Client : pc[c] = "out"
    BY <1>1 DEF InitStore, Holders, NothingLeft
  <2>2. CASE /\ pool' \in [1..Cardinality(Connection) -> Connection]
             /\ Pooled' = Connection /\ pc' = [pc EXCEPT ![Owner] = "out"]
    <3>1. \A i, j \in DOMAIN pool' : pool'[i] = pool'[j] => i = j
      BY <2>2, PoolFilled DEF Pooled
    <3>2. Holders' = {} /\ Taken' = {}
      BY <1>p, <2>1, <2>2 DEF Holders, Taken
    <3> QED
      BY <1>1, <1>p, <2>1, <2>2, <3>1, <3>2 DEF InitStore, OnePlace, NothingLeft
  <2>3. CASE status' = "aborted" /\ UNCHANGED <<pool, pc>>
    <3>1. Holders' = {} /\ Taken' = {} /\ Pooled' = {}
      BY <1>1, <2>1, <2>3 DEF Holders, Taken, Pooled, NothingLeft
    <3> QED
      BY <1>1, <2>1, <2>3, <3>1 DEF InitStore, OnePlace, NothingLeft
  <2> QED
    BY <1>1, <2>2, <2>3 DEF InitStore, Construct, CreateConnections
<1>2. CASE \/ \E x \in Connection : Break(x)
           \/ \E c \in Client : CreateStatement(c) \/ DeleteStatement(c) \/ Commit(c)
           \/ UNCHANGED vars
  <2>1. /\ UNCHANGED <<pool, held, pc, lost, closed, status>>
    BY <1>2 DEF Break, CreateStatement, DeleteStatement, Commit, vars
  <2>2. Holders' = Holders
    BY <2>1 DEF Holders
  <2> QED
    BY <2>1, <2>2, NothingMoves DEF NothingLeft
<1>3. ASSUME NEW c \in Client, Execute(c) PROVE OnePlace' /\ NothingLeft'
  <2>1. UNCHANGED <<pool, held, pc, lost, closed>> /\ pc[Owner] # "none"
    BY <1>3 DEF Execute, NothingLeft, Holders
  <2>2. Holders' = Holders
    BY <2>1 DEF Holders
  <2> QED
    BY <2>1, <2>2, NothingMoves DEF NothingLeft
<1>4. ASSUME NEW t \in Thread, status = "ok",
             Wait(t) \/ Spurious(t) \/ (t \in Client /\ GetConnection(t))
      PROVE  OnePlace' /\ NothingLeft'
  <2>1. /\ UNCHANGED <<pool, held, lost, closed, status>>
        /\ pc[t] \in {"out", "look", "woken", "asleep"}
        /\ (pc' = [pc EXCEPT ![t] = "asleep"] \/ pc' = [pc EXCEPT ![t] = "woken"]
            \/ (t \in Client /\ pc[Owner] = "out" /\ pc' = [pc EXCEPT ![t] = "look"]))
        /\ (pc[t] = "out" => pc[Owner] = "out")
    BY <1>4 DEF Wait, Spurious, GetConnection, Goto
  <2>2. Holders' = Holders
    BY <1>p, <2>1 DEF Holders
  <2>3. pc'[Owner] = "none" <=> pc[Owner] = "none"
    BY <1>p, <2>1
  <2>4. pc[Owner] # "none"
    BY <1>4, <2>1 DEF NothingLeft, Thread
  <2> QED
    BY <2>1, <2>2, <2>3, <2>4, NothingMoves DEF NothingLeft
<1>5. ASSUME NEW c \in Client, status = "ok", Take(c) PROVE OnePlace' /\ NothingLeft'
  <2>1. /\ pool # <<>> /\ pool' = Tail(pool) /\ pc' = [pc EXCEPT ![c] = "check"]
        /\ held' = [held EXCEPT ![c] = Head(pool)] /\ UNCHANGED <<lost, closed>>
        /\ pc[c] \in {"look", "woken"}
    BY <1>5 DEF Take, Popped, Goto
  <2>2. c \notin Holders /\ Holders' = Holders \cup {c} /\ pc[Owner] # "none"
    BY <1>p, <1>5, <2>1 DEF Holders, NothingLeft
  <2>3. pc'[Owner] = pc[Owner] /\ held'[c] = Head(pool) /\ \A d \in Holders : held'[d] = held[d]
    BY <1>p, <1>h, <2>1, <2>2
  <2>4. /\ Head(pool) \in Pooled /\ Pooled' = Pooled \ {Head(pool)}
        /\ \A i, j \in DOMAIN pool' : pool'[i] = pool'[j] => i = j
    BY <2>1, TailOfPool
  <2>5. /\ Taken' = Taken \cup {Head(pool)}
        /\ \A d, e \in Holders' : held'[d] = held'[e] => d = e
    BY <2>2, <2>3, <2>4, HolderComes DEF OnePlace
  <2>6. OnePlace'
    BY <2>1, <2>2, <2>3, <2>4, <2>5 DEF OnePlace
  <2> QED
    BY <2>2, <2>3, <2>6 DEF NothingLeft
<1>6. ASSUME NEW c \in Client, Goto(c, {"check"}, "using") \/ Goto(c, {"using"}, "push"),
             UNCHANGED <<pool, held, lost, closed, status>>
      PROVE  OnePlace' /\ NothingLeft'
  <2>1. Holders' = Holders /\ pc'[Owner] = pc[Owner] /\ c \in Holders
    BY <1>p, <1>6 DEF Goto, Holders
  <2>2. pc[Owner] # "none"
    BY <2>1 DEF NothingLeft
  <2> QED
    BY <1>6, <2>1, <2>2, NothingMoves DEF NothingLeft
<1>7. ASSUME NEW c \in Client, Leave(c) PROVE OnePlace' /\ NothingLeft'
  <2>1. /\ pc[c] = "leave" /\ pc' = [pc EXCEPT ![c] = "out"]
        /\ held' = [held EXCEPT ![c] = None] /\ UNCHANGED <<pool, lost, closed, status>>
    BY <1>7 DEF Leave, Goto
  <2>2. Holders' = Holders /\ c \notin Holders /\ pc'[Owner] = pc[Owner]
    BY <1>p, <2>1 DEF Holders
  <2>3. \A d \in Holders : held'[d] = held[d]
    BY <1>p, <1>h, <2>1, <2>2
  <2> QED
    BY <1>p, <2>1, <2>2, <2>3, NothingMoves DEF NothingLeft
<1>8. ASSUME NEW c \in Client, c \in Holders,
             pc' = [pc EXCEPT ![c] = "look"] \/ pc' = [pc EXCEPT ![c] = "out"],
             lost' = lost \cup {held[c]}, held' = [held EXCEPT ![c] = None],
             UNCHANGED <<pool, closed>>
      PROVE  OnePlace' /\ NothingLeft'
  <2>1. Holders' = Holders \ {c} /\ pc'[Owner] = pc[Owner] /\ pc[Owner] # "none"
    BY <1>p, <1>8 DEF Holders, NothingLeft
  <2>2. \A d \in Holders \ {c} : held'[d] = held[d]
    BY <1>p, <1>h, <1>8
  <2>3. /\ Taken' = Taken \ {held[c]} /\ held[c] \in Taken
        /\ \A d, e \in Holders' : held'[d] = held'[e] => d = e
    BY <1>8, <2>1, <2>2, HolderGoes DEF OnePlace
  <2>4. Pooled' = Pooled
    BY <1>8 DEF Pooled
  <2> QED
    BY <1>8, <2>1, <2>3, <2>4 DEF OnePlace, NothingLeft
<1>9. ASSUME NEW c \in Client, Push(c) PROVE OnePlace' /\ NothingLeft'
  <2>1. /\ pc[c] = "push" /\ pool' = Append(pool, held[c])
        /\ UNCHANGED <<held, lost, closed>>
        /\ \/ pc' = [pc EXCEPT ![c] = "leave"]
           \/ \E t \in Sleeping : pc' = [pc EXCEPT ![t] = "woken", ![c] = "leave"]
    BY <1>9 DEF Push, Notifiable
  <2>2. c \in Holders /\ held[c] \in Connection
    BY <2>1, <1>h DEF Holders
  <2>3. Holders' = Holders \ {c} /\ (pc'[Owner] = "none" <=> pc[Owner] = "none")
    BY <1>p, <2>1 DEF Holders, Sleeping
  <2>4. /\ Taken' = Taken \ {held[c]} /\ held[c] \in Taken
        /\ \A d, e \in Holders' : held'[d] = held'[e] => d = e
    BY <2>1, <2>2, <2>3, HolderGoes DEF OnePlace
  <2>5. /\ \A i, j \in DOMAIN pool' : pool'[i] = pool'[j] => i = j
        /\ Pooled' = Pooled \cup {held[c]}
    BY <1>p, <2>1, <2>2, <2>4, PoolAppended DEF OnePlace, Pooled
  <2> QED
    BY <2>1, <2>2, <2>3, <2>4, <2>5 DEF OnePlace, NothingLeft
<1>10. CASE Destory
  <2>1. Holders' = Holders /\ pc'[Owner] # "none" /\ pc[Owner] # "none"
    BY <1>p, <1>10 DEF Destory, Goto, Holders
  <2> QED
    BY <1>10, <2>1, NothingMoves DEF Destory, NothingLeft
<1>11. CASE CloseConnection
  <2>1. /\ pool # <<>> /\ pool' = Tail(pool) /\ closed' = closed \cup {Head(pool)}
        /\ pc[Owner] # "none" /\ UNCHANGED <<held, lost>>
        /\ \A c \in Client : pc'[c] = pc[c]
    BY <1>p, <1>11 DEF CloseConnection, Popped
  <2>2. Holders' = Holders /\ Taken' = Taken
    BY <2>1, SameHolders DEF Holders
  <2>3. /\ Head(pool) \in Pooled /\ Pooled' = Pooled \ {Head(pool)}
        /\ \A i, j \in DOMAIN pool' : pool'[i] = pool'[j] => i = j
    BY <2>1, TailOfPool
  <2>4. OnePlace'
    BY <2>1, <2>2, <2>3 DEF OnePlace
  <2>5. ASSUME pc'[Owner] = "none" PROVE NothingLeft'
    <3>1. /\ Over(closed')
          /\ status' = IF \A c \in Client : pc[c] \in {"out", "leave"}
                         THEN "ok" ELSE "undefined"
      BY <1>p, <1>11, <2>5 DEF CloseConnection
    <3>2. closed' \subseteq Connection
      BY <1>p, <2>1, HeadTailProperties DEF TypeOK
    <3>3. closed' = Connection
      BY <3>1, <3>2, FS_Subset, DBPoolAssumption DEF Over
    <3>4. Taken' = {} /\ Pooled' = {} /\ lost' = {}
      BY <1>h, <2>1, <2>2, <2>3, <2>4, <3>3 DEF OnePlace, TypeOK, Taken
    <3>5. Holders' = {}
      BY <3>4 DEF Taken
    <3>6. pool' = <<>>
      <4>1. pool' \in Seq(Connection)
        BY <1>p, <2>1, HeadTailProperties
      <4>2. DOMAIN pool' = {}
        BY <3>4 DEF Pooled
      <4> QED
        BY <4>1, <4>2, EmptySeq, LenProperties
    <3> QED
      BY <2>1, <3>1, <3>4, <3>5, <3>6 DEF NothingLeft
  <2> QED
    BY <2>4, <2>5 DEF NothingLeft
<1> QED
  <2>1. ASSUME NEW c \in Client, CheckConnection(c) \/ LetGo(c)
        PROVE  OnePlace' /\ NothingLeft'
    BY <1>6, <1>8, <2>1
       DEF CheckConnection, LetGo, Rollback, Throw, Goto, Holders
  <2> QED
    BY <1>1, <1>2, <1>3, <1>4, <1>5, <1>7, <1>9, <1>10, <1>11, <2>1
       DEF Next, ClientStep, OwnerStep, Use

-----------------------------------------------------------------------------
States == {"none", "out", "look", "asleep", "woken", "check", "using", "push", "leave"}

(* A thread that neither falls asleep nor stops being woken changes nothing.*)
LEMMA SameWaiters ==
  ASSUME NEW t \in Thread, NEW s, pc \in [Thread -> States],
         pc' = [pc EXCEPT ![t] = s],
         pc[t] \notin {"asleep", "woken"}, s \notin {"asleep", "woken"}
  PROVE  Sleeping' = Sleeping /\ Woken' = Woken
BY DEF Sleeping, Woken

(* A thread that leaves the waiters takes at most one notification with it. *)
LEMMA OneLessWoken ==
  ASSUME NEW t \in Thread, NEW s, pc \in [Thread -> States],
         pc' = [pc EXCEPT ![t] = s],
         pc[t] \in {"look", "woken"}, s \notin {"asleep", "woken"}
  PROVE  /\ Sleeping' = Sleeping
         /\ Cardinality(Woken) \in Nat /\ Cardinality(Woken') \in Nat
         /\ Cardinality(Woken) <= Cardinality(Woken') + 1
<1>1. IsFiniteSet(Woken)
  BY ThreadFacts, FS_Subset DEF Woken
<1>2. Sleeping' = Sleeping /\ Woken' = Woken \ {t}
  BY DEF Sleeping, Woken
<1>3. /\ Cardinality(Woken) \in Nat
      /\ IsFiniteSet(Woken \ {t})
      /\ Cardinality(Woken \ {t}) = IF t \in Woken THEN Cardinality(Woken) - 1
                                    ELSE Cardinality(Woken)
  BY <1>1, FS_CardinalityType, FS_RemoveElement
<1>4. Cardinality(Woken \ {t}) \in Nat
  BY <1>3, FS_CardinalityType
<1> QED
  BY <1>2, <1>3, <1>4

LEMMA OneMoreWoken ==
  ASSUME NEW t \in Sleeping, pc \in [Thread -> States], Woken' = Woken \cup {t}
  PROVE  /\ Cardinality(Woken) \in Nat
         /\ Cardinality(Woken') = Cardinality(Woken) + 1
<1>1. IsFiniteSet(Woken)
  BY ThreadFacts, FS_Subset DEF Woken
<1>2. t \notin Woken
  BY DEF Sleeping, Woken
<1> QED
  BY <1>1, <1>2, FS_CardinalityType, FS_AddElement

LEMMA WorkStep == Typed /\ WorkConserving /\ [Next]_vars => WorkConserving'
<1> SUFFICES ASSUME Typed, WorkConserving, [Next]_vars PROVE WorkConserving'
  OBVIOUS
<1>0. /\ pc \in [Thread -> States] /\ pool \in Seq(Connection)
      /\ Len(pool) \in Nat /\ Cardinality(Woken) \in Nat
  <2>1. IsFiniteSet(Woken)
    BY ThreadFacts, FS_Subset DEF Woken
  <2>2. pc \in [Thread -> States] /\ pool \in Seq(Connection)
    BY DEF Typed, TypeOK, States
  <2> QED
    BY <2>1, <2>2, FS_CardinalityType, LenProperties
<1> USE <1>0, ThreadFacts
<1>1. CASE InitStore
  <2>1. Sleeping' = {}
    BY <1>1 DEF InitStore, Construct, Sleeping, Thread
  <2> QED
    BY <2>1 DEF WorkConserving
<1>2. CASE \/ \E x \in Connection : Break(x)
           \/ \E c \in Client : \/ CreateStatement(c) \/ Execute(c)
                               \/ DeleteStatement(c) \/ Commit(c)
           \/ UNCHANGED vars
  <2>1. pc' = pc /\ pool' = pool
    BY <1>2 DEF Break, CreateStatement, Execute, DeleteStatement, Commit, vars
  <2> QED
    BY <2>1 DEF WorkConserving, Sleeping, Woken
<1>3. ASSUME NEW t \in Thread, Wait(t) PROVE WorkConserving'
  <2>1. pool' = <<>>
    BY <1>3 DEF Wait
  <2>2. IsFiniteSet(Woken')
    BY FS_Subset DEF Woken
  <2>3. Cardinality(Woken') \in Nat /\ Len(pool') = 0
    BY <2>1, <2>2, FS_CardinalityType
  <2> QED
    BY <2>3 DEF WorkConserving
<1>4. ASSUME NEW t \in Thread, Spurious(t) PROVE WorkConserving'
  <2>1. pc[t] = "asleep" /\ pc' = [pc EXCEPT ![t] = "woken"] /\ pool' = pool
    BY <1>4 DEF Spurious, Goto
  <2>2. t \in Sleeping /\ Woken' = Woken \cup {t}
    BY <2>1 DEF Sleeping, Woken
  <2>3. Cardinality(Woken') = Cardinality(Woken) + 1
    BY <2>2, OneMoreWoken
  <2> QED
    BY <2>1, <2>2, <2>3 DEF WorkConserving
<1>5. ASSUME NEW t \in Thread, NEW s \in {"check", "look", "none"},
             pc[t] \in {"look", "woken"}, pc' = [pc EXCEPT ![t] = s],
             pool # <<>>, pool' = Tail(pool)
      PROVE  WorkConserving'
  <2>1. /\ Sleeping' = Sleeping /\ Cardinality(Woken') \in Nat
        /\ Cardinality(Woken) <= Cardinality(Woken') + 1
    BY <1>5, OneLessWoken
  <2>2. Len(pool') = Len(pool) - 1
    BY <1>5, HeadTailProperties
  <2> QED
    BY <2>1, <2>2 DEF WorkConserving
<1>6. ASSUME NEW t \in Thread, NEW s \in {"look", "using", "push", "out"},
             pc[t] \notin {"asleep", "woken"}, pc' = [pc EXCEPT ![t] = s], pool' = pool
      PROVE  WorkConserving'
  <2>1. Sleeping' = Sleeping /\ Woken' = Woken
    BY <1>6, SameWaiters
  <2> QED
    BY <1>6, <2>1 DEF WorkConserving
<1>7. ASSUME NEW c \in Client, Push(c) PROVE WorkConserving'
  <2>1. pc[c] = "push" /\ pool' = Append(pool, held[c]) /\ held[c] \in Connection
    BY <1>7 DEF Push, Typed, BusyHasConnection
  <2>2. Len(pool') = Len(pool) + 1
    BY <2>1
  <2>3. CASE Sleeping = {} /\ pc' = [pc EXCEPT ![c] = "leave"]
    <3>1. Sleeping' = {}
      BY <2>1, <2>3, SameWaiters
    <3> QED
      BY <3>1 DEF WorkConserving
  <2>4. ASSUME NEW t \in Sleeping, pc' = [pc EXCEPT ![t] = "woken", ![c] = "leave"]
        PROVE  WorkConserving'
    <3>1. Woken' = Woken \cup {t} /\ Sleeping # {}
      BY <2>1, <2>4 DEF Sleeping, Woken
    <3>2. Cardinality(Woken') = Cardinality(Woken) + 1
      BY <3>1, OneMoreWoken
    <3> QED
      BY <2>2, <3>1, <3>2 DEF WorkConserving
  <2> QED
    BY <1>7, <2>3, <2>4 DEF Push, Notifiable
<1> QED
  <2>1. ASSUME NEW c \in Client, GetConnection(c) \/ Leave(c) \/ Rollback(c) \/ Throw(c)
                                 \/ CheckConnection(c)
        PROVE  WorkConserving'
    BY <1>6, <2>1 DEF GetConnection, Leave, Rollback, Throw, CheckConnection, Goto
  <2>2. ASSUME NEW c \in Client, Take(c) PROVE WorkConserving'
    BY <1>5, <2>2 DEF Take, Popped, Goto
  <2>3. CASE CloseConnection
    BY <1>5, <2>3 DEF CloseConnection, Popped
  <2>4. CASE Destory
    BY <1>6, <2>4 DEF Destory, Goto
  <2> QED
    BY <1>1, <1>2, <1>3, <1>4, <1>7, <2>1, <2>2, <2>3, <2>4
       DEF Next, ClientStep, OwnerStep, Use, LetGo

(* No notification is missed, for any number of threads and connections.    *)
THEOREM NoMissedNotification == Spec => []WorkConserving
<1>1. Init => WorkConserving
  BY ThreadFacts DEF Init, WorkConserving, Sleeping
<1> QED
  BY <1>1, TypedInit, TypedStep, WorkStep, PTL DEF Spec

(* A connection is in one place for any number of threads and connections.  *)
THEOREM InOnePlace == Spec => []OnePlace
<1>1. PlaceInv => OnePlace
  BY DEF PlaceInv
<1> QED
  BY <1>1, PlaceInit, PlaceStep, PTL DEF Spec

(* The store outlives every client that has a connection of it.             *)
THEOREM StoreOutlivesHolders == Spec => []OutlivesHolders
<1>1. PlaceInv => OutlivesHolders
  BY DEF PlaceInv, NothingLeft, OutlivesHolders
<1> QED
  BY <1>1, PlaceInit, PlaceStep, PTL DEF Spec
-----------------------------------------------------------------------------
(* The clients' connections as the abstract store knows them.               *)
LEMMA LentSame ==
  ASSUME Holders' = Holders, \A c \in Holders : held'[c] = held[c]
  PROVE  Lent' = Lent
BY DEF Lent

LEMMA LentGoes ==
  ASSUME NEW c \in Holders, Holders' = Holders \ {c},
         \A d \in Holders \ {c} : held'[d] = held[d]
  PROVE  c \in Client /\ Lent[c] = held[c] /\ Lent' = [Lent EXCEPT ![c] = None]
BY DEF Lent, Holders

LEMMA LentComes ==
  ASSUME NEW c \in Client, c \notin Holders, Holders' = Holders \cup {c},
         \A d \in Holders : held'[d] = held[d]
  PROVE  Lent[c] = None /\ Lent' = [Lent EXCEPT ![c] = held'[c]]
BY DEF Lent, Holders

(* A step that is none of the store's business.                             *)
LEMMA StoreRests ==
  ASSUME Holders' = Holders, \A c \in Holders : held'[c] = held[c],
         pc'[Owner] = "none" <=> pc[Owner] = "none", Users' = Users,
         UNCHANGED <<pool, broken, lost, closed>>
  PROVE  UNCHANGED Store!vars
<1>1. Lent' = Lent
  BY LentSame
<1>2. Pooled' = Pooled /\ Exists' = Exists
  BY DEF Pooled, Exists
<1> QED
  BY <1>1, <1>2 DEF Store!vars

LEMMA LendingStep ==
  ASSUME PlaceInv, [Next]_vars
  PROVE  Store!Next \/ UNCHANGED Store!vars
<1> DEFINE Step == Store!Next \/ UNCHANGED Store!vars
<1> SUFFICES Step
  OBVIOUS
<1>0. TypeOK /\ BusyHasConnection /\ OnePlace /\ NothingLeft
  BY DEF PlaceInv, Typed
<1> USE <1>0, ThreadFacts
<1>p. /\ pc \in [Thread -> {"none", "out", "look", "asleep", "woken", "check", "using",
                            "push", "leave"}]
      /\ held \in [Client -> Connection \cup {None}]
      /\ pool \in Seq(Connection)
  BY DEF TypeOK
<1>h. /\ \A c \in Holders : c \in Client /\ held[c] \in Connection /\ held[c] # None
                            /\ Lent[c] = held[c] /\ Exists
      /\ Users \subseteq Holders
  BY DBPoolAssumption DEF Holders, BusyHasConnection, Lent, NothingLeft, Exists, Users
<1>1. CASE InitStore
  <2>1. /\ pc[Owner] = "none" /\ lost = {} /\ pool = <<>>
        /\ \A c \in Client : pc[c] = "out" /\ pc'[c] = "out"
        /\ broken' = {} /\ closed' = {} /\ UNCHANGED <<held, lost>>
    BY <1>p, <1>1 DEF InitStore, Construct, NothingLeft
  <2>2. Holders = {} /\ Holders' = {} /\ Users = {} /\ Users' = {}
    BY <2>1 DEF Holders, Users
  <2>3. Lent = Store!Nobody /\ Lent' = Lent
    BY <2>2 DEF Lent, Store!Nobody
  <2>4. CASE Pooled' = Connection /\ pc' = [pc EXCEPT ![Owner] = "out"]
    <3>1. Exists' /\ ~Exists
      BY <1>p, <2>1, <2>4 DEF Exists
    <3>2. Store!Open
      BY <2>1, <2>2, <2>3, <2>4, <3>1 DEF Store!Open, Exists
    <3> QED
      BY <3>2 DEF Store!Next
  <2>5. CASE UNCHANGED <<pool, pc>>
    <3>1. Pooled' = {}
      BY <2>1, <2>5 DEF Pooled
    <3>2. ~Exists' /\ ~Exists
      BY <2>1, <2>5 DEF Exists
    <3>3. Store!Open
      BY <2>1, <2>2, <2>3, <3>1, <3>2 DEF Store!Open, Exists
    <3> QED
      BY <3>3 DEF Store!Next
  <2> QED
    BY <1>1, <2>4, <2>5 DEF InitStore, Construct, CreateConnections
<1>2. CASE \/ \E c \in Client : \/ CreateStatement(c) \/ DeleteStatement(c) \/ Commit(c)
                                \/ Execute(c)
           \/ UNCHANGED vars
  <2>1. UNCHANGED <<pool, held, pc, lost, closed, broken>>
    BY <1>2 DEF CreateStatement, DeleteStatement, Commit, Execute, vars
  <2> QED
    BY <2>1, StoreRests DEF Holders, Users
<1>3. ASSUME NEW x \in Connection, Break(x) PROVE Step
  <2>1. /\ broken' = broken \cup {x} /\ UNCHANGED <<pool, held, pc, lost, closed>>
        /\ Holders' = Holders /\ Users' = Users
    BY <1>3 DEF Break, Holders, Users
  <2>2. Lent' = Lent /\ Pooled' = Pooled /\ Exists' = Exists
    BY <2>1, LentSame DEF Pooled, Exists
  <2>3. Store!Break(x)
    BY <2>1, <2>2 DEF Store!Break
  <2> QED
    BY <2>3 DEF Store!Next
<1>4. ASSUME NEW t \in Thread,
             Wait(t) \/ Spurious(t) \/ (t \in Client /\ GetConnection(t)) \/ Destory
      PROVE  Step
  <2>1. UNCHANGED <<pool, held, lost, closed, broken>>
    BY <1>4 DEF Wait, Spurious, GetConnection, Destory
  <2>2. Holders' = Holders /\ Users' = Users
    BY <1>p, <1>4 DEF Wait, Spurious, GetConnection, Destory, Goto, Holders, Users
  <2>3. pc'[Owner] = "none" <=> pc[Owner] = "none"
    BY <1>p, <1>4 DEF Wait, Spurious, GetConnection, Destory, Goto
  <2> QED
    BY <2>1, <2>2, <2>3, StoreRests
<1>5. ASSUME NEW c \in Client, status = "ok", Take(c) PROVE Step
  <2>1. /\ pool # <<>> /\ pool' = Tail(pool) /\ pc' = [pc EXCEPT ![c] = "check"]
        /\ held' = [held EXCEPT ![c] = Head(pool)] /\ UNCHANGED <<lost, closed, broken>>
        /\ pc[c] \in {"look", "woken"}
    BY <1>5 DEF Take, Popped, Goto
  <2>2. c \notin Holders /\ Holders' = Holders \cup {c} /\ Exists /\ Exists' = Exists
        /\ Users' = Users
    BY <1>p, <1>5, <2>1 DEF Holders, NothingLeft, Exists, Users
  <2>3. held'[c] = Head(pool) /\ \A d \in Holders : held'[d] = held[d]
    BY <1>p, <1>h, <2>1, <2>2
  <2>4. PICK x \in Pooled : x = Head(pool) /\ Pooled' = Pooled \ {x}
    BY <2>1, TailOfPool
  <2>5. Lent[c] = None /\ Lent' = [Lent EXCEPT ![c] = x]
    BY <2>2, <2>3, <2>4, LentComes
  <2>6. Store!Lend(c, x)
    BY <2>1, <2>2, <2>4, <2>5 DEF Store!Lend
  <2> QED
    BY <2>4, <2>6 DEF Store!Next
<1>6. ASSUME NEW c \in Client, Goto(c, {"check"}, "using") \/ Goto(c, {"using"}, "push"),
             UNCHANGED <<pool, held, lost, closed>>
      PROVE  Holders' = Holders /\ c \in Holders /\ Exists' = Exists
             /\ (pc'[Owner] = "none" <=> pc[Owner] = "none")
             /\ Lent' = Lent /\ Pooled' = Pooled
  <2>1. Holders' = Holders /\ pc'[Owner] = pc[Owner] /\ c \in Holders
    BY <1>p, <1>6 DEF Goto, Holders
  <2> QED
    BY <1>6, <2>1, LentSame DEF Exists, Pooled
<1>7. ASSUME NEW c \in Client, Leave(c) PROVE Step
  <2>1. /\ pc[c] = "leave" /\ pc' = [pc EXCEPT ![c] = "out"]
        /\ held' = [held EXCEPT ![c] = None] /\ UNCHANGED <<pool, lost, closed, broken>>
    BY <1>7 DEF Leave, Goto
  <2>2. /\ Holders' = Holders /\ c \notin Holders /\ pc'[Owner] = pc[Owner]
        /\ Users' = Users
    BY <1>p, <2>1 DEF Holders, Users
  <2>3. \A d \in Holders : held'[d] = held[d]
    BY <1>p, <1>h, <2>1, <2>2
  <2> QED
    BY <2>1, <2>2, <2>3, StoreRests
<1>8. ASSUME NEW c \in Holders,
             pc' = [pc EXCEPT ![c] = "look"] \/ pc' = [pc EXCEPT ![c] = "out"],
             held[c] \in broken \/ c \in Users,
             lost' = lost \cup {held[c]}, held' = [held EXCEPT ![c] = None],
             UNCHANGED <<pool, closed, broken>>
      PROVE  Step
  <2>1. /\ Holders' = Holders \ {c} /\ Exists' = Exists /\ Pooled' = Pooled
        /\ Users' = Users \ {c}
    BY <1>p, <1>h, <1>8 DEF Holders, Exists, Pooled, Users
  <2>2. \A d \in Holders \ {c} : held'[d] = held[d]
    BY <1>p, <1>h, <1>8
  <2>3. c \in Client /\ Lent[c] = held[c] /\ Lent' = [Lent EXCEPT ![c] = None]
    BY <2>1, <2>2, LentGoes
  <2>4. Store!GiveUp(c)
    BY <1>8, <2>1, <2>3 DEF Store!GiveUp
  <2> QED
    BY <2>3, <2>4 DEF Store!Next
<1>9. ASSUME NEW c \in Client, CheckConnection(c) PROVE Step
  <2>1. CASE /\ Goto(c, {"check"}, "using") /\ broken' = broken \ {held[c]}
             /\ UNCHANGED <<held, lost>>
    <3>1. UNCHANGED <<pool, closed>>
      BY <1>9 DEF CheckConnection
    <3>2. c \in Holders /\ Exists' = Exists /\ Lent' = Lent /\ Pooled' = Pooled
      BY <1>6, <2>1, <3>1
    <3>3. Lent[c] # None /\ broken' = broken \ {Lent[c]}
      BY <1>h, <2>1, <3>2
    <3>4. c \notin Users /\ Users' = Users \cup {c}
      BY <1>p, <2>1 DEF Goto, Users
    <3>5. Store!Deliver(c)
      BY <2>1, <3>1, <3>2, <3>3, <3>4 DEF Store!Deliver
    <3> QED
      BY <3>5 DEF Store!Next
  <2>2. CASE /\ held[c] \in broken /\ Goto(c, {"check"}, "look")
             /\ lost' = lost \cup {held[c]}
             /\ held' = [held EXCEPT ![c] = None]
             /\ UNCHANGED broken
    BY <1>8, <1>9, <2>2 DEF CheckConnection, Goto, Holders
  <2> QED
    BY <1>9, <2>1, <2>2 DEF CheckConnection, MayFail
<1>10. ASSUME NEW c \in Client, LetGo(c) PROVE Step
  <2>1. CASE Rollback(c)
    <3>1. Goto(c, {"using"}, "push") /\ UNCHANGED <<pool, held, lost, closed, broken>>
      BY <2>1 DEF Rollback
    <3>2. Holders' = Holders /\ (pc'[Owner] = "none" <=> pc[Owner] = "none")
      BY <1>6, <3>1
    <3>3. Users' = Users
      BY <1>p, <3>1 DEF Goto, Users
    <3> QED
      BY <3>1, <3>2, <3>3, StoreRests
  <2>2. CASE Throw(c)
    BY <1>8, <2>2 DEF Throw, Goto, Holders, Users
  <2> QED
    BY <1>10, <2>1, <2>2 DEF LetGo
<1>11. ASSUME NEW c \in Client, Push(c) PROVE Step
  <2>1. /\ pc[c] = "push" /\ pool' = Append(pool, held[c])
        /\ UNCHANGED <<held, lost, closed, broken>>
        /\ \/ pc' = [pc EXCEPT ![c] = "leave"]
           \/ \E t \in Sleeping : pc' = [pc EXCEPT ![t] = "woken", ![c] = "leave"]
    BY <1>11 DEF Push, Notifiable
  <2>2. c \in Holders /\ held[c] \in Connection /\ held[c] \in Taken
    BY <2>1, <1>h DEF Holders, Taken
  <2>3. /\ Holders' = Holders \ {c} /\ Exists' = Exists
        /\ c \in Users /\ Users' = Users \ {c}
    BY <1>p, <2>1 DEF Holders, Sleeping, Exists, Users
  <2>4. c \in Client /\ Lent[c] = held[c] /\ Lent' = [Lent EXCEPT ![c] = None]
    BY <2>1, <2>2, <2>3, LentGoes
  <2>5. Pooled' = Pooled \cup {held[c]}
    <3>1. /\ held[c] \notin Pooled
          /\ \A i, j \in DOMAIN pool : pool[i] = pool[j] => i = j
      BY <2>2 DEF OnePlace
    <3>2. {Append(pool, held[c])[i] : i \in DOMAIN Append(pool, held[c])} = Pooled \cup {held[c]}
      BY <1>p, <2>2, <3>1, PoolAppended
    <3>3. Pooled' = {pool'[i] : i \in DOMAIN pool'}
      BY DEF Pooled
    <3> QED
      BY <2>1, <3>2, <3>3
  <2>6. Store!Return(c)
    BY <1>h, <2>1, <2>2, <2>3, <2>4, <2>5 DEF Store!Return
  <2> QED
    BY <2>6 DEF Store!Next
<1>12. CASE CloseConnection
  <2>1. /\ pool # <<>> /\ pool' = Tail(pool) /\ closed' = closed \cup {Head(pool)}
        /\ Exists /\ UNCHANGED <<held, lost, broken>>
        /\ \A c \in Client : pc'[c] = pc[c]
        /\ pc'[Owner] = IF Over(closed') THEN "none" ELSE "look"
    BY <1>p, <1>12 DEF CloseConnection, Popped, Exists
  <2>2. Lent' = Lent /\ Users' = Users
    BY <2>1, LentSame DEF Holders, Users
  <2>3. PICK x \in Pooled : x = Head(pool) /\ Pooled' = Pooled \ {x}
    BY <2>1, TailOfPool
  <2>4. closed' \subseteq Connection
    BY <1>p, <2>1, HeadTailProperties DEF TypeOK
  <2>5. Over(closed') <=> closed' = Connection
    BY <2>4, FS_Subset, DBPoolAssumption DEF Over
  <2>6. Exists' = (closed' # Connection)
    BY <2>1, <2>5 DEF Exists
  <2>7. Store!Close(x)
    BY <2>1, <2>2, <2>3, <2>6 DEF Store!Close
  <2> QED
    BY <2>3, <2>7 DEF Store!Next
<1> QED
  BY <1>1, <1>2, <1>3, <1>4, <1>5, <1>7, <1>9, <1>10, <1>11, <1>12
     DEF Next, ClientStep, OwnerStep, Use, Thread

(* DBStore lends: whatever its clients, its destructor and the server do,   *)
(* and in whatever order, a connection has one borrower at a time and comes *)
(* back to the store from it, unless the borrower loses it while using it;  *)
(* the store itself gives up only what the server has closed, and does not  *)
(* end before it has all of them.                                           *)
THEOREM ImplementsLending == Spec => LendingSpec
<1>1. Init => Store!Init
  <2> SUFFICES ASSUME Init PROVE Store!Init
    OBVIOUS
  <2>1. Pooled = {} /\ Holders = {} /\ Users = {} /\ Exists = FALSE
    BY ThreadFacts DEF Init, Pooled, Holders, Users, Exists
  <2>2. Lent = Store!Nobody
    BY <2>1 DEF Lent, Store!Nobody
  <2> QED
    BY <2>1, <2>2 DEF Init, Store!Init
<1>2. PlaceInv /\ [Next]_vars => [Store!Next]_(Store!vars)
  BY LendingStep
<1> QED
  BY <1>1, <1>2, PlaceInit, PlaceStep, PTL DEF Spec, LendingSpec, Store!Spec
-----------------------------------------------------------------------------
LEMMA ClosingStep == Typed /\ ClosingOrder /\ [Next]_vars => ClosingOrder'
<1> SUFFICES ASSUME Typed, ClosingOrder, [Next]_vars PROVE ClosingOrder'
  OBVIOUS
<1>0. /\ pc \in [Thread -> States] /\ pool \in Seq(Connection) /\ closed \subseteq Connection
  BY DEF Typed, TypeOK, States
<1> USE <1>0, ThreadFacts DEF ClosingOrder
<1>1. CASE InitStore
  BY <1>1 DEF InitStore, Construct
<1>2. CASE \/ \E x \in Connection : Break(x)
           \/ \E c \in Client : \/ CreateStatement(c) \/ Execute(c)
                               \/ DeleteStatement(c) \/ Commit(c)
           \/ UNCHANGED vars
  <2>1. pc' = pc /\ closed' = closed
    BY <1>2 DEF Break, CreateStatement, Execute, DeleteStatement, Commit, vars
  <2> QED
    BY <2>1
<1>3. ASSUME NEW c \in Client, GetConnection(c) \/ Leave(c) \/ Rollback(c) \/ Throw(c)
                               \/ CheckConnection(c) \/ Take(c) \/ Push(c)
      PROVE  ClosingOrder'
  <2>1. closed' = closed
    BY <1>3 DEF GetConnection, Leave, Rollback, Throw, CheckConnection, Take, Push
  <2>2. pc'[Owner] = pc[Owner] \/ (pc[Owner] = "asleep" /\ pc'[Owner] = "woken")
    BY <1>3 DEF GetConnection, Leave, Rollback, Throw, CheckConnection, Take, Push, Goto,
       Notifiable, Sleeping
  <2> QED
    BY <2>1, <2>2
<1>4. ASSUME NEW t \in Thread, Wait(t) \/ Spurious(t) PROVE ClosingOrder'
  BY <1>4 DEF Wait, Spurious, Goto
<1>5. CASE Destory
  BY <1>5, DBPoolAssumption DEF Destory, Goto
<1>6. CASE CloseConnection
  <2>1. pc'[Owner] \in {"none", "look"} /\ (pc'[Owner] = "look" => ~Over(closed'))
    BY <1>6 DEF CloseConnection
  <2>2. closed' = Connection => Over(closed')
    BY DEF Over
  <2> QED
    BY <2>1, <2>2
<1> QED
  BY <1>1, <1>2, <1>3, <1>4, <1>5, <1>6
     DEF Next, ClientStep, OwnerStep, Use, LetGo

(* Threads of the store are never all asleep for nothing: a connection must *)
(* be lost for it, and all of them must be for the clients to be stuck.     *)
THEOREM StuckOnlyByLoss == Spec => []StuckMeansLost
<1>1. Init => WorkConserving /\ ClosingOrder
  BY ThreadFacts DEF Init, WorkConserving, Sleeping, ClosingOrder
<1>2. PlaceInv /\ WorkConserving /\ ClosingOrder => StuckMeansLost
  <2> SUFFICES ASSUME PlaceInv, WorkConserving, ClosingOrder, status = "ok",
                      Sleeping # {},
                      \A t \in Thread : pc[t] \in {"none", "out", "asleep", "leave"}
               PROVE  lost # {} /\ (pc[Owner] = "out" => lost = Connection)
    BY DEF StuckMeansLost
  <2>1. Woken = {} /\ Holders = {} /\ Taken = {}
    BY ThreadFacts DEF Woken, Holders, Taken
  <2>2. pool = <<>>
    <3>1. pool \in Seq(Connection) /\ Len(pool) \in Nat
      BY LenProperties DEF PlaceInv, Typed, TypeOK
    <3>2. Len(pool) <= 0
      BY <2>1, FS_EmptySet DEF WorkConserving
    <3> QED
      BY <3>1, <3>2, EmptySeq
  <2>3. Pooled = {}
    BY <2>2 DEF Pooled
  <2>4. pc[Owner] # "none"
    BY ThreadFacts DEF PlaceInv, NothingLeft, Sleeping, Thread
  <2>5. Connection = lost \cup closed
    BY <2>1, <2>3, <2>4 DEF PlaceInv, OnePlace
  <2>6. pc[Owner] \in {"out", "asleep"}
    BY <2>4, ThreadFacts DEF ClosingOrder
  <2> QED
    BY <2>5, <2>6, DBPoolAssumption DEF ClosingOrder
<1> QED
  BY <1>1, <1>2, PlaceInit, PlaceStep, WorkStep, ClosingStep, PTL DEF Spec, PlaceInv
=============================================================================
