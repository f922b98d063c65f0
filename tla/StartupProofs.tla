--------------------------- MODULE StartupProofs ---------------------------
(***************************************************************************)
(* For any number of sub-reactors and datagrams: the threads run over      *)
(* complete tables, nothing is dropped once NetWrapper is constructed, and *)
(* only a loop that began before that can still run off its vector.        *)
(***************************************************************************)
EXTENDS Startup, TLAPS

LEMMA TypeStep == TypeOK /\ [Next]_vars => TypeOK'
<1> SUFFICES ASSUME TypeOK, [Next]_vars PROVE TypeOK'
  OBVIOUS
<1> USE StartupAssumption DEF TypeOK, mainVars, callbackVars, dataVars
<1>1. CASE CreateMainReactor \/ CreateMessageDemutiplexor
  BY <1>1 DEF CreateMainReactor, CreateMessageDemutiplexor
<1>2. ASSUME NEW r \in SubReactor, CreateSubReactor(r) \/ MakeRelationship(r) PROVE TypeOK'
  BY <1>2 DEF CreateSubReactor, WaitsForStart, MakeRelationship
<1>3. ASSUME NEW t \in Thread, SetRunning(t) \/ Notify(t) PROVE TypeOK'
  BY <1>3 DEF SetRunning, Notify, Notified
<1>4. CASE AddPushMessageCallback \/ AddCallback
  BY <1>4 DEF AddPushMessageCallback, AddCallback, Looping
<1>5. ASSUME NEW t \in Thread, Check(t) \/ Block(t) \/ Spurious(t) PROVE TypeOK'
  BY <1>5 DEF Check, Block, Spurious
<1>6. ASSUME NEW d \in Datagram, Send(d) \/ OnDataRecv(d) \/ OnMessageDispatch(d) PROVE TypeOK'
  BY <1>6 DEF Send, OnDataRecv, OnMessageDispatch, BeginLoop, EndLoop, Loads
<1>7. ASSUME NEW r \in SubReactor, NEW d \in Datagram, OnSessionDispatch(r, d) PROVE TypeOK'
  BY <1>7 DEF OnSessionDispatch
<1>8. ASSUME NEW r \in SubReactor, OnPushMessage(r) PROVE TypeOK'
  <2>1. PICK d \in Datagram : cur[r] = d
    BY <1>8 DEF OnPushMessage
  <2>2. CASE BeginLoop(d, pushCb)
    BY <1>8, <2>2 DEF OnPushMessage, BeginLoop, Loads
  <2>3. CASE EndLoop(d, pushCb, "pushed") /\ cur' = [cur EXCEPT ![r] = None]
    BY <1>8, <2>3 DEF OnPushMessage, EndLoop
  <2> QED
    BY <1>8, <2>1, <2>2, <2>3 DEF OnPushMessage
<1>9. CASE UNCHANGED vars
  BY <1>9 DEF vars
<1> QED
  BY <1>1, <1>2, <1>3, <1>4, <1>5, <1>6, <1>7, <1>8, <1>9 DEF Next, MainStep, ReactorStep

LEMMA SleepStep == TypeOK /\ SleepsOnlyIfMissed /\ [Next]_vars => SleepsOnlyIfMissed'
<1> SUFFICES ASSUME TypeOK, SleepsOnlyIfMissed, [Next]_vars PROVE SleepsOnlyIfMissed'
  OBVIOUS
<1> USE StartupAssumption DEF TypeOK, SleepsOnlyIfMissed, mainVars, callbackVars, dataVars
<1>1. ASSUME UNCHANGED <<started, pc, missed>> PROVE SleepsOnlyIfMissed'
  BY <1>1
<1>2. CASE CreateMainReactor
  BY <1>2 DEF CreateMainReactor
<1>3. ASSUME NEW r \in SubReactor, CreateSubReactor(r) PROVE SleepsOnlyIfMissed'
  BY <1>3 DEF CreateSubReactor
<1>4. ASSUME NEW t \in Thread, Notify(t) PROVE SleepsOnlyIfMissed'
  BY <1>4 DEF Notify, Notified
<1>5. ASSUME NEW t \in Thread, Check(t) \/ Block(t) \/ Spurious(t) PROVE SleepsOnlyIfMissed'
  BY <1>5 DEF Check, Block, Spurious
<1>6. CASE CreateMessageDemutiplexor \/ AddPushMessageCallback \/ AddCallback
  BY <1>1, <1>6 DEF CreateMessageDemutiplexor, AddPushMessageCallback, AddCallback
<1>7. ASSUME NEW r \in SubReactor, MakeRelationship(r) PROVE SleepsOnlyIfMissed'
  BY <1>1, <1>7 DEF MakeRelationship
<1>8. ASSUME NEW t \in Thread, SetRunning(t) PROVE SleepsOnlyIfMissed'
  BY <1>1, <1>8 DEF SetRunning
<1>9. ASSUME NEW d \in Datagram, Send(d) \/ OnDataRecv(d) \/ OnMessageDispatch(d)
      PROVE  SleepsOnlyIfMissed'
  BY <1>1, <1>9 DEF Send, OnDataRecv, OnMessageDispatch
<1>10. ASSUME NEW r \in SubReactor, ReactorStep(r) PROVE SleepsOnlyIfMissed'
  BY <1>1, <1>10 DEF ReactorStep, OnSessionDispatch, OnPushMessage
<1>11. CASE UNCHANGED vars
  BY <1>1, <1>11 DEF vars
<1> QED
  BY <1>2, <1>3, <1>4, <1>5, <1>6, <1>7, <1>8, <1>9, <1>10, <1>11 DEF Next, MainStep

LEMMA ThreadFacts ==
  /\ Selector \in Thread /\ SubReactor \subseteq Thread
  /\ \A t \in Thread : t = Selector \/ t \in SubReactor
BY DEF Thread

LEMMA OrderStep == TypeOK /\ ConstructionOrder /\ [Next]_vars => ConstructionOrder'
<1> SUFFICES ASSUME TypeOK, ConstructionOrder, [Next]_vars PROVE ConstructionOrder'
  OBVIOUS
<1> USE StartupAssumption, ThreadFacts DEF TypeOK, ConstructionOrder, mainVars, callbackVars, dataVars
<1>1. CASE CreateMainReactor \/ CreateMessageDemutiplexor
  BY <1>1 DEF CreateMainReactor, CreateMessageDemutiplexor
<1>2. ASSUME NEW r \in SubReactor, CreateSubReactor(r) \/ MakeRelationship(r)
      PROVE  ConstructionOrder'
  BY <1>2 DEF CreateSubReactor, WaitsForStart, MakeRelationship
<1>3. ASSUME NEW t \in Thread, SetRunning(t) \/ Notify(t) PROVE ConstructionOrder'
  BY <1>3 DEF SetRunning, Notify, Notified
<1>4. CASE AddPushMessageCallback \/ AddCallback
  BY <1>4 DEF AddPushMessageCallback, AddCallback
<1>5. ASSUME NEW t \in Thread, Check(t) \/ Block(t) \/ Spurious(t) PROVE ConstructionOrder'
  BY <1>5 DEF Check, Block, Spurious
<1>6. ASSUME NEW d \in Datagram, Send(d) \/ OnDataRecv(d) \/ OnMessageDispatch(d)
      PROVE  ConstructionOrder'
  BY <1>6 DEF Send, OnDataRecv, OnMessageDispatch
<1>7. ASSUME NEW r \in SubReactor, ReactorStep(r) PROVE ConstructionOrder'
  BY <1>7 DEF ReactorStep, OnSessionDispatch, OnPushMessage
<1>8. CASE UNCHANGED vars
  BY <1>8 DEF vars
<1> QED
  BY <1>1, <1>2, <1>3, <1>4, <1>5, <1>6, <1>7, <1>8 DEF Next, MainStep

LEMMA ReaderStep == TypeOK /\ OneReader /\ [Next]_vars => OneReader'
<1> SUFFICES ASSUME TypeOK, OneReader, [Next]_vars PROVE OneReader'
  OBVIOUS
<1> USE StartupAssumption DEF TypeOK, OneReader, mainVars, callbackVars, dataVars
<1>1. ASSUME UNCHANGED <<where, cur>> PROVE OneReader'
  BY <1>1
<1>2. CASE MainStep
  BY <1>1, <1>2 DEF MainStep, CreateMainReactor, CreateMessageDemutiplexor, CreateSubReactor,
     MakeRelationship, SetRunning, Notify, AddPushMessageCallback, AddCallback
<1>3. ASSUME NEW t \in Thread, Check(t) \/ Block(t) \/ Spurious(t) PROVE OneReader'
  BY <1>1, <1>3 DEF Check, Block, Spurious
<1>4. ASSUME NEW d \in Datagram, Send(d) \/ OnDataRecv(d) \/ OnMessageDispatch(d)
      PROVE  OneReader'
  <2>1. /\ cur' = cur /\ where[d] # "read"
        /\ \E w \in {"readable", "queued", "pushed", "handled", "dropped"} :
             where' = [where EXCEPT ![d] = w]
    BY <1>4 DEF Send, OnDataRecv, OnMessageDispatch, BeginLoop, EndLoop
  <2> QED
    BY <2>1
<1>5. ASSUME NEW r \in SubReactor, NEW d \in Datagram, OnSessionDispatch(r, d) PROVE OneReader'
  BY <1>5 DEF OnSessionDispatch
<1>6. ASSUME NEW r \in SubReactor, OnPushMessage(r) PROVE OneReader'
  <2>1. PICK d \in Datagram : cur[r] = d
    BY <1>6 DEF OnPushMessage
  <2>2. CASE BeginLoop(d, pushCb)
    BY <1>1, <2>2 DEF BeginLoop
  <2>3. CASE EndLoop(d, pushCb, "pushed") /\ cur' = [cur EXCEPT ![r] = None]
    <3>1. \E w \in {"pushed", "dropped"} : where' = [where EXCEPT ![d] = w]
      BY <2>3 DEF EndLoop
    <3> QED
      BY <2>1, <2>3, <3>1
  <2> QED
    BY <1>6, <2>1, <2>2, <2>3 DEF OnPushMessage
<1>7. CASE UNCHANGED vars
  BY <1>1, <1>7 DEF vars
<1> QED
  BY <1>2, <1>3, <1>4, <1>5, <1>6, <1>7 DEF Next, ReactorStep

LEMMA LoopStep ==
  TypeOK /\ ConstructionOrder /\ OneReader /\ LoopsInProgress /\ [Next]_vars
  => LoopsInProgress'
<1> SUFFICES ASSUME TypeOK, ConstructionOrder, OneReader, LoopsInProgress, [Next]_vars
             PROVE  LoopsInProgress'
  OBVIOUS
<1> USE StartupAssumption DEF TypeOK, LoopsInProgress, mainVars, callbackVars, dataVars
<1>1. ASSUME UNCHANGED dataVars, step' = "launched" => step = "launched"
      PROVE  LoopsInProgress'
  BY <1>1
<1>2. CASE \/ CreateMainReactor \/ CreateMessageDemutiplexor \/ AddPushMessageCallback
           \/ \E r \in SubReactor : CreateSubReactor(r) \/ MakeRelationship(r)
           \/ \E t \in Thread : SetRunning(t) \/ Notify(t)
  BY <1>1, <1>2 DEF CreateMainReactor, CreateMessageDemutiplexor, CreateSubReactor,
     MakeRelationship, SetRunning, Notify, AddPushMessageCallback
<1>3. CASE AddCallback
  BY <1>3 DEF AddCallback, Looping
<1>4. ASSUME NEW t \in Thread, Check(t) \/ Block(t) \/ Spurious(t) PROVE LoopsInProgress'
  BY <1>1, <1>4 DEF Check, Block, Spurious
<1>5. ASSUME NEW d \in Datagram, Send(d) \/ OnDataRecv(d) PROVE LoopsInProgress'
  BY <1>5 DEF Send, OnDataRecv
<1>6. ASSUME NEW d \in Datagram, NEW cb \in {pushCb, handlerCb},
             where[d] \in {"read", "pushed"}, BeginLoop(d, cb), step' = step
      PROVE  LoopsInProgress'
  <2>1. step = "launched" => cb = "set"
    BY DEF ConstructionOrder
  <2> QED
    BY <1>6, <2>1 DEF BeginLoop, Loads
<1>7. ASSUME NEW d \in Datagram, NEW cb, NEW w, EndLoop(d, cb, w), step' = step
      PROVE  LoopsInProgress'
  BY <1>7 DEF EndLoop
<1>8. ASSUME NEW r \in SubReactor, NEW d \in Datagram, OnSessionDispatch(r, d)
      PROVE  LoopsInProgress'
  BY <1>8 DEF OnSessionDispatch
<1>9. ASSUME NEW d \in Datagram, OnMessageDispatch(d) PROVE LoopsInProgress'
  BY <1>6, <1>7, <1>9 DEF OnMessageDispatch
<1>10. ASSUME NEW r \in SubReactor, OnPushMessage(r) PROVE LoopsInProgress'
  <2>1. cur[r] \in Datagram /\ where[cur[r]] = "read"
    BY <1>10 DEF OnPushMessage, OneReader
  <2> QED
    BY <1>6, <1>7, <1>10, <2>1 DEF OnPushMessage
<1>11. CASE UNCHANGED vars
  BY <1>1, <1>11 DEF vars
<1> QED
  BY <1>2, <1>3, <1>4, <1>5, <1>8, <1>9, <1>10, <1>11 DEF Next, MainStep, ReactorStep

(* The types, the order of the construction, the loops over the vectors of  *)
(* callbacks, and who may still sleep when Start has returned.              *)
THEOREM StartupInvariant == Spec => []StartupInv
<1>1. Init => StartupInv
  BY StartupAssumption
     DEF Init, StartupInv, TypeOK, SleepsOnlyIfMissed, ConstructionOrder, OneReader,
         LoopsInProgress
<1>2. StartupInv /\ [Next]_vars => StartupInv'
  BY TypeStep, SleepStep, OrderStep, ReaderStep, LoopStep DEF StartupInv
<1> QED
  BY <1>1, <1>2, PTL DEF Spec

(* sub_reactors_ and the callbacks of the sub-reactors are complete before  *)
(* any of the threads that read them without a lock is in its loop.         *)
THEOREM TablesAreComplete == Spec => []LoopsOverCompleteTables
<1>1. StartupInv => LoopsOverCompleteTables
  BY DEF StartupInv, ConstructionOrder, LoopsOverCompleteTables, Thread
<1> QED
  BY <1>1, StartupInvariant, PTL

(* Once the constructor has returned no datagram is dropped on its way to   *)
(* the handler, whatever was dropped before; and only a loop that had begun *)
(* by then, and loaded a pointer of an empty vector, ends the process.      *)
THEOREM OnlyEarlierLoopsCrash == Spec => ExposedOnlyIfBegunEarlier
<1> DEFINE Kept == step = "launched" =>
                     /\ \A d \in Datagram : where'[d] = "dropped" => where[d] = "dropped"
                     /\ crashed' # crashed => exposed' # exposed
<1>1. StartupInv /\ [Next]_vars => Kept
  <2> SUFFICES ASSUME StartupInv, [Next]_vars, step = "launched" PROVE Kept
    OBVIOUS
  <2> USE DEF TypeOK, mainVars, callbackVars, dataVars
  <2>0. /\ TypeOK /\ created = SubReactor /\ pushCb = "set" /\ handlerCb = "set"
        /\ LoopsInProgress
    BY DEF StartupInv, ConstructionOrder
  <2>1. ASSUME UNCHANGED <<where, crashed>> PROVE Kept
    BY <2>1
  <2>2. CASE MainStep
    BY <2>1, <2>2 DEF MainStep, CreateMainReactor, CreateMessageDemutiplexor, CreateSubReactor,
       MakeRelationship, SetRunning, Notify, AddPushMessageCallback, AddCallback
  <2>3. ASSUME NEW t \in Thread, Check(t) \/ Block(t) \/ Spurious(t) PROVE Kept
    BY <2>1, <2>3 DEF Check, Block, Spurious
  <2>4. ASSUME NEW d \in Datagram, Send(d) \/ OnDataRecv(d) PROVE Kept
    BY <2>0, <2>4 DEF Send, OnDataRecv
  <2>5. ASSUME NEW r \in SubReactor, NEW d \in Datagram, OnSessionDispatch(r, d) PROVE Kept
    BY <2>0, <2>5 DEF OnSessionDispatch
  <2>6. ASSUME ~crashed, NEW d \in Datagram, NEW w \in {"pushed", "handled"},
               BeginLoop(d, "set") \/ EndLoop(d, "set", w)
        PROVE  Kept
    <3>1. CASE BeginLoop(d, "set")
      BY <2>1, <3>1 DEF BeginLoop
    <3>2. CASE EndLoop(d, "set", w)
      <4>1. /\ where' = [where EXCEPT ![d] = w] /\ w # "dropped"
            /\ crashed' = (first[d] # "block") /\ exposed' = exposed \ {d}
            /\ first[d] # "unread"
        BY <3>2 DEF EndLoop, Loads
      <4>2. crashed' # crashed => d \in exposed
        BY <2>0, <2>6, <4>1 DEF LoopsInProgress
      <4> QED
        BY <2>0, <4>1, <4>2
    <3> QED
      BY <2>6, <3>1, <3>2
  <2>7. ASSUME ~crashed, NEW d \in Datagram, OnMessageDispatch(d) PROVE Kept
    BY <2>0, <2>6, <2>7 DEF OnMessageDispatch
  <2>8. ASSUME ~crashed, NEW r \in SubReactor, OnPushMessage(r) PROVE Kept
    BY <2>0, <2>6, <2>8, StartupAssumption DEF OnPushMessage
  <2>9. CASE UNCHANGED vars
    BY <2>1, <2>9 DEF vars
  <2> QED
    BY <2>2, <2>3, <2>4, <2>5, <2>7, <2>8, <2>9 DEF Next, ReactorStep
<1> QED
  BY <1>1, StartupInvariant, PTL DEF Spec, ExposedOnlyIfBegunEarlier

(* The main thread never waits for good for a sub-reactor's mutex: the one  *)
(* who has it is between its check and its wait.                            *)
THEOREM NeverShutOut == Spec => []RelatesUnhindered
<1>1. StartupInv => RelatesUnhindered
  BY DEF StartupInv, TypeOK, ConstructionOrder, RelatesUnhindered, Thread
<1> QED
  BY <1>1, StartupInvariant, PTL

(* When there is nothing left to do for any thread, what was sent to a      *)
(* NetWrapper that is constructed has been handled, unless the selector or  *)
(* all of the sub-reactors sleep on.                                        *)
THEOREM HandledAtRest == Spec => []RestMeansHandled
<1>1. StartupInv => RestMeansHandled
  <2> SUFFICES ASSUME StartupInv, step = "launched", AtRest, NEW d \in Datagram
               PROVE  \/ where[d] \in {"away", "handled", "dropped"}
                      \/ Selector \in missed \/ SubReactor \subseteq missed
    BY DEF RestMeansHandled
  <2>1. \A t \in Thread : pc[t] = "loop" \/ t \in missed
    BY DEF StartupInv, TypeOK, ConstructionOrder, SleepsOnlyIfMissed, AtRest, Thread
  <2>2. where[d] \notin {"read", "pushed"}
    BY StartupAssumption DEF StartupInv, OneReader, AtRest
  <2>3. where[d] = "readable" => Selector \in missed
    BY <2>1 DEF AtRest, Thread
  <2>4. where[d] = "queued" => SubReactor \subseteq missed
    BY <2>1 DEF AtRest, Thread
  <2> QED
    BY <2>2, <2>3, <2>4 DEF StartupInv, TypeOK
<1> QED
  BY <1>1, StartupInvariant, PTL
=============================================================================
