--------------------------- MODULE ShutdownProofs ---------------------------
(***************************************************************************)
(* For any number of sub-reactors: one nullptr each is enough to stop      *)
(* them, and only a thread that is joined later uses a part that is gone.  *)
(***************************************************************************)
EXTENDS Shutdown, FiniteSetTheorems, TLAPS

States == {"begin", "asleep", "loop", "lock", "checked", "blocked", "woken",
           "find", "serve", "exited"}

LEMMA ReactorsCounted == Cardinality(SubReactor) \in Nat \ {0}
BY ShutdownAssumption, FS_CardinalityType, FS_EmptySet

Threads == {"selector", "reactor", "worker"}

LEMMA UsesTyped ==
  ASSUME TypeOK, NEW t \in Threads, NEW parts \in SUBSET Part, Uses(t, parts)
  PROVE  dangling' \subseteq Threads \X Part
BY DEF TypeOK, Uses, Threads

(* A push makes the queue one longer, or ends it where it found its end.    *)
LEMMA EndPushTyped ==
  ASSUME TypeOK, NEW p \in Pusher, NEW x \in {"session", null}, EndPush(p, x)
  PROVE  /\ sessionQ' \in Seq({"session", null})
         /\ found' \in [Pusher -> Int] /\ found' = [found EXCEPT ![p] = 0]
         /\ torn' \in BOOLEAN
         /\ \/ Len(sessionQ') = Len(sessionQ) + 1
            \/ found[p] < Len(sessionQ) /\ Len(sessionQ') = found[p] + 1
<1> USE DEF TypeOK
<1>1. /\ found' \in [Pusher -> Int] /\ found' = [found EXCEPT ![p] = 0]
      /\ torn' \in BOOLEAN
  <2>1. found' = [found EXCEPT ![p] = 0]
    BY DEF EndPush
  <2>2. torn' \in BOOLEAN
    BY DEF EndPush
  <2> QED
    BY <2>1, <2>2
<1>2. CASE sessionQ' = Append(sessionQ, x)
  BY <1>1, <1>2
<1>3. CASE /\ found[p] \in -1..(Len(sessionQ) - 1)
           /\ sessionQ' \in Overwritten(p, x)
  <2>1. Len(sessionQ) \in Nat /\ found[p] \in Int
    OBVIOUS
  <2>2. CASE found[p] < 0
    <3>1. sessionQ' = <<>> /\ found[p] = -1
      BY <1>3, <2>1, <2>2 DEF Overwritten
    <3>2. Len(sessionQ') = 0 /\ sessionQ' \in Seq({"session", null})
      BY <3>1
    <3> QED
      BY <1>1, <2>1, <3>1, <3>2
  <2>3. CASE found[p] >= 0
    <3>1. found[p] \in 0..(Len(sessionQ) - 1) /\ found[p] + 1 \in 1..Len(sessionQ)
      BY <1>3, <2>1, <2>3
    <3>2. PICK y \in {"session", null} : sessionQ' = Append(SubSeq(sessionQ, 1, found[p]), y)
      <4>1. sessionQ[found[p] + 1] \in {"session", null}
        BY <3>1
      <4>2. sessionQ' \in {Append(SubSeq(sessionQ, 1, found[p]), y)
                            : y \in {x, sessionQ[found[p] + 1]}}
        BY <1>3, <2>1, <2>3 DEF Overwritten
      <4> QED
        BY <4>1, <4>2
    <3>3. /\ SubSeq(sessionQ, 1, found[p]) \in Seq({"session", null})
          /\ Len(SubSeq(sessionQ, 1, found[p])) = found[p]
      BY <3>1
    <3> QED
      BY <1>1, <2>1, <3>1, <3>2, <3>3
  <2> QED
    BY <2>1, <2>2, <2>3
<1> QED
  BY <1>2, <1>3 DEF EndPush

LEMMA TypeStep == TypeOK /\ DestructorOrder /\ [Next]_vars => TypeOK'
<1> SUFFICES ASSUME TypeOK, DestructorOrder, [Next]_vars PROVE TypeOK'
  OBVIOUS
<1> USE ShutdownAssumption, ReactorsCounted DEF TypeOK, mainVars, queueVars
<1>0. \A t \in Threads : \A parts \in SUBSET Part :
        Uses(t, parts) => dangling' \subseteq {"selector", "reactor", "worker"} \X Part
  BY UsesTyped DEF Threads
<1>1. ASSUME NEW r \in SubReactor, Stop(r) PROVE TypeOK'
  BY <1>1 DEF Stop
<1>2. CASE BeginPushNull
  BY <1>2 DEF BeginPushNull, BeginPush, Pusher
<1>12. CASE PushNull
  <2>1. EndPush("main", null) /\ "main" \in Pusher
    BY <1>12 DEF PushNull, Pusher
  <2>2. /\ sessionQ' \in Seq({"session", null})
        /\ found' \in [Pusher -> Int] /\ torn' \in BOOLEAN
    BY <2>1, EndPushTyped
  <2>3. nulls' \in 0..Cardinality(SubReactor)
    BY <1>12 DEF PushNull, DestructorOrder
  <2> QED
    BY <1>12, <2>2, <2>3 DEF PushNull
<1>3. CASE NotifyAll
  BY <1>3 DEF NotifyAll, OneForEach, BlockedWake, Checked
<1>4. CASE \/ DestroyHandler \/ ClearReactors \/ DestroyQueue \/ DestroyManager
           \/ DestroyCallbacks \/ DeleteEvents \/ FreeBase
  BY <1>4 DEF DestroyHandler, ClearReactors, DestroyQueue, DestroyManager,
     DestroyCallbacks, DeleteEvents, FreeBase, Destroy
<1>5. CASE JoinedReactors \/ LoopBreak \/ JoinedSelector
  BY <1>5 DEF JoinedReactors, LoopBreak, ToldToLeave, JoinedSelector
<1>6. CASE StartLoop \/ EnterLoop \/ FindSession \/ ReturnToLoop \/ Dispatch
  <2>1. dangling' \subseteq {"selector", "reactor", "worker"} \X Part
    BY <1>0, <1>6 DEF StartLoop, EnterLoop, FindSession, ReturnToLoop,
       Dispatch, Threads, Part
  <2>2. UNCHANGED <<phase, alive, running, nulls, missed, queueVars, messages>>
    BY <1>6 DEF StartLoop, EnterLoop, FindSession, ReturnToLoop, Dispatch
  <2>3. broken' \in BOOLEAN
    <3>1. broken' = broken \/ broken' = FALSE
      BY <1>6 DEF StartLoop, EnterLoop, FindSession, ReturnToLoop, Dispatch
    <3> QED
      BY <3>1
  <2>4. events' \in 0..MaxEvents
    BY <1>6 DEF StartLoop, EnterLoop, FindSession, ReturnToLoop, Dispatch
  <2>5. loop' \in {"begin", "asleep", "enter", "poll", "find", "push", "pushing", "return",
                   "exited"}
    BY <1>6 DEF StartLoop, EnterLoop, FindSession, ReturnToLoop, Dispatch
  <2> QED
    BY <2>1, <2>2, <2>3, <2>4, <2>5
<1>7. CASE OnPushSession
  <2>1. dangling' \subseteq {"selector", "reactor", "worker"} \X Part
    BY <1>0, <1>7 DEF OnPushSession, Threads, Part
  <2> QED
    BY <1>7, <2>1 DEF OnPushSession, BeginPush, Pusher
<1>13. CASE PushSession
  <2>1. EndPush("selector", "session") /\ "selector" \in Pusher
    BY <1>13 DEF PushSession, Pusher
  <2>2. /\ sessionQ' \in Seq({"session", null})
        /\ found' \in [Pusher -> Int] /\ torn' \in BOOLEAN
    BY <2>1, EndPushTyped
  <2>3. lost' \in Nat
    <3>1. Len(sessionQ) \in Nat /\ Len(sessionQ') \in Nat
      BY <2>2
    <3> QED
      BY <1>13, <3>1 DEF PushSession
  <2>4. pc' \in [SubReactor -> States]
    BY <1>13 DEF PushSession, Blocked, States
  <2>5. dangling' \subseteq {"selector", "reactor", "worker"} \X Part
    BY <1>0, <1>13 DEF PushSession, Threads, Part
  <2> QED
    BY <1>13, <2>2, <2>3, <2>4, <2>5 DEF PushSession, States
<1>8. ASSUME NEW r \in SubReactor, ReactorStep(r) \/ Spurious(r) PROVE TypeOK'
  <2>1. ASSUME StartReactor(r) \/ Loop(r) \/ Block(r) \/ Spurious(r) PROVE TypeOK'
    BY <2>1 DEF Spurious, StartReactor, Loop, Block
  <2>2. ASSUME FindReactor(r) \/ Serve(r) PROVE TypeOK'
    <3>1. dangling' \subseteq {"selector", "reactor", "worker"} \X Part
      BY <1>0, <2>2 DEF FindReactor, Serve, Threads, Part
    <3>2. pc' \in [SubReactor -> States]
      BY <2>2 DEF FindReactor, Serve, States
    <3>3. messages' \in Nat /\ UNCHANGED <<mainVars, sessionQ, found, lost, torn, loop, events>>
      BY <2>2 DEF FindReactor, Serve
    <3> QED
      BY <3>1, <3>2, <3>3 DEF States
  <2> QED
    BY <1>8, <2>1, <2>2 DEF ReactorStep
<1>9. ASSUME NEW r \in SubReactor, Look(r) PROVE TypeOK'
  <2>1. sessionQ' \in Seq({"session", null})
    <3>1. sessionQ # <<>> => Tail(sessionQ) \in Seq({"session", null})
      OBVIOUS
    <3> QED
      BY <1>9, <3>1 DEF Look
  <2>4. found' \in [Pusher -> Int]
    <3>1. CASE sessionQ = <<>>
      BY <1>9, <3>1 DEF Look
    <3>2. CASE sessionQ # <<>>
      <4>1. found' = [p \in Pusher |-> IF Pushing(p) THEN found[p] - 1 ELSE found[p]]
        BY <1>9, <3>2 DEF Look
      <4>2. \A p \in Pusher : found[p] \in Int /\ found[p] - 1 \in Int
        OBVIOUS
      <4> QED
        BY <4>1, <4>2
    <3> QED
      BY <3>1, <3>2
  <2>5. torn' \in BOOLEAN
    BY <1>9 DEF Look
  <2>2. pc' \in [SubReactor -> States]
    BY <1>9 DEF Look, States
  <2>3. dangling' \subseteq {"selector", "reactor", "worker"} \X Part
    BY <1>0, <1>9 DEF Look, Threads, Part
  <2> QED
    BY <1>9, <2>1, <2>2, <2>3, <2>4, <2>5 DEF Look, States
<1>10. CASE Handle
  BY <1>0, <1>10 DEF Handle, Threads, Part
<1>11. CASE UNCHANGED vars
  BY <1>11 DEF vars
<1> QED
  BY <1>1, <1>2, <1>3, <1>4, <1>5, <1>6, <1>7, <1>8, <1>9, <1>10, <1>11, <1>12, <1>13
     DEF Next, MainStep, SelectorStep

LEMMA OrderStep == TypeOK /\ DestructorOrder /\ [Next]_vars => DestructorOrder'
<1> SUFFICES ASSUME TypeOK, DestructorOrder, [Next]_vars PROVE DestructorOrder'
  OBVIOUS
<1> USE ReactorsCounted DEF TypeOK, DestructorOrder, mainVars, queueVars
<1>1. ASSUME NEW r \in SubReactor, Stop(r) PROVE DestructorOrder'
  BY <1>1 DEF Stop
<1>2. CASE BeginPushNull \/ PushNull
  BY <1>2 DEF BeginPushNull, PushNull
<1>3. CASE NotifyAll
  BY <1>3 DEF NotifyAll, OneForEach
<1>4. CASE \/ DestroyHandler \/ ClearReactors \/ DestroyQueue \/ DestroyManager
           \/ DestroyCallbacks \/ DeleteEvents \/ FreeBase
  BY <1>4 DEF DestroyHandler, ClearReactors, DestroyQueue, DestroyManager,
     DestroyCallbacks, DeleteEvents, FreeBase, Destroy
<1>5. CASE JoinedReactors \/ LoopBreak \/ JoinedSelector
  BY <1>5 DEF JoinedReactors, LoopBreak, JoinedSelector
<1>6. ASSUME UNCHANGED <<phase, nulls, running>> PROVE DestructorOrder'
  BY <1>6
<1>7. CASE SelectorStep \/ Dispatch \/ OnPushSession \/ Handle
  BY <1>6, <1>7 DEF SelectorStep, StartLoop, EnterLoop, FindSession, PushSession,
     ReturnToLoop, Dispatch, OnPushSession, Handle
<1>8. ASSUME NEW r \in SubReactor, ReactorStep(r) \/ Look(r) \/ Spurious(r) PROVE DestructorOrder'
  BY <1>6, <1>8 DEF ReactorStep, Spurious, StartReactor, Loop, Block, FindReactor, Serve, Look
<1>9. CASE UNCHANGED vars
  BY <1>6, <1>9 DEF vars
<1> QED
  BY <1>1, <1>2, <1>3, <1>4, <1>5, <1>7, <1>8, <1>9 DEF Next, MainStep
-----------------------------------------------------------------------------
(* What is left of the sentinels.                                           *)
Past == {r \in SubReactor : ~MayPop(r)}

LEMMA FinitePast ==
  /\ IsFiniteSet(Past) /\ Cardinality(Past) \in Nat
  /\ \A r : r \notin Past => Cardinality(Past \cup {r}) = Cardinality(Past) + 1
<1>1. Past \in SUBSET SubReactor
  BY DEF Past
<1>2. IsFiniteSet(Past)
  BY <1>1, ShutdownAssumption, FS_Subset
<1> QED
  BY <1>2, FS_CardinalityType, FS_AddElement

LEMMA PastGrows ==
  ASSUME IsFiniteSet(Past'), Past \subseteq Past'
  PROVE  Cardinality(Past') \in Nat /\ Cardinality(Past) <= Cardinality(Past')
BY FS_Subset, FS_CardinalityType

LEMMA ItemsStep ==
  TypeOK /\ DestructorOrder /\ ItemsLeft /\ [Next]_vars => ItemsLeft'
<1> SUFFICES ASSUME TypeOK, DestructorOrder, ItemsLeft, [Next]_vars PROVE ItemsLeft'
  OBVIOUS
<1> DEFINE
      Enough == /\ nulls' <= Len(sessionQ') + Cardinality(Past') + lost'
                /\ phase' = "push" => nulls' <= found["main"]' + Cardinality(Past') + lost'
<1> USE DEF mainVars, queueVars
<1>1. /\ nulls \in Nat /\ Len(sessionQ) \in Nat /\ lost \in Nat
      /\ found["main"] \in Int /\ found["selector"] \in Int
      /\ nulls <= Len(sessionQ) + Cardinality(Past) + lost
      /\ phase = "push" => nulls <= found["main"] + Cardinality(Past) + lost
  BY ReactorsCounted DEF TypeOK, ItemsLeft, Past, Pusher, Pushing
<1>2. /\ IsFiniteSet(Past') /\ Cardinality(Past') \in Nat /\ lost' \in Nat
      /\ nulls' \in Nat /\ Len(sessionQ') \in Nat /\ found["main"]' \in Int
  <2>1. TypeOK'
    BY TypeStep
  <2> QED
    BY <2>1, ShutdownAssumption, ReactorsCounted, FS_Subset, FS_CardinalityType
       DEF Past, TypeOK, Pusher
<1>3. SUFFICES Enough
  BY DEF ItemsLeft, Past, Pushing
<1>5. ASSUME UNCHANGED <<sessionQ, found, lost, nulls>>, phase' = "push" => phase = "push",
             Past \subseteq Past'
      PROVE  Enough
  <2>1. /\ Cardinality(Past) \in Nat /\ Cardinality(Past') \in Nat
        /\ Cardinality(Past) <= Cardinality(Past')
    BY <1>2, <1>5, PastGrows, FinitePast
  <2>2. found["main"]' = found["main"] /\ Len(sessionQ') = Len(sessionQ)
    BY <1>5
  <2>3. nulls <= Len(sessionQ) + Cardinality(Past') + lost
    BY <1>1, <2>1
  <2>4. CASE phase' = "push"
    <3>1. nulls <= found["main"] + Cardinality(Past) + lost
      BY <1>1, <1>5, <2>4
    <3>2. nulls <= found["main"] + Cardinality(Past') + lost
      BY <1>1, <2>1, <3>1
    <3> QED
      BY <1>5, <2>2, <2>3, <3>2
  <2>5. CASE phase' # "push"
    BY <1>5, <2>3, <2>5
  <2> QED
    BY <2>4, <2>5
<1>6. ASSUME UNCHANGED <<sessionQ, found, lost, nulls, pc>>, phase' = "push" => phase = "push"
      PROVE  Enough
  BY <1>5, <1>6 DEF Past, MayPop
<1>7. ASSUME NEW r \in SubReactor, Stop(r) PROVE Enough
  BY <1>6, <1>7 DEF Stop
<1>8. ASSUME NEW r \in SubReactor, ReactorStep(r) \/ Spurious(r) PROVE Enough
  <2>1. UNCHANGED <<sessionQ, found, lost, nulls, phase>>
    BY <1>8 DEF ReactorStep, Spurious, StartReactor, Loop, Block, FindReactor, Serve
  <2>2. CASE nulls = 0 /\ phase # "push"
    BY <1>2, <2>1, <2>2
  <2>3. CASE nulls # 0 \/ phase = "push"
    <3>1. ~running[r]
      BY <1>1, <2>3 DEF DestructorOrder
    <3>2. Past \subseteq Past'
      BY <1>8, <3>1 DEF ReactorStep, Spurious, StartReactor, Loop, Block, FindReactor, Serve,
         Past, MayPop, TypeOK
    <3> QED
      BY <2>1, <3>2, <1>5
  <2> QED
    BY <2>2, <2>3
<1>9. ASSUME NEW r \in SubReactor, Look(r) PROVE Enough
  <2>1. UNCHANGED <<nulls, lost, phase>>
    BY <1>9 DEF Look
  <2>2. CASE sessionQ = <<>>
    <3>1. UNCHANGED <<sessionQ, found>>
      BY <1>9, <2>2 DEF Look
    <3>2. Past \subseteq Past'
      BY <1>9, <2>2 DEF Look, Past, MayPop, TypeOK
    <3> QED
      BY <2>1, <3>1, <3>2, <1>5
  <2>3. CASE sessionQ # <<>>
    <3>1. sessionQ' = Tail(sessionQ)
      BY <1>9, <2>3 DEF Look
    <3>2. r \notin Past /\ Past' = Past \cup {r}
      BY <1>9, <2>3 DEF Look, Past, MayPop, TypeOK
    <3>3. Len(sessionQ') = Len(sessionQ) - 1
      BY <3>1, <2>3 DEF TypeOK
    <3>4. Cardinality(Past') = Cardinality(Past) + 1
      BY <3>2, FinitePast
    <3>5. phase = "push" => found["main"]' = found["main"] - 1
      BY <1>9, <2>3 DEF Look, Pusher, Pushing
    <3>6. Cardinality(Past) \in Nat
      BY FinitePast
    <3>7. nulls' <= Len(sessionQ') + Cardinality(Past') + lost'
      BY <2>1, <3>3, <3>4, <3>6, <1>1
    <3>8. CASE phase = "push"
      <4>1. nulls <= found["main"] + Cardinality(Past) + lost /\ found["main"]' = found["main"] - 1
        BY <1>1, <3>5, <3>8
      <4>2. nulls' <= found["main"]' + Cardinality(Past') + lost'
        <5>1. nulls' = nulls /\ lost' = lost
          BY <2>1
        <5>2. nulls \in Nat /\ lost \in Nat /\ found["main"] \in Int
          BY <1>1
        <5> QED
          BY <3>4, <3>6, <4>1, <5>1, <5>2
      <4> QED
        BY <3>7, <4>2
    <3>9. CASE phase # "push"
      BY <2>1, <3>7, <3>9
    <3> QED
      BY <3>8, <3>9
  <2> QED
    BY <2>2, <2>3
<1>10. CASE BeginPushNull
  <2>1. UNCHANGED <<sessionQ, lost, nulls, pc>>
    BY <1>10 DEF BeginPushNull, BeginPush
  <2>2. found["main"]' = Len(sessionQ)
    BY <1>10 DEF BeginPushNull, BeginPush, TypeOK, Pusher
  <2>3. Past' = Past
    BY <2>1 DEF Past, MayPop
  <2> QED
    BY <2>1, <2>2, <2>3, <1>1, FinitePast
<1>16. CASE PushNull
  <2>1. nulls' = nulls + 1 /\ UNCHANGED <<lost, pc>> /\ phase = "push" /\ phase' # "push"
    BY <1>16 DEF PushNull
  <2>2. \/ Len(sessionQ') = Len(sessionQ) + 1
        \/ found["main"] < Len(sessionQ) /\ Len(sessionQ') = found["main"] + 1
    BY <1>16, EndPushTyped DEF PushNull, Pusher
  <2>3. Past' = Past
    BY <2>1 DEF Past, MayPop
  <2>4. nulls <= Len(sessionQ') - 1 + Cardinality(Past) + lost
    <3>1. Cardinality(Past) \in Nat
      BY FinitePast
    <3>2. nulls <= Len(sessionQ) + Cardinality(Past) + lost
      BY <1>1
    <3>3. nulls <= found["main"] + Cardinality(Past) + lost
      BY <1>1, <2>1
    <3>4. CASE Len(sessionQ') = Len(sessionQ) + 1
      BY <3>1, <3>2, <3>4, <1>1
    <3>5. CASE Len(sessionQ') = found["main"] + 1
      BY <3>1, <3>3, <3>5, <1>1
    <3> QED
      BY <2>2, <3>4, <3>5
  <2> QED
    BY <2>1, <2>3, <2>4, <1>1, <1>2, FinitePast
<1>11. CASE NotifyAll
  BY <1>5, <1>11 DEF NotifyAll, BlockedWake, Past, MayPop
<1>12. CASE OnPushSession
  <2>1. UNCHANGED <<sessionQ, lost, nulls, pc, phase>>
    BY <1>12 DEF OnPushSession, BeginPush
  <2>2. found["main"]' = found["main"]
    BY <1>12 DEF OnPushSession, BeginPush, TypeOK, Pusher
  <2>3. Past' = Past
    BY <2>1 DEF Past, MayPop
  <2> QED
    BY <2>1, <2>2, <2>3, <1>1, FinitePast
<1>17. CASE PushSession
  <2>1. UNCHANGED <<nulls, phase>>
    BY <1>17 DEF PushSession
  <2>2. /\ found["main"]' = found["main"]
        /\ \/ Len(sessionQ') = Len(sessionQ) + 1
           \/ found["selector"] < Len(sessionQ) /\ Len(sessionQ') = found["selector"] + 1
    <3>1. EndPush("selector", "session")
      BY <1>17 DEF PushSession
    <3>2. /\ found' = [found EXCEPT !["selector"] = 0]
          /\ \/ Len(sessionQ') = Len(sessionQ) + 1
             \/ found["selector"] < Len(sessionQ) /\ Len(sessionQ') = found["selector"] + 1
      BY <3>1, EndPushTyped DEF Pusher
    <3> QED
      BY <3>2 DEF TypeOK, Pusher
  <2>3. lost' >= lost /\ Len(sessionQ') + lost' >= Len(sessionQ) + lost
    <3>1. lost' = IF Len(sessionQ') < Len(sessionQ) THEN lost + Len(sessionQ) - Len(sessionQ')
                                                    ELSE lost
      BY <1>17 DEF PushSession
    <3> QED
      BY <3>1, <1>1, <1>2
  <2>4. Past' = Past
    BY <1>17 DEF PushSession, Blocked, Past, MayPop, TypeOK
  <2>0. Cardinality(Past') = Cardinality(Past) /\ Cardinality(Past) \in Nat
    BY <2>4, FinitePast
  <2>5. nulls' <= Len(sessionQ') + Cardinality(Past') + lost'
    BY <2>0, <2>1, <2>3, <1>1, <1>2
  <2>6. CASE phase = "push"
    <3>1. nulls <= found["main"] + Cardinality(Past) + lost
      BY <1>1, <2>6
    <3>2. nulls' <= found["main"]' + Cardinality(Past') + lost'
      <4>1. nulls' = nulls /\ found["main"]' = found["main"] /\ lost' >= lost
        BY <2>1, <2>2, <2>3
      <4> QED
        BY <2>0, <3>1, <4>1, <1>1, <1>2
    <3> QED
      BY <2>5, <3>2
  <2>7. CASE phase # "push"
    BY <2>1, <2>5, <2>7
  <2> QED
    BY <2>6, <2>7
<1>13. CASE \/ DestroyHandler \/ ClearReactors \/ DestroyQueue \/ DestroyManager
            \/ DestroyCallbacks \/ DeleteEvents \/ FreeBase
            \/ JoinedReactors \/ LoopBreak \/ JoinedSelector
  BY <1>6, <1>13 DEF DestroyHandler, ClearReactors, DestroyQueue, DestroyManager,
     DestroyCallbacks, DeleteEvents, FreeBase, Destroy, JoinedReactors, LoopBreak, JoinedSelector
<1>14. CASE StartLoop \/ EnterLoop \/ FindSession \/ ReturnToLoop \/ Dispatch \/ Handle
  BY <1>6, <1>14 DEF StartLoop, EnterLoop, FindSession, ReturnToLoop, Dispatch, Handle
<1>15. CASE UNCHANGED vars
  BY <1>6, <1>15 DEF vars
<1> QED
  BY <1>7, <1>8, <1>9, <1>10, <1>11, <1>12, <1>13, <1>14, <1>15, <1>16, <1>17
     DEF Next, MainStep, SelectorStep

(* Each sub-reactor pops at most once more after Stop, so those that may    *)
(* still pop are no more than the items left.                               *)
LEMMA Sentinels == TypeOK /\ DestructorOrder /\ ItemsLeft => EnoughSentinels
<1> SUFFICES ASSUME TypeOK, DestructorOrder, ItemsLeft, phase \in {"clear", "joinReactors"}
             PROVE  Len(sessionQ) + lost >= Cardinality({r \in SubReactor : MayPop(r)})
  BY DEF EnoughSentinels
<1> DEFINE Popping == {r \in SubReactor : MayPop(r)}
<1>1. /\ IsFiniteSet(Popping) /\ Cardinality(Popping) \in Nat
      /\ Len(sessionQ) \in Nat /\ lost \in Nat
  BY ShutdownAssumption, FS_Subset, FS_CardinalityType DEF TypeOK
<1>2. Cardinality(SubReactor) <= Len(sessionQ) + Cardinality(Past) + lost
  BY DEF DestructorOrder, ItemsLeft, Past
<1>3. Cardinality(Past) = Cardinality(SubReactor) - Cardinality(Popping)
  <2>1. Past = SubReactor \ Popping /\ SubReactor \cap Popping = Popping
    BY DEF Past
  <2> QED
    BY <2>1, <1>1, ShutdownAssumption, FS_Difference
<1> QED
  BY <1>1, <1>2, <1>3, ReactorsCounted
-----------------------------------------------------------------------------
LEMMA MembersStep == TypeOK /\ MembersLast /\ [Next]_vars => MembersLast'
<1> SUFFICES ASSUME TypeOK, MembersLast, [Next]_vars PROVE MembersLast'
  OBVIOUS
<1> USE DEF TypeOK, MembersLast, AllExited, mainVars, queueVars
<1>1. ASSUME NEW r \in SubReactor, Stop(r) PROVE MembersLast'
  BY <1>1 DEF Stop
<1>2. CASE BeginPushNull \/ PushNull \/ LoopBreak \/ JoinedSelector \/ JoinedReactors
  BY <1>2 DEF BeginPushNull, PushNull, LoopBreak, JoinedSelector, JoinedReactors
<1>3. CASE NotifyAll
  BY <1>3 DEF NotifyAll, BlockedWake
<1>4. CASE DestroyHandler \/ ClearReactors
  BY <1>4 DEF DestroyHandler, ClearReactors, Destroy
<1>5. CASE DestroyQueue \/ DestroyManager \/ DestroyCallbacks \/ DeleteEvents \/ FreeBase
  BY <1>5 DEF DestroyQueue, DestroyManager, DestroyCallbacks, DeleteEvents, FreeBase, Destroy
<1>6. ASSUME UNCHANGED <<phase, alive, pc>> PROVE MembersLast'
  BY <1>6
<1>7. CASE \/ StartLoop \/ EnterLoop \/ FindSession \/ ReturnToLoop
           \/ Dispatch \/ OnPushSession \/ Handle
  BY <1>6, <1>7 DEF StartLoop, EnterLoop, FindSession, ReturnToLoop, Dispatch, OnPushSession, Handle
<1>8. CASE PushSession
  BY <1>8 DEF PushSession, Blocked
<1>9. ASSUME NEW r \in SubReactor, ReactorStep(r) \/ Look(r) \/ Spurious(r) PROVE MembersLast'
  BY <1>9 DEF ReactorStep, Spurious, StartReactor, Loop, Block, FindReactor, Serve, Look
<1>10. CASE UNCHANGED vars
  BY <1>6, <1>10 DEF vars
<1> QED
  BY <1>1, <1>2, <1>3, <1>4, <1>5, <1>7, <1>8, <1>9, <1>10 DEF Next, MainStep, SelectorStep

LEMMA DanglesStep ==
  TypeOK /\ MembersLast /\ DanglesOnlyWhereUnjoined /\ [Next]_vars => DanglesOnlyWhereUnjoined'
<1> SUFFICES ASSUME TypeOK, MembersLast, DanglesOnlyWhereUnjoined, [Next]_vars
             PROVE  DanglesOnlyWhereUnjoined'
  OBVIOUS
<1> USE DEF DanglesOnlyWhereUnjoined, mainVars, queueVars, Uses
<1>1. ASSUME UNCHANGED dangling PROVE DanglesOnlyWhereUnjoined'
  BY <1>1
<1>2. CASE SelectorStep \/ OnPushSession
  <2>1. \/ UNCHANGED dangling
        \/ \E parts \in SUBSET {"base", "manager", "queue", "callbacks"} : Uses("selector", parts)
    BY <1>2 DEF SelectorStep, StartLoop, EnterLoop, FindSession, PushSession, ReturnToLoop,
       OnPushSession
  <2>2. CASE UNCHANGED dangling
    BY <2>2
  <2>3. ASSUME NEW parts \in SUBSET {"base", "manager", "queue", "callbacks"},
               dangling' = dangling \cup {<<"selector", p>> : p \in parts \ alive}
        PROVE  DanglesOnlyWhereUnjoined'
    BY <2>3
  <2> QED
    BY <2>1, <2>2, <2>3
<1>3. CASE Handle
  BY <1>3 DEF Handle
<1>4. ASSUME NEW r \in SubReactor, Look(r) \/ Serve(r) PROVE DanglesOnlyWhereUnjoined'
  <2>1. {"queue", "manager", "events", "base"} \subseteq alive
    BY <1>4 DEF MembersLast, AllExited, Look, Serve
  <2>2. \E parts \in SUBSET {"queue", "manager", "events", "base"} : Uses("reactor", parts)
    BY <1>4 DEF Look, Serve
  <2>3. dangling' = dangling
    BY <2>1, <2>2
  <2> QED
    BY <1>1, <2>3
<1>5. ASSUME NEW r \in SubReactor, FindReactor(r) PROVE DanglesOnlyWhereUnjoined'
  BY <1>5 DEF FindReactor
<1>6. ASSUME NEW r \in SubReactor,
             Stop(r) \/ StartReactor(r) \/ Loop(r) \/ Block(r) \/ Spurious(r)
      PROVE  DanglesOnlyWhereUnjoined'
  BY <1>1, <1>6 DEF Stop, StartReactor, Loop, Block, Spurious
<1>7. CASE \/ DestroyHandler \/ ClearReactors \/ DestroyQueue \/ DestroyManager
           \/ DestroyCallbacks \/ DeleteEvents \/ FreeBase
           \/ JoinedReactors \/ LoopBreak \/ JoinedSelector
  BY <1>1, <1>7 DEF DestroyHandler, ClearReactors, DestroyQueue, DestroyManager,
     DestroyCallbacks, DeleteEvents, FreeBase, Destroy, JoinedReactors, LoopBreak, JoinedSelector
<1>8. CASE BeginPushNull \/ PushNull \/ NotifyAll \/ Dispatch \/ UNCHANGED vars
  BY <1>1, <1>8 DEF BeginPushNull, PushNull, NotifyAll, Dispatch, vars
<1> QED
  BY <1>2, <1>3, <1>4, <1>5, <1>6, <1>7, <1>8 DEF Next, MainStep, ReactorStep

(* While the sub-reactors are joined, one that may take an item finds one,  *)
(* if nothing was lost.                                                     *)
LEMMA FindsAnItem ==
  ASSUME TypeOK, EnoughSentinels, phase \in {"clear", "joinReactors"}, lost = 0,
         NEW r \in SubReactor, MayPop(r)
  PROVE  sessionQ # <<>>
<1> DEFINE Popping == {v \in SubReactor : MayPop(v)}
<1>1. IsFiniteSet(Popping) /\ Cardinality(Popping) \in Nat /\ Popping # {}
  BY ShutdownAssumption, FS_Subset, FS_CardinalityType
<1>2. Cardinality(Popping) # 0
  BY <1>1, FS_EmptySet
<1>3. Cardinality(Popping) <= Len(sessionQ)
  BY DEF EnoughSentinels, TypeOK
<1> HIDE DEF Popping
<1>4. Len(sessionQ) # 0
  BY <1>1, <1>2, <1>3 DEF TypeOK
<1> QED
  BY <1>4

LEMMA SleepsStep ==
  /\ TypeOK /\ DestructorOrder /\ EnoughSentinels /\ SleepsOnlyIfMissed
  /\ [Next]_vars
  => SleepsOnlyIfMissed'
<1> SUFFICES ASSUME TypeOK, DestructorOrder, EnoughSentinels, SleepsOnlyIfMissed, [Next]_vars
             PROVE  SleepsOnlyIfMissed'
  OBVIOUS
<1> USE DEF TypeOK, SleepsOnlyIfMissed, Checked, Blocked, mainVars, queueVars
<1>1. ASSUME NEW r \in SubReactor, Stop(r) PROVE SleepsOnlyIfMissed'
  BY <1>1 DEF Stop
<1>2. CASE \/ DestroyHandler \/ ClearReactors \/ DestroyQueue \/ DestroyManager
           \/ DestroyCallbacks \/ DeleteEvents \/ FreeBase
           \/ JoinedReactors \/ LoopBreak \/ JoinedSelector
           \/ BeginPushNull \/ PushNull
  BY <1>2 DEF DestroyHandler, ClearReactors, DestroyQueue, DestroyManager,
     DestroyCallbacks, DeleteEvents, FreeBase, Destroy, JoinedReactors, LoopBreak,
     JoinedSelector, BeginPushNull, PushNull
<1>3. CASE NotifyAll
  BY <1>3 DEF NotifyAll, BlockedWake
<1>4. CASE \/ StartLoop \/ EnterLoop \/ FindSession \/ ReturnToLoop
           \/ Dispatch \/ OnPushSession \/ Handle
  BY <1>4 DEF StartLoop, EnterLoop, FindSession, ReturnToLoop, Dispatch, OnPushSession,
     BeginPush, Handle
<1>5. CASE PushSession
  <2>1. lost' = 0 => lost = 0
    <3>1. Len(sessionQ) \in Nat /\ Len(sessionQ') \in Nat
      BY TypeStep
    <3> QED
      BY <1>5, <3>1 DEF PushSession
  <2> QED
    BY <1>5, <2>1 DEF PushSession
<1>6. ASSUME NEW r \in SubReactor, ReactorStep(r) \/ Spurious(r) PROVE SleepsOnlyIfMissed'
  BY <1>6 DEF ReactorStep, Spurious, StartReactor, Loop, Block, FindReactor, Serve
<1>7. ASSUME NEW r \in SubReactor, Look(r) PROVE SleepsOnlyIfMissed'
  <2>1. phase \in {"clear", "joinReactors"} /\ lost = 0 => sessionQ # <<>>
    BY <1>7, FindsAnItem DEF Look, MayPop
  <2>2. UNCHANGED <<phase, missed, lost>>
    BY <1>7 DEF Look
  <2>3. phase \in {"clear", "joinReactors"} /\ lost = 0 =>
          pc' = [pc EXCEPT ![r] = IF Head(sessionQ) = null THEN "loop" ELSE "find"]
    BY <1>7, <2>1 DEF Look
  <2> QED
    BY <2>2, <2>3
<1>8. CASE UNCHANGED vars
  BY <1>8 DEF vars
<1> QED
  BY <1>1, <1>2, <1>3, <1>4, <1>5, <1>6, <1>7, <1>8 DEF Next, MainStep, SelectorStep

LEMMA InitInv == Init => ShutdownInv
<1> SUFFICES ASSUME Init PROVE ShutdownInv
  OBVIOUS
<1>1. TypeOK
  <2>1. 0 \in 0..Cardinality(SubReactor) /\ 0 \in 0..MaxEvents
    BY ReactorsCounted, ShutdownAssumption
  <2>2. <<>> \in Seq({"session", null})
    OBVIOUS
  <2>3. [p \in Pusher |-> 0] \in [Pusher -> Int] /\ 0 \in Nat /\ FALSE \in BOOLEAN
    OBVIOUS
  <2> QED
    BY <2>1, <2>2, <2>3 DEF Init, TypeOK
<1>2. DestructorOrder
  BY ReactorsCounted DEF Init, DestructorOrder
<1>3. ItemsLeft
  BY FinitePast DEF Init, ItemsLeft, Past, Pushing
<1>4. MembersLast /\ DanglesOnlyWhereUnjoined /\ SleepsOnlyIfMissed
  BY DEF Init, MembersLast, DanglesOnlyWhereUnjoined, SleepsOnlyIfMissed, Part
<1> QED
  BY <1>1, <1>2, <1>3, <1>4, Sentinels DEF ShutdownInv

(* The destructor's inductive invariant, for any number of sub-reactors:    *)
(* with it one nullptr for each of them is enough, although it is pushed    *)
(* without the mutex, but for what a push of the selector undid.            *)
THEOREM ShutdownInvariant == Spec => []ShutdownInv
<1>1. ShutdownInv /\ [Next]_vars => ShutdownInv'
  <2> SUFFICES ASSUME ShutdownInv, [Next]_vars PROVE ShutdownInv'
    OBVIOUS
  <2>1. TypeOK' /\ DestructorOrder' /\ ItemsLeft'
    BY TypeStep, OrderStep, ItemsStep DEF ShutdownInv
  <2>2. EnoughSentinels'
    BY <2>1, Sentinels, PTL
  <2>3. MembersLast' /\ DanglesOnlyWhereUnjoined' /\ SleepsOnlyIfMissed'
    BY MembersStep, DanglesStep, SleepsStep DEF ShutdownInv
  <2> QED
    BY <2>1, <2>2, <2>3 DEF ShutdownInv
<1> QED
  BY <1>1, InitInv, PTL DEF Spec

(* The sub-reactors work with live parts, but for the map they are taken    *)
(* from; a worker may miss the handler, and the selector what it calls.     *)
THEOREM WorksWithLiveParts == Spec => []DanglesOnlyWhereUnjoined
<1>1. ShutdownInv => DanglesOnlyWhereUnjoined
  BY DEF ShutdownInv
<1> QED
  BY <1>1, ShutdownInvariant, PTL

(* While the sub-reactors are joined, one of them waits for a session only  *)
(* if the last notify_all fell between its check and its wait, or if a push *)
(* of the selector undid what was pushed during it: the join can hang in no *)
(* other way but on a thread that had not begun, as long as the pushes left *)
(* the deque whole.                                                         *)
THEOREM OnlyMissedSleep == Spec => []SleepsOnlyIfMissed
<1>1. ShutdownInv => SleepsOnlyIfMissed
  BY DEF ShutdownInv
<1> QED
  BY <1>1, ShutdownInvariant, PTL

(* And the join is short: a sub-reactor takes at most as many steps as      *)
(* StepsLeft says, whatever the selector still pushes, if nothing was lost  *)
(* and the deque is whole.                                                  *)
THEOREM JoinIsShort == Spec => JoinDescends
<1> DEFINE
      Descends ==
        \A r \in SubReactor :
          phase \in {"clear", "joinReactors"} /\ lost = 0 /\ pc'[r] # pc[r] => Nearer(r)
<1>1. ASSUME ShutdownInv, [Next]_vars PROVE [Descends]_vars
  <2> SUFFICES ASSUME Next, phase \in {"clear", "joinReactors"}, lost = 0,
                      NEW v \in SubReactor, pc'[v] # pc[v]
               PROVE  Nearer(v)
    BY <1>1
  <2>1. TypeOK /\ EnoughSentinels /\ \A r \in SubReactor : ~running[r]
    BY <1>1 DEF ShutdownInv, DestructorOrder
  <2>2. pc \in [SubReactor -> States]
    BY <2>1 DEF TypeOK, States
  <2> USE DEF mainVars, queueVars
  <2>3. ASSUME UNCHANGED pc PROVE FALSE
    BY <2>3
  <2>4. ASSUME NEW r \in SubReactor, Stop(r) PROVE FALSE
    BY <2>1, <2>4 DEF Stop
  <2>5. ASSUME \/ DestroyHandler \/ ClearReactors \/ DestroyQueue \/ DestroyManager
               \/ DestroyCallbacks \/ DeleteEvents \/ FreeBase
               \/ JoinedReactors \/ LoopBreak \/ JoinedSelector
               \/ BeginPushNull \/ PushNull \/ NotifyAll
               \/ StartLoop \/ EnterLoop \/ FindSession \/ ReturnToLoop
               \/ Dispatch \/ OnPushSession \/ Handle
        PROVE  FALSE
    BY <2>3, <2>5 DEF DestroyHandler, ClearReactors, DestroyQueue, DestroyManager,
       DestroyCallbacks, DeleteEvents, FreeBase, Destroy, JoinedReactors, LoopBreak,
       JoinedSelector, BeginPushNull, PushNull, NotifyAll, StartLoop, EnterLoop,
       FindSession, ReturnToLoop, Dispatch, OnPushSession, Handle
  <2>6. CASE PushSession
    BY <2>2, <2>3, <2>6 DEF PushSession, Blocked, Nearer, StepsLeft, States
  <2>7. ASSUME NEW r \in SubReactor, StartReactor(r) \/ Spurious(r) PROVE Nearer(v)
    BY <2>1, <2>2, <2>7 DEF StartReactor, Spurious, Nearer, StepsLeft, States
  <2>8. ASSUME NEW r \in SubReactor, Loop(r) \/ Block(r) \/ FindReactor(r) \/ Serve(r)
        PROVE  Nearer(v)
    BY <2>1, <2>2, <2>8 DEF Loop, Block, FindReactor, Serve, Nearer, StepsLeft, States
  <2>9. ASSUME NEW r \in SubReactor, Look(r) PROVE Nearer(v)
    <3>1. pc[r] \in {"lock", "woken"} /\ sessionQ # <<>>
      BY <2>1, <2>9, FindsAnItem DEF Look, MayPop
    <3>2. pc' = [pc EXCEPT ![r] = IF Head(sessionQ) = null THEN "loop" ELSE "find"]
      BY <2>9, <3>1 DEF Look
    <3>3. v = r
      BY <2>2, <3>2
    <3>4. pc'[v] \in {"loop", "find"}
      BY <2>2, <3>2, <3>3
    <3> QED
      BY <3>1, <3>3, <3>4 DEF Nearer, StepsLeft
  <2> QED
    BY <2>4, <2>5, <2>6, <2>7, <2>8, <2>9 DEF Next, MainStep, SelectorStep, ReactorStep
<1> QED
  BY <1>1, ShutdownInvariant, PTL DEF Spec, JoinDescends
=============================================================================
