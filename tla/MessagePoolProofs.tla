------------------------- MODULE MessagePoolProofs -------------------------
(***************************************************************************)
(* For any number of workers: every push that finds a sleeping worker has  *)
(* a woken one for it, one nullptr per worker is enough to stop them, and  *)
(* the pool is the queue of WorkQueue, which hands a context over once.    *)
(***************************************************************************)
EXTENDS MessagePool, FiniteSetTheorems, SequenceTheorems, TLAPS

(* Where a worker's step leaves the sets of workers.                        *)
LEMMA FiniteWoken == IsFiniteSet(Woken) /\ Cardinality(Woken) \in Nat
BY PoolAssumption, FS_Subset, FS_CardinalityType DEF Woken

LEMMA Moved ==
  ASSUME TypeOK, NEW w \in Worker, NEW p, pc' = [pc EXCEPT ![w] = p]
  PROVE  /\ Checked' = IF p = "checked" THEN Checked \cup {w} ELSE Checked \ {w}
         /\ Blocked' = IF p = "blocked" THEN Blocked \cup {w} ELSE Blocked \ {w}
         /\ Woken' = IF p = "woken" THEN Woken \cup {w} ELSE Woken \ {w}
BY DEF Checked, Blocked, Woken, TypeOK

LEMMA Counted ==
  ASSUME NEW w
  PROVE  /\ Cardinality(Woken \cup {w}) = Cardinality(Woken) + (IF w \in Woken THEN 0 ELSE 1)
         /\ Cardinality(Woken \ {w}) = Cardinality(Woken) - (IF w \in Woken THEN 1 ELSE 0)
         /\ Cardinality(Woken \ {w}) \in Nat
BY FiniteWoken, FS_AddElement, FS_RemoveElement, FS_CardinalityType

LEMMA TypeStep == TypeOK /\ DestructorOrder /\ [Next]_vars => TypeOK'
<1> SUFFICES ASSUME TypeOK, DestructorOrder, [Next]_vars PROVE TypeOK'
  OBVIOUS
<1> USE PoolAssumption DEF TypeOK, poolVars, ownerVars
<1>0. Cardinality(Worker) \in Nat
  BY FS_CardinalityType
<1>1. ASSUME NEW w \in Worker, OwnerStep(w) PROVE TypeOK'
  BY <1>1 DEF OwnerStep, AddCallback, Start, Notified, Stop
<1>2. ASSUME NEW w \in Worker, AwaitCallback(w) \/ Loop(w) \/ Block(w) \/ WakeUp(w)
      PROVE  TypeOK'
  BY <1>2 DEF AwaitCallback, Loop, Block, WakeUp
<1>3. ASSUME NEW w \in Worker, Look(w) PROVE TypeOK'
  <2>1. CASE queue = <<>>
    BY <1>3, <2>1 DEF Look, Popped
  <2>2. CASE queue # <<>>
    <3>1. Head(queue) \in 0..MaxMessages /\ Tail(queue) \in Seq(0..MaxMessages)
      BY <2>2
    <3> QED
      BY <1>3, <2>2, <3>1 DEF Look, Popped
  <2> QED
    BY <2>1, <2>2
<1>4. ASSUME NEW w \in Worker, Handle(w) PROVE TypeOK'
  <2>1. item[w] \in 0..MaxMessages /\ (item[w] # 0 => item[w] \in 1..MaxMessages)
    OBVIOUS
  <2>2. handled' \subseteq 1..MaxMessages
    BY <1>4, <2>1 DEF Handle, null
  <2>3. item' \in [Worker -> 0..MaxMessages] /\ UNCHANGED <<queue, pushed, ownerVars>>
    BY <1>4 DEF Handle, null
  <2>4. pc' \in [Worker -> {"starting", "asleep", "loop", "lock", "checked",
                            "blocked", "woken", "handle", "exited"}]
    BY <1>4 DEF Handle
  <2> QED
    BY <2>2, <2>3, <2>4
<1>5. CASE Constructed
  BY <1>5 DEF Constructed
<1>6. CASE OnPushMessage
  <2>1. /\ pushed' \in 0..MaxMessages /\ queue' \in Seq(0..MaxMessages)
        /\ UNCHANGED <<handled, item, ownerVars>>
    BY <1>6 DEF OnPushMessage
  <2>2. pc' \in [Worker -> {"starting", "asleep", "loop", "lock", "checked",
                            "blocked", "woken", "handle", "exited"}]
    BY <1>6 DEF OnPushMessage, NotifyOne, Checked, Blocked, Woken
  <2> QED
    BY <2>1, <2>2
<1>7. CASE PushNull
  BY <1>7, <1>0 DEF PushNull, null, DestructorOrder
<1>8. CASE NotifyAll
  BY <1>8 DEF NotifyAll, OneForEach, BlockedWake, Checked, Blocked, Woken
<1>9. CASE Joined
  BY <1>9 DEF Joined
<1>10. CASE UNCHANGED vars
  BY <1>10 DEF vars
<1> QED
  BY <1>1, <1>2, <1>3, <1>4, <1>5, <1>6, <1>7, <1>8, <1>9, <1>10 DEF Next, WorkerStep

LEMMA OrderStep == TypeOK /\ DestructorOrder /\ [Next]_vars => DestructorOrder'
<1> SUFFICES ASSUME TypeOK, DestructorOrder, [Next]_vars PROVE DestructorOrder'
  OBVIOUS
<1> USE PoolAssumption DEF TypeOK, DestructorOrder, poolVars, ownerVars
<1>0. Cardinality(Worker) \in Nat \ {0}
  BY FS_CardinalityType, FS_EmptySet
<1>1. ASSUME NEW w \in Worker, OwnerStep(w) PROVE DestructorOrder'
  BY <1>1, <1>0 DEF OwnerStep, AddCallback, Start, Notified, Stop
<1>2. ASSUME NEW w \in Worker, WorkerStep(w) \/ WakeUp(w) PROVE DestructorOrder'
  BY <1>2 DEF WorkerStep, AwaitCallback, Loop, Look, Popped, Block, Handle, WakeUp
<1>3. CASE Constructed \/ OnPushMessage \/ Joined
  BY <1>3 DEF Constructed, OnPushMessage, Joined
<1>4. CASE PushNull
  BY <1>4, <1>0 DEF PushNull
<1>5. CASE NotifyAll
  BY <1>5, <1>0 DEF NotifyAll, OneForEach, BlockedWake
<1>6. CASE UNCHANGED vars
  BY <1>6 DEF vars
<1> QED
  BY <1>1, <1>2, <1>3, <1>4, <1>5, <1>6 DEF Next

LEMMA AwakeStep == TypeOK /\ StartedIsAwake /\ [Next]_vars => StartedIsAwake'
<1> SUFFICES ASSUME TypeOK, StartedIsAwake, [Next]_vars PROVE StartedIsAwake'
  OBVIOUS
<1> USE DEF TypeOK, StartedIsAwake, poolVars, ownerVars
<1>1. ASSUME NEW w \in Worker, OwnerStep(w) PROVE StartedIsAwake'
  BY <1>1 DEF OwnerStep, AddCallback, Start, Notified, Stop
<1>2. ASSUME NEW w \in Worker, WorkerStep(w) \/ WakeUp(w) PROVE StartedIsAwake'
  BY <1>2 DEF WorkerStep, AwaitCallback, Loop, Look, Popped, Block, Handle, WakeUp
<1>3. CASE Constructed \/ PushNull \/ Joined
  BY <1>3 DEF Constructed, PushNull, Joined
<1>4. CASE OnPushMessage
  BY <1>4 DEF OnPushMessage, NotifyOne, Checked, Blocked, Woken
<1>5. CASE NotifyAll
  BY <1>5 DEF NotifyAll, OneForEach, BlockedWake
<1>6. CASE UNCHANGED vars
  BY <1>6 DEF vars
<1> QED
  BY <1>1, <1>2, <1>3, <1>4, <1>5, <1>6 DEF Next
-----------------------------------------------------------------------------
(* Who is blocked and who is woken, and what is left for them.              *)
Owed == CheckedIsEmpty /\ WorkConserving

LEMMA QueueTail ==
  ASSUME TypeOK, queue # <<>>
  PROVE  Len(queue) \in Nat /\ Len(Tail(queue)) = Len(queue) - 1
BY DEF TypeOK

LEMMA OwedStep == TypeOK /\ Owed /\ [Next]_vars => Owed'
<1> SUFFICES ASSUME TypeOK, Owed, [Next]_vars, phase' \in {"create", "run"}
             PROVE  /\ Checked' # {} => queue' = <<>>
                    /\ Blocked' # {} => Len(queue') <= Cardinality(Woken')
  BY DEF Owed, CheckedIsEmpty, WorkConserving, Checked, Blocked, Woken
<1> DEFINE Goal == /\ Checked' # {} => queue' = <<>>
                   /\ Blocked' # {} => Len(queue') <= Cardinality(Woken')
<1> USE DEF poolVars, ownerVars
<1>1. phase \in {"create", "run"}
  BY DEF TypeOK, Next, OwnerStep, WorkerStep, AddCallback, Start, Notified, Stop, Constructed,
     OnPushMessage, PushNull, NotifyAll, OneForEach, BlockedWake, Joined, AwaitCallback, Loop, Look, Popped, Block,
     WakeUp, Handle, vars
<1>2. /\ Checked # {} => queue = <<>>
      /\ Blocked # {} => Len(queue) <= Cardinality(Woken)
      /\ Len(queue) \in Nat /\ Cardinality(Woken) \in Nat
  BY <1>1, FiniteWoken DEF Owed, CheckedIsEmpty, WorkConserving, TypeOK
<1>3. ASSUME UNCHANGED queue,
             Checked' = Checked, Blocked' = Blocked,
             Woken' = Woken
      PROVE  Goal
  BY <1>2, <1>3
<1>4. ASSUME NEW w \in Worker, OwnerStep(w) PROVE Goal
  <2>1. UNCHANGED queue
    BY <1>4 DEF OwnerStep, AddCallback, Start, Notified, Stop
  <2>2. Checked' = Checked /\ Blocked' = Blocked /\ Woken' = Woken
    BY <1>4 DEF OwnerStep, AddCallback, Start, Notified, Stop, Checked, Blocked, Woken, TypeOK
  <2> QED
    BY <2>1, <2>2, <1>3
<1>5. ASSUME NEW w \in Worker, AwaitCallback(w) \/ Loop(w) \/ Handle(w) PROVE Goal
  <2>1. UNCHANGED queue
    BY <1>5 DEF AwaitCallback, Loop, Handle
  <2>2. Checked' = Checked /\ Blocked' = Blocked /\ Woken' = Woken
    BY <1>5 DEF AwaitCallback, Loop, Handle, Checked, Blocked, Woken, TypeOK
  <2> QED
    BY <2>1, <2>2, <1>3
<1>6. ASSUME NEW w \in Worker, Look(w) PROVE Goal
  <2>1. CASE queue = <<>>
    <3>1. pc' = [pc EXCEPT ![w] = "checked"] /\ queue' = <<>>
      BY <1>6, <2>1 DEF Look, Popped
    <3>2. Cardinality(Woken') \in Nat /\ Len(queue') = 0
      BY <3>1, Moved, Counted
    <3> QED
      BY <3>1, <3>2
  <2>2. CASE queue # <<>>
    <3>1. /\ pc' = [pc EXCEPT ![w] = "handle"] /\ queue' = Tail(queue)
          /\ w \notin Blocked /\ Checked = {}
      BY <1>6, <2>2 DEF Look, Popped, Blocked
    <3>2. /\ Checked' = {} /\ Blocked' = Blocked
          /\ Woken' = Woken \ {w}
      BY <3>1 DEF Checked, Blocked, Woken, TypeOK
    <3>3. Cardinality(Woken') \in Nat /\ Cardinality(Woken') >= Cardinality(Woken) - 1
      <4> DEFINE n == Cardinality(Woken)
      <4>1. /\ Cardinality(Woken') = n - (IF w \in Woken THEN 1 ELSE 0) /\ n \in Nat
            /\ Cardinality(Woken') \in Nat
        BY <3>2, Counted, <1>2
      <4> QED
        BY <4>1
    <3> QED
      <4>1. Len(queue') = Len(queue) - 1
        BY <3>1, <2>2, QueueTail
      <4> QED
        BY <3>2, <3>3, <4>1, <1>2
  <2> QED
    BY <2>1, <2>2
<1>7. ASSUME NEW w \in Worker, Block(w) PROVE Goal
  <2>1. w \in Checked /\ UNCHANGED queue /\ pc' = [pc EXCEPT ![w] = "blocked"]
    BY <1>7 DEF Block, Checked, Blocked, Woken
  <2>2. Cardinality(Woken') \in Nat
    BY <2>1, Moved, Counted
  <2> QED
    BY <2>1, <2>2, <1>2
<1>8. ASSUME NEW w \in Worker, WakeUp(w) PROVE Goal
  <2>1. CASE pc[w] = "asleep"
    <3>1. UNCHANGED queue /\ pc' = [pc EXCEPT ![w] = "starting"] /\ w \in Worker
      BY <1>8, <2>1 DEF WakeUp
    <3>2. Checked' = Checked /\ Blocked' = Blocked /\ Woken' = Woken
      BY <3>1, <2>1, Moved DEF Checked, Blocked, Woken
    <3> QED
      BY <3>1, <3>2, <1>3
  <2>2. CASE pc[w] = "blocked"
    <3>1. /\ UNCHANGED queue /\ pc' = [pc EXCEPT ![w] = "woken"]
          /\ w \in Blocked /\ w \notin Checked /\ w \notin Woken
      BY <1>8, <2>2 DEF WakeUp, Checked, Blocked, Woken
    <3>2. Checked' = Checked /\ Blocked # {} /\ Woken' = Woken \cup {w}
      BY <3>1 DEF Checked, Blocked, Woken, TypeOK
    <3> QED
      BY <3>1, <3>2, <1>2, Counted
  <2> QED
    BY <1>8, <2>1, <2>2 DEF WakeUp
<1>9. CASE Constructed \/ Joined
  <2>1. UNCHANGED <<queue, pc>>
    BY <1>9 DEF Constructed, Joined
  <2> QED
    BY <2>1, <1>3 DEF Checked, Blocked, Woken
<1>10. CASE OnPushMessage
  <2>1. /\ Checked = {} /\ queue' = Append(queue, pushed + 1) /\ NotifyOne
        /\ Len(queue') = Len(queue) + 1
    BY <1>10 DEF OnPushMessage, TypeOK
  <2>2. CASE Blocked = {}
    BY <2>1, <2>2 DEF NotifyOne, Checked, Blocked, Woken
  <2>3. CASE Blocked # {}
    <3>1. PICK w \in Blocked : pc' = [pc EXCEPT ![w] = "woken"]
      BY <2>1, <2>3 DEF NotifyOne
    <3>2. w \in Worker /\ w \notin Woken
      BY <3>1 DEF Checked, Blocked, Woken
    <3>3. Checked' = {} /\ Woken' = Woken \cup {w}
      BY <3>1, <3>2, <2>1, Moved
    <3> QED
      BY <2>1, <2>3, <3>2, <3>3, <1>2, Counted
  <2> QED
    BY <2>2, <2>3
<1>11. CASE PushNull \/ NotifyAll
  BY <1>11, <1>1 DEF PushNull, NotifyAll, OneForEach, BlockedWake
<1>12. CASE UNCHANGED vars
  BY <1>12, <1>3 DEF vars, Checked, Blocked, Woken
<1> QED
  BY <1>4, <1>5, <1>6, <1>7, <1>8, <1>9, <1>10, <1>11, <1>12 DEF Next, WorkerStep
-----------------------------------------------------------------------------
(* What is left of the sentinels.                                           *)
Past == {w \in Worker : ~MayPop(w)}

LEMMA FinitePast ==
  /\ IsFiniteSet(Past) /\ Cardinality(Past) \in Nat
  /\ \A w : Cardinality(Past \cup {w}) = Cardinality(Past) + (IF w \in Past THEN 0 ELSE 1)
<1>1. Past \in SUBSET Worker
  BY DEF Past
<1>2. IsFiniteSet(Past)
  BY <1>1, PoolAssumption, FS_Subset
<1>3. Cardinality(Past) \in Nat
  BY <1>2, FS_CardinalityType
<1>4. ASSUME NEW w
      PROVE  Cardinality(Past \cup {w})
               = Cardinality(Past) + (IF w \in Past THEN 0 ELSE 1)
  <2>1. CASE w \in Past
    <3>1. Past \cup {w} = Past
      BY <2>1
    <3>2. Cardinality(Past \cup {w}) = Cardinality(Past)
      BY <3>1
    <3>3. (IF w \in Past THEN 0 ELSE 1) = 0
      BY <2>1
    <3> QED
      BY <3>2, <3>3, <1>3
  <2>2. CASE w \notin Past
    BY <2>2, <1>2, <1>3, FS_AddElement
  <2> QED
    BY <2>1, <2>2
<1> QED
  BY <1>2, <1>3, <1>4

LEMMA PastGrows ==
  ASSUME IsFiniteSet(Past'), Past \subseteq Past'
  PROVE  Cardinality(Past') \in Nat /\ Cardinality(Past) <= Cardinality(Past')
BY FS_Subset, FS_CardinalityType

LEMMA ItemsStep ==
  TypeOK /\ DestructorOrder /\ ItemsLeft /\ [Next]_vars => ItemsLeft'
<1> SUFFICES ASSUME TypeOK, DestructorOrder, ItemsLeft, [Next]_vars PROVE ItemsLeft'
  OBVIOUS
<1> USE DEF poolVars, ownerVars
<1>1. /\ nulls \in Nat /\ Len(queue) \in Nat
      /\ nulls <= Len(queue) + Cardinality(Past)
  BY PoolAssumption, FS_CardinalityType DEF TypeOK, ItemsLeft, Past
<1>2. /\ IsFiniteSet(Past') /\ Cardinality(Past') \in Nat
      /\ nulls' \in Nat /\ Len(queue') \in Nat
  <2>1. TypeOK'
    BY TypeStep
  <2> QED
    BY <2>1, PoolAssumption, FS_Subset, FS_CardinalityType DEF Past, TypeOK
<1>3. SUFFICES nulls' <= Len(queue') + Cardinality(Past')
  BY DEF ItemsLeft, Past
<1>4. CASE nulls' = 0
  BY <1>2, <1>4
<1>5. ASSUME UNCHANGED <<queue, nulls>>, Past \subseteq Past'
      PROVE  nulls' <= Len(queue') + Cardinality(Past')
  BY <1>1, <1>2, <1>5, PastGrows, FinitePast
<1>6. ASSUME NEW w \in Worker, OwnerStep(w), nulls' # 0
      PROVE  nulls' <= Len(queue') + Cardinality(Past')
  BY <1>6, <1>5 DEF OwnerStep, AddCallback, Start, Notified, Stop, Past, MayPop, TypeOK
<1>7. ASSUME NEW w \in Worker, AwaitCallback(w) \/ Loop(w) \/ Block(w) \/ WakeUp(w) \/ Handle(w),
             nulls' # 0
      PROVE  nulls' <= Len(queue') + Cardinality(Past')
  <2>1. UNCHANGED <<queue, nulls>>
    BY <1>7 DEF AwaitCallback, Loop, Block, WakeUp, Handle
  <2>2. ~running[w]
    BY <1>1, <1>7, <2>1 DEF DestructorOrder
  <2>3. Past \subseteq Past'
    BY <1>7, <2>2 DEF AwaitCallback, Loop, Block, WakeUp, Handle, Past, MayPop, TypeOK
  <2> QED
    BY <2>1, <2>3, <1>5
<1>8. ASSUME NEW w \in Worker, Look(w), nulls' # 0
      PROVE  nulls' <= Len(queue') + Cardinality(Past')
  <2>1. CASE queue = <<>>
    <3>1. UNCHANGED <<queue, nulls>>
      BY <1>8, <2>1 DEF Look, Popped
    <3>2. Past \subseteq Past'
      BY <1>8, <2>1 DEF Look, Popped, Past, MayPop, TypeOK
    <3> QED
      BY <3>1, <3>2, <1>5
  <2>2. CASE queue # <<>>
    <3>1. queue' = Tail(queue) /\ UNCHANGED nulls
      BY <1>8, <2>2 DEF Look, Popped
    <3>2. w \notin Past /\ Past' = Past \cup {w}
      BY <1>8, <2>2 DEF Look, Popped, Past, MayPop, TypeOK
    <3>3. Len(queue') = Len(queue) - 1
      BY <3>1, <2>2, QueueTail
    <3>4. Cardinality(Past') = Cardinality(Past) + 1
      BY <3>2, FinitePast
    <3> QED
      BY <3>1, <3>3, <3>4, <1>1, FinitePast
  <2> QED
    BY <2>1, <2>2
<1>9. ASSUME Constructed \/ Joined PROVE nulls' <= Len(queue') + Cardinality(Past')
  BY <1>9, <1>5 DEF Constructed, Joined, Past, MayPop
<1>10. ASSUME OnPushMessage PROVE nulls' = 0
  BY <1>10 DEF OnPushMessage, DestructorOrder
<1>11. ASSUME PushNull PROVE nulls' <= Len(queue') + Cardinality(Past')
  <2>1. queue' = Append(queue, null) /\ nulls' = nulls + 1 /\ UNCHANGED pc
    BY <1>11 DEF PushNull
  <2>2. Len(queue') = Len(queue) + 1
    BY <2>1 DEF TypeOK
  <2>3. Past' = Past
    BY <2>1 DEF Past, MayPop
  <2> QED
    BY <2>1, <2>2, <2>3, <1>1, FinitePast
<1>12. ASSUME NotifyAll PROVE nulls' <= Len(queue') + Cardinality(Past')
  BY <1>12, <1>5 DEF NotifyAll, OneForEach, BlockedWake, Past, MayPop
<1>13. ASSUME UNCHANGED vars PROVE nulls' <= Len(queue') + Cardinality(Past')
  BY <1>13, <1>5 DEF vars, Past, MayPop
<1> QED
  BY <1>4, <1>6, <1>7, <1>8, <1>9, <1>10, <1>11, <1>12, <1>13 DEF Next, WorkerStep

(* What TypeOK says of the items of the queue, once for all.                *)
LEMMA QueueItems ==
  ASSUME TypeOK
  PROVE  /\ Len(queue) \in Nat /\ DOMAIN queue = 1..Len(queue)
         /\ \A i \in DOMAIN queue : queue[i] \in Nat
<1>1. queue \in Seq(0..MaxMessages) /\ 0..MaxMessages \subseteq Nat
  BY PoolAssumption DEF TypeOK
<1>2. Len(queue) \in Nat /\ DOMAIN queue = 1..Len(queue)
  BY <1>1
<1>3. \A i \in 1..Len(queue) : queue[i] \in 0..MaxMessages
  BY <1>1, ElementOfSeq
<1> QED
  BY <1>1, <1>2, <1>3

(* The queue stays in order.                                                *)
LEMMA InOrderStep ==
  TypeOK /\ DestructorOrder /\ InOrder /\ [Next]_vars => InOrder'
<1> SUFFICES ASSUME TypeOK, DestructorOrder, InOrder, [Next]_vars PROVE InOrder'
  OBVIOUS
<1> USE DEF TypeOK, InOrder, null, poolVars, ownerVars
<1>1. ASSUME NEW w \in Worker, OwnerStep(w) PROVE InOrder'
  BY <1>1 DEF OwnerStep, AddCallback, Start, Notified, Stop
<1>2. ASSUME NEW w \in Worker, AwaitCallback(w) \/ Loop(w) \/ Block(w) \/ WakeUp(w)
      PROVE  InOrder'
  BY <1>2 DEF AwaitCallback, Loop, Block, WakeUp
<1>3. ASSUME NEW w \in Worker, Look(w) PROVE InOrder'
  <2>1. CASE queue = <<>>
    BY <1>3, <2>1 DEF Look
  <2>2. CASE queue # <<>>
    <3>1. /\ UNCHANGED <<pushed, nulls>> /\ queue' = Tail(queue)
          /\ item' = [item EXCEPT ![w] = Head(queue)] /\ pc' = [pc EXCEPT ![w] = "handle"]
      BY <1>3, <2>2 DEF Look, Popped
    <3>2. \A i \in DOMAIN queue' : i + 1 \in DOMAIN queue /\ queue'[i] = queue[i + 1]
      BY <3>1, <2>2
    <3>3. \A i \in DOMAIN queue' :
            /\ queue'[i] <= pushed'
            /\ queue'[i] = 0 => nulls' > 0
            /\ \A j \in DOMAIN queue' :
                 i < j /\ queue'[j] # 0 => queue'[i] # 0 /\ queue'[i] < queue'[j]
      BY <3>1, <3>2
    <3> QED
      BY <3>1, <3>3
  <2> QED
    BY <2>1, <2>2
<1>4. ASSUME NEW w \in Worker, Handle(w) PROVE InOrder'
  BY <1>4 DEF Handle
<1>5. CASE OnPushMessage
  <2>1. /\ queue' = Append(queue, pushed + 1) /\ pushed' = pushed + 1
        /\ nulls = 0 /\ UNCHANGED <<nulls, item>>
    BY <1>5 DEF OnPushMessage, DestructorOrder
  <2>2. \A i \in DOMAIN queue' :
          \/ i \in DOMAIN queue /\ i <= Len(queue) /\ queue'[i] = queue[i]
          \/ i = Len(queue) + 1 /\ queue'[i] = pushed + 1
    BY <2>1
  <2>3. \A w \in Worker : pc[w] = "handle" => pc'[w] = "handle"
    BY <1>5 DEF OnPushMessage, NotifyOne, Blocked
  <2>4. \A i \in DOMAIN queue' :
          /\ queue'[i] <= pushed'
          /\ queue'[i] = 0 => nulls' > 0
          /\ \A j \in DOMAIN queue' :
               i < j /\ queue'[j] # 0 => queue'[i] # 0 /\ queue'[i] < queue'[j]
    <3>1. /\ Len(queue) \in Nat /\ pushed \in Nat /\ DOMAIN queue = 1..Len(queue)
          /\ \A i \in DOMAIN queue : queue[i] \in Nat /\ queue[i] <= pushed /\ queue[i] # 0
      BY <2>1, QueueItems
    <3>2. ASSUME NEW i \in DOMAIN queue'
          PROVE  queue'[i] <= pushed' /\ queue'[i] # 0
      BY <2>1, <2>2, <3>1, <3>2
    <3>3. ASSUME NEW i \in DOMAIN queue', NEW j \in DOMAIN queue', i < j
          PROVE  queue'[i] < queue'[j]
      <4>1. CASE j \in DOMAIN queue /\ queue'[j] = queue[j]
        BY <2>1, <2>2, <3>1, <3>2, <3>3, <4>1
      <4>2. CASE queue'[j] = pushed + 1
        BY <2>1, <2>2, <3>1, <3>3, <4>2
      <4> QED
        BY <2>2, <4>1, <4>2
    <3> QED
      BY <3>2, <3>3
  <2> QED
    BY <2>1, <2>3, <2>4
<1>6. CASE PushNull
  <2>1. /\ queue' = Append(queue, 0) /\ nulls' = nulls + 1 /\ nulls \in Nat
        /\ UNCHANGED <<pushed, item, pc>>
    BY <1>6, PoolAssumption, FS_CardinalityType DEF PushNull
  <2>2. \A i \in DOMAIN queue' :
          \/ i \in DOMAIN queue /\ i <= Len(queue) /\ queue'[i] = queue[i]
          \/ i = Len(queue) + 1 /\ queue'[i] = 0
    BY <2>1
  <2> QED
    BY <2>1, <2>2
<1>7. CASE Constructed \/ NotifyAll \/ Joined
  BY <1>7 DEF Constructed, NotifyAll, OneForEach, BlockedWake, Joined
<1>8. CASE UNCHANGED vars
  BY <1>8 DEF vars
<1> QED
  BY <1>1, <1>2, <1>3, <1>4, <1>5, <1>6, <1>7, <1>8 DEF Next, WorkerStep

-----------------------------------------------------------------------------
(* The owner constructs before it runs and stops before it joins.           *)
LEMMA ConstructorStep ==
  TypeOK /\ ConstructorOrder /\ DestructorOrder /\ [Next]_vars => ConstructorOrder'
<1> SUFFICES ASSUME TypeOK, ConstructorOrder, DestructorOrder, [Next]_vars
             PROVE  ConstructorOrder'
  OBVIOUS
<1> USE DEF TypeOK, ConstructorOrder, poolVars, ownerVars
<1>1. ASSUME NEW w \in Worker, OwnerStep(w) PROVE ConstructorOrder'
  BY <1>1 DEF OwnerStep, AddCallback, Start, Notified, Stop
<1>2. ASSUME NEW w \in Worker, WorkerStep(w) \/ WakeUp(w) PROVE ConstructorOrder'
  BY <1>2 DEF WorkerStep, AwaitCallback, Loop, Look, Block, Handle, WakeUp
<1>3. CASE Constructed \/ PushNull \/ Joined
  BY <1>3 DEF Constructed, PushNull, Joined
<1>4. CASE OnPushMessage
  BY <1>4 DEF OnPushMessage, NotifyOne, Blocked
<1>5. CASE NotifyAll
  BY <1>5 DEF NotifyAll, OneForEach, BlockedWake
<1>6. CASE UNCHANGED vars
  BY <1>6 DEF vars
<1> QED
  BY <1>1, <1>2, <1>3, <1>4, <1>5, <1>6 DEF Next

(* The join.  Every worker that may still pop finds an item, so that none   *)
(* goes to sleep any more.                                                  *)
LEMMA EnoughLeft == TypeOK /\ DestructorOrder /\ ItemsLeft => EnoughSentinels
<1> SUFFICES ASSUME TypeOK, DestructorOrder, ItemsLeft, phase = "join"
             PROVE  Cardinality({w \in Worker : MayPop(w)}) <= Len(queue)
  BY DEF EnoughSentinels
<1> DEFINE Popping == {w \in Worker : MayPop(w)}
<1>1. /\ IsFiniteSet(Popping) /\ Cardinality(Popping) \in Nat
      /\ Cardinality(Worker) \in Nat /\ Len(queue) \in Nat
  BY PoolAssumption, FS_Subset, FS_CardinalityType DEF TypeOK
<1>2. Cardinality(Worker) <= Len(queue) + Cardinality(Past)
  BY DEF DestructorOrder, ItemsLeft, Past
<1>3. Cardinality(Past) = Cardinality(Worker) - Cardinality(Popping)
  <2>1. Past = Worker \ Popping /\ Worker \cap Popping = Popping
    BY DEF Past
  <2> QED
    BY <2>1, <1>1, PoolAssumption, FS_Difference
<1> QED
  BY <1>1, <1>2, <1>3

LEMMA FindsAnItem ==
  ASSUME TypeOK, EnoughSentinels, phase = "join", NEW w \in Worker, MayPop(w)
  PROVE  queue # <<>>
<1> DEFINE Popping == {v \in Worker : MayPop(v)}
<1>1. IsFiniteSet(Popping) /\ Cardinality(Popping) \in Nat /\ Popping # {}
  BY PoolAssumption, FS_Subset, FS_CardinalityType
<1>2. Cardinality(Popping) # 0
  BY <1>1, FS_EmptySet
<1>3. Cardinality(Popping) <= Len(queue)
  BY DEF EnoughSentinels
<1> HIDE DEF Popping
<1>4. Len(queue) # 0
  BY <1>1, <1>2, <1>3 DEF TypeOK
<1> QED
  BY <1>4

LEMMA SleepsStep ==
  TypeOK /\ EnoughSentinels /\ SleepsOnlyIfMissed /\ [Next]_vars => SleepsOnlyIfMissed'
<1> SUFFICES ASSUME TypeOK, EnoughSentinels, SleepsOnlyIfMissed, [Next]_vars
             PROVE  SleepsOnlyIfMissed'
  OBVIOUS
<1> USE DEF TypeOK, SleepsOnlyIfMissed, Checked, Blocked, poolVars, ownerVars
<1>1. ASSUME NEW w \in Worker, OwnerStep(w) PROVE SleepsOnlyIfMissed'
  BY <1>1 DEF OwnerStep, AddCallback, Start, Notified, Stop
<1>2. ASSUME NEW w \in Worker, AwaitCallback(w) \/ Loop(w) \/ Block(w) \/ Handle(w) \/ WakeUp(w)
      PROVE  SleepsOnlyIfMissed'
  BY <1>2 DEF AwaitCallback, Loop, Block, Handle, WakeUp
<1>3. ASSUME NEW w \in Worker, Look(w) PROVE SleepsOnlyIfMissed'
  <2>1. phase = "join" => queue # <<>>
    BY <1>3, FindsAnItem DEF Look, MayPop
  <2>2. UNCHANGED <<phase, missed>>
    BY <1>3 DEF Look
  <2>3. phase = "join" => pc' = [pc EXCEPT ![w] = "handle"]
    BY <1>3, <2>1 DEF Look
  <2> QED
    BY <2>2, <2>3
<1>4. CASE Constructed \/ OnPushMessage \/ PushNull \/ Joined
  BY <1>4 DEF Constructed, OnPushMessage, PushNull, Joined
<1>5. CASE NotifyAll
  BY <1>5 DEF NotifyAll, BlockedWake
<1>6. CASE UNCHANGED vars
  BY <1>6 DEF vars
<1> QED
  BY <1>1, <1>2, <1>3, <1>4, <1>5, <1>6 DEF Next, WorkerStep

LEMMA InitInv == Init => PoolInv
<1> SUFFICES ASSUME Init PROVE PoolInv
  OBVIOUS
<1>1. Cardinality(Worker) \in Nat
  BY PoolAssumption, FS_CardinalityType
<1>2. TypeOK
  BY <1>1, PoolAssumption DEF Init, TypeOK, null
<1>3. Blocked = {} /\ Checked = {}
  BY DEF Init, Blocked, Checked
<1>4. ItemsLeft
  BY FinitePast DEF Init, ItemsLeft, Past
<1> QED
  BY <1>2, <1>3, <1>4
     DEF Init, PoolInv, StartedIsAwake, ConstructorOrder, DestructorOrder, CheckedIsEmpty,
         WorkConserving, InOrder, EnoughSentinels, SleepsOnlyIfMissed

(* The pool's inductive invariant, for any number of workers and messages.  *)
THEOREM PoolInvariant == Spec => []PoolInv
<1>1. PoolInv /\ [Next]_vars => PoolInv'
  <2> SUFFICES ASSUME PoolInv, [Next]_vars PROVE PoolInv'
    OBVIOUS
  <2>1. TypeOK' /\ StartedIsAwake' /\ ConstructorOrder' /\ DestructorOrder'
    BY TypeStep, AwakeStep, ConstructorStep, OrderStep DEF PoolInv
  <2>2. CheckedIsEmpty' /\ WorkConserving' /\ ItemsLeft' /\ InOrder'
    BY OwedStep, ItemsStep, InOrderStep DEF PoolInv, Owed
  <2>3. EnoughSentinels'
    BY <2>1, <2>2, EnoughLeft, PTL
  <2>4. SleepsOnlyIfMissed'
    BY SleepsStep DEF PoolInv
  <2> QED
    BY <2>1, <2>2, <2>3, <2>4 DEF PoolInv
<1> QED
  BY <1>1, InitInv, PTL DEF Spec

(* OnPushMessage's notify_one is enough: no worker waits while something is *)
(* in the queue that no woken worker is on its way to.                      *)
THEOREM NoForgottenPush == Spec => []WorkConserving
<1>1. PoolInv => WorkConserving
  BY DEF PoolInv
<1> QED
  BY <1>1, PoolInvariant, PTL

(* ServiceWorker::Start loses no wakeup.                                    *)
THEOREM StartWakes == Spec => []StartedIsAwake
<1>1. PoolInv => StartedIsAwake
  BY DEF PoolInv
<1> QED
  BY <1>1, PoolInvariant, PTL

(* The destructor's nullptrs are enough for the workers it joins: each of   *)
(* them pops at most once after Stop, so those that may still pop are no    *)
(* more than the items left.                                                *)
THEOREM SentinelsSuffice == Spec => []EnoughSentinels
<1>1. PoolInv => EnoughSentinels
  BY DEF PoolInv
<1> QED
  BY <1>1, PoolInvariant, PTL

(* While the destructor joins, a worker waits only if the last notify_all   *)
(* fell between its check and its wait: there is no other way for the join  *)
(* to hang.                                                                 *)
THEOREM OnlyMissedSleep == Spec => []SleepsOnlyIfMissed
<1>1. PoolInv => SleepsOnlyIfMissed
  BY DEF PoolInv
<1> QED
  BY <1>1, PoolInvariant, PTL

(* And the join is short: a worker takes at most as many steps as StepsLeft *)
(* says, since each of them brings it nearer to the end of its thread.      *)
THEOREM JoinIsShort == Spec => JoinDescends
<1> DEFINE Descends ==
      phase = "join" =>
        \A w \in Worker : pc'[w] # pc[w] => StepsLeft[pc'[w]] < StepsLeft[pc[w]]
<1>1. ASSUME PoolInv, [Next]_vars PROVE [Descends]_vars
  <2> SUFFICES ASSUME Next, phase = "join", NEW v \in Worker, pc'[v] # pc[v]
               PROVE  StepsLeft[pc'[v]] < StepsLeft[pc[v]]
    BY <1>1
  <2>1. /\ TypeOK /\ EnoughSentinels
        /\ \A w \in Worker : callback[w] = "started" /\ ~running[w]
    BY <1>1 DEF PoolInv, ConstructorOrder, DestructorOrder
  <2>2. pc \in [Worker -> {"starting", "asleep", "loop", "lock", "checked",
                           "blocked", "woken", "handle", "exited"}]
    BY <2>1 DEF TypeOK
  <2>3. ASSUME NEW w \in Worker, OwnerStep(w) PROVE FALSE
    BY <2>1, <2>3 DEF OwnerStep, AddCallback, Start, Stop
  <2>4. ASSUME Constructed \/ OnPushMessage \/ PushNull \/ NotifyAll \/ Joined PROVE FALSE
    BY <2>4 DEF Constructed, OnPushMessage, PushNull, NotifyAll, Joined
  <2>5. PICK w \in Worker : WorkerStep(w) \/ WakeUp(w)
    BY <2>3, <2>4 DEF Next
  <2>6. CASE AwaitCallback(w)
    BY <2>1, <2>2, <2>6 DEF AwaitCallback, StepsLeft
  <2>7. CASE Loop(w)
    BY <2>1, <2>2, <2>7 DEF Loop, StepsLeft
  <2>8. CASE Look(w)
    <3>1. pc[w] \in {"lock", "woken"} /\ queue # <<>>
      BY <2>1, <2>8, FindsAnItem DEF Look, MayPop
    <3>2. pc' = [pc EXCEPT ![w] = "handle"]
      BY <2>8, <3>1 DEF Look
    <3> QED
      BY <2>2, <3>1, <3>2 DEF StepsLeft
  <2>9. CASE Block(w)
    BY <2>2, <2>9 DEF Block, StepsLeft
  <2>10. CASE Handle(w)
    BY <2>2, <2>10 DEF Handle, StepsLeft
  <2>11. CASE WakeUp(w)
    BY <2>2, <2>11 DEF WakeUp, StepsLeft
  <2> QED
    BY <2>5, <2>6, <2>7, <2>8, <2>9, <2>10, <2>11 DEF WorkerStep
<1> QED
  BY <1>1, PoolInvariant, PTL DEF Spec, JoinDescends
-----------------------------------------------------------------------------
(* The contexts in the queue, and what its operations do to them.           *)
Waiting == {queue[i] : i \in DOMAIN queue} \ {null}

LEMMA WaitingTail ==
  ASSUME TypeOK, InOrder, queue # <<>>, queue' = Tail(queue)
  PROVE  /\ Head(queue) # null => Head(queue) \in Waiting
         /\ Head(queue) # null => \A n \in Waiting : Head(queue) <= n
         /\ Waiting' = Waiting \ {Head(queue)}
<1>1. /\ Head(queue) = queue[1] /\ 1 \in DOMAIN queue
      /\ \A i \in DOMAIN queue : queue[i] \in Nat
  <2>1. Len(queue) # 0 /\ Head(queue) = queue[1]
    BY DEF TypeOK
  <2> QED
    BY <2>1, QueueItems
<1>2. \A i \in DOMAIN queue : queue[i] # 0 /\ i # 1 => queue[1] # 0 /\ queue[1] < queue[i]
  BY <1>1 DEF InOrder, null, TypeOK
<1>3. \A i \in DOMAIN queue' : i + 1 \in DOMAIN queue /\ i + 1 # 1 /\ queue'[i] = queue[i + 1]
  BY DEF TypeOK
<1>4. \A i \in DOMAIN queue : i # 1 => i - 1 \in DOMAIN queue' /\ queue[i] = queue'[i - 1]
  BY DEF TypeOK
<1>5. Waiting' \subseteq Waiting \ {Head(queue)}
  BY <1>1, <1>2, <1>3 DEF Waiting, null
<1>6. Waiting \ {Head(queue)} \subseteq Waiting'
  BY <1>1, <1>4, ZenonT(60) DEF Waiting, null
<1>7. \A n \in Waiting : Head(queue) # null => Head(queue) <= n
  <2> SUFFICES ASSUME NEW i \in DOMAIN queue, queue[i] # 0, queue[1] # 0
               PROVE  queue[1] <= queue[i]
    BY <1>1 DEF Waiting, null
  <2> QED
    BY <1>1, <1>2
<1> QED
  BY <1>1, <1>5, <1>6, <1>7 DEF Waiting, null

LEMMA WaitingAppend ==
  ASSUME TypeOK, NEW n, queue' = Append(queue, n)
  PROVE  Waiting' = Waiting \cup ({n} \ {null})
<1>1. \A i \in DOMAIN queue : i \in DOMAIN queue' /\ queue'[i] = queue[i]
  BY DEF TypeOK
<1>2. Len(queue) + 1 \in DOMAIN queue' /\ queue'[Len(queue) + 1] = n
  BY DEF TypeOK
<1>3. \A i \in DOMAIN queue' : i \in DOMAIN queue \/ i = Len(queue) + 1
  BY DEF TypeOK
<1> QED
  BY <1>1, <1>2, <1>3 DEF Waiting

(* The pool implements a queue that hands every context to one worker, in   *)
(* the order of the pushes and once: the locks, the waits, the notifications*)
(* and the destructor with its nullptrs change nothing of it.               *)
THEOREM ImplementsQueue == Spec => QueueSpec
<1>1. Init => WQ!Init
  BY DEF Init, WQ!Init, null
<1>2. PoolInv /\ [Next]_vars => [WQ!Next]_(WQ!vars)
  <2> SUFFICES ASSUME PoolInv, [Next]_vars
               PROVE  WQ!Next \/ UNCHANGED <<pushed, Waiting, item, handled>>
    BY DEF WQ!vars, Waiting
  <2> USE DEF poolVars, ownerVars
  <2>0. TypeOK /\ InOrder /\ TypeOK'
    BY TypeStep DEF PoolInv
  <2>1. ASSUME UNCHANGED poolVars, UNCHANGED item
        PROVE  UNCHANGED <<pushed, Waiting, item, handled>>
    BY <2>1 DEF Waiting
  <2>2. ASSUME NEW w \in Worker, OwnerStep(w)
        PROVE  UNCHANGED <<pushed, Waiting, item, handled>>
    BY <2>2, <2>1 DEF OwnerStep, AddCallback, Start, Stop
  <2>3. ASSUME NEW w \in Worker, AwaitCallback(w) \/ Loop(w) \/ Block(w) \/ WakeUp(w)
        PROVE  UNCHANGED <<pushed, Waiting, item, handled>>
    BY <2>3, <2>1 DEF AwaitCallback, Loop, Block, WakeUp
  <2>4. ASSUME NEW w \in Worker, Look(w)
        PROVE  WQ!Next \/ UNCHANGED <<pushed, Waiting, item, handled>>
    <3>1. CASE queue = <<>>
      BY <2>4, <2>1, <3>1 DEF Look
    <3>2. CASE queue # <<>>
      <4>1. /\ queue' = Tail(queue) /\ item' = [item EXCEPT ![w] = Head(queue)]
            /\ pc[w] # "handle" /\ UNCHANGED <<pushed, handled>>
        BY <2>4, <3>2 DEF Look, Popped
      <4>2. item[w] = 0
        BY <2>0, <4>1 DEF InOrder, null
      <4>3. CASE Head(queue) = null
        <5>1. Waiting' = Waiting
          BY <2>0, <3>2, <4>1, <4>3, WaitingTail DEF Waiting
        <5>2. item' = item
          BY <2>0, <4>1, <4>2, <4>3 DEF TypeOK, null
        <5> QED
          BY <4>1, <5>1, <5>2
      <4>4. CASE Head(queue) # null
        <5>1. /\ Head(queue) \in Waiting /\ \A n \in Waiting : Head(queue) <= n
              /\ Waiting' = Waiting \ {Head(queue)}
          BY <2>0, <3>2, <4>1, <4>4, WaitingTail
        <5>2. PICK m \in Waiting : m = Head(queue)
          BY <5>1
        <5>3. WQ!Take(w, m)
          BY <4>1, <4>2, <5>1, <5>2 DEF WQ!Take, Waiting
        <5> QED
          BY <5>3 DEF WQ!Next, Waiting
      <4> QED
        BY <4>3, <4>4
    <3> QED
      BY <3>1, <3>2
  <2>5. ASSUME NEW w \in Worker, Handle(w)
        PROVE  WQ!Next \/ UNCHANGED <<pushed, Waiting, item, handled>>
    <3>1. /\ handled' = handled \cup ({item[w]} \ {0}) /\ item' = [item EXCEPT ![w] = 0]
          /\ UNCHANGED <<pushed, queue>> /\ Waiting' = Waiting
      BY <2>5 DEF Handle, null, Waiting
    <3>2. CASE item[w] = 0
      BY <2>0, <3>1, <3>2 DEF TypeOK
    <3>3. CASE item[w] # 0
      <4>1. WQ!Finish(w)
        BY <3>1, <3>3 DEF WQ!Finish, Waiting
      <4> QED
        BY <4>1 DEF WQ!Next
    <3> QED
      BY <3>2, <3>3
  <2>6. ASSUME OnPushMessage PROVE WQ!Next
    <3>1. /\ pushed < MaxMessages /\ pushed' = pushed + 1
          /\ queue' = Append(queue, pushed + 1) /\ UNCHANGED <<item, handled>>
      BY <2>6 DEF OnPushMessage
    <3>2. Waiting' = Waiting \cup {pushed + 1}
      BY <2>0, <3>1, WaitingAppend DEF TypeOK, null
    <3>3. WQ!Push
      BY <3>1, <3>2 DEF WQ!Push, Waiting
    <3> QED
      BY <3>3 DEF WQ!Next
  <2>7. ASSUME PushNull PROVE UNCHANGED <<pushed, Waiting, item, handled>>
    <3>1. queue' = Append(queue, null) /\ UNCHANGED <<pushed, item, handled>>
      BY <2>7 DEF PushNull
    <3>2. Waiting' = Waiting \cup ({null} \ {null})
      BY <2>0, <3>1, WaitingAppend
    <3> QED
      BY <3>1, <3>2
  <2>8. ASSUME Constructed \/ NotifyAll \/ Joined
        PROVE  UNCHANGED <<pushed, Waiting, item, handled>>
    BY <2>8, <2>1 DEF Constructed, NotifyAll, Joined
  <2>9. ASSUME UNCHANGED vars PROVE UNCHANGED <<pushed, Waiting, item, handled>>
    BY <2>9, <2>1 DEF vars
  <2> QED
    BY <2>2, <2>3, <2>4, <2>5, <2>6, <2>7, <2>8, <2>9 DEF Next, WorkerStep
<1> QED
  BY <1>1, <1>2, PoolInvariant, PTL DEF Spec, QueueSpec, WQ!Spec

(* In a queue of that kind a context is never in two places, and never      *)
(* nowhere, however the pushes and the workers interleave.                  *)
THEOREM PlacedOnce == WQ!Spec => []WQ!ExactlyOnce
<1>1. WQ!Init => WQ!ExactlyOnce
  BY DEF WQ!Init, WQ!ExactlyOnce
<1>2. ASSUME WQ!ExactlyOnce, [WQ!Next]_(WQ!vars) PROVE WQ!ExactlyOnce'
  <2> USE DEF WQ!ExactlyOnce
  <2>1. CASE WQ!Push
    BY <1>2, <2>1 DEF WQ!Push
  <2>2. ASSUME NEW w \in Worker, WQ!Finish(w) PROVE WQ!ExactlyOnce'
    BY <1>2, <2>2 DEF WQ!Finish
  <2>3. ASSUME NEW w \in Worker, NEW m \in Waiting, WQ!Take(w, m) PROVE WQ!ExactlyOnce'
    <3>1. /\ item[w] = 0 /\ item' = [item EXCEPT ![w] = m]
          /\ Waiting' = Waiting \ {m} /\ UNCHANGED <<pushed, handled>>
      BY <2>3 DEF WQ!Take, Waiting
    <3>2. /\ pushed \in Nat /\ item \in [Worker -> 0..pushed]
          /\ Waiting \cup handled \cup {item[v] : v \in Worker} \cup {0} = 0..pushed
          /\ Waiting \cap handled = {} /\ 0 \notin Waiting \cup handled
          /\ \A v \in Worker :
               /\ item[v] \notin Waiting \cup handled
               /\ \A u \in Worker : item[u] = item[v] => u = v \/ item[v] = 0
      BY <1>2 DEF Waiting
    <3>3. /\ pushed' \in Nat /\ item' \in [Worker -> 0..pushed']
          /\ Waiting' \cup handled' \cup {item'[v] : v \in Worker} \cup {0} = 0..pushed'
          /\ Waiting' \cap handled' = {} /\ 0 \notin Waiting' \cup handled'
          /\ \A v \in Worker :
               /\ item'[v] \notin Waiting' \cup handled'
               /\ \A u \in Worker : item'[u] = item'[v] => u = v \/ item'[v] = 0
      BY <2>3, <3>1, <3>2
    <3> QED
      BY <3>3 DEF Waiting
  <2>4. CASE UNCHANGED WQ!vars
    BY <1>2, <2>4 DEF WQ!vars
  <2> QED
    BY <1>2, <2>1, <2>2, <2>3, <2>4 DEF WQ!Next, Waiting
<1> QED
  BY <1>1, <1>2, PTL DEF WQ!Spec

(* No context pushed is lost, given to two workers or handled twice.        *)
THEOREM HandedOnce == Spec => []WQ!ExactlyOnce
BY ImplementsQueue, PlacedOnce, PTL DEF QueueSpec

(* No push is left over: when every worker waits, all contexts pushed have  *)
(* been handled.                                                            *)
THEOREM HandledAtRest == Spec => []RestMeansHandled
<1>1. PoolInv /\ WQ!ExactlyOnce => RestMeansHandled
  <2> SUFFICES ASSUME PoolInv, WQ!ExactlyOnce, phase = "run", Blocked = Worker
               PROVE  handled = 1..pushed
    BY DEF RestMeansHandled
  <2>1. \A w \in Worker : pc[w] = "blocked" /\ item[w] = 0
    BY DEF Blocked, PoolInv, InOrder, null
  <2>2. Woken = {} /\ Blocked # {}
    BY <2>1, PoolAssumption DEF Woken
  <2>3. queue = <<>>
    <3>1. Len(queue) <= Cardinality(Woken)
      BY <2>2 DEF PoolInv, WorkConserving
    <3>2. Cardinality(Woken) = 0
      BY <2>2, FS_EmptySet
    <3> QED
      BY <3>1, <3>2 DEF PoolInv, TypeOK
  <2>4. Waiting = {}
    BY <2>3 DEF Waiting
  <2>5. /\ pushed \in Nat /\ 0 \notin handled
        /\ Waiting \cup handled \cup {item[w] : w \in Worker} \cup {0} = 0..pushed
    BY DEF WQ!ExactlyOnce, Waiting
  <2>6. handled \cup {0} = 0..pushed
    BY <2>1, <2>4, <2>5
  <2>7. \A n : n \in 1..pushed <=> n \in 0..pushed /\ n # 0
    BY <2>5
  <2>8. \A n : n \in handled <=> n \in 0..pushed /\ n # 0
    BY <2>5, <2>6, Zenon
  <2> QED
    BY <2>7, <2>8
<1> QED
  BY <1>1, PoolInvariant, HandedOnce, PTL
=============================================================================
