------------------------- MODULE SessionWriteProofs -------------------------
(***************************************************************************)
(* The safety of SessionWrite for any sessions, answers, send buffers and  *)
(* workers: what a peer gets is a stretch of each answer from its first    *)
(* unit on, and answers mix only where two workers overlap.                *)
(***************************************************************************)
EXTENDS SessionWrite, SequenceTheorems, TLAPS

Unit == Message \X (Nat \ {0})

(* The parts of a unit, and of a stream of them.                            *)
LEMMA SeqOfUnits ==
  ASSUME NEW st \in Seq(Unit)
  PROVE  /\ Len(st) \in Nat /\ DOMAIN st = 1..Len(st)
         /\ \A i \in DOMAIN st : /\ st[i][1] \in Message /\ st[i][2] \in Nat /\ st[i][2] > 0
                                 /\ st[i] = <<st[i][1], st[i][2]>>
<1>1. Len(st) \in Nat /\ DOMAIN st = 1..Len(st)
  BY LenProperties
<1>2. ASSUME NEW i \in DOMAIN st
      PROVE  /\ st[i][1] \in Message /\ st[i][2] \in Nat /\ st[i][2] > 0
             /\ st[i] = <<st[i][1], st[i][2]>>
  <2>1. st[i] \in Unit
    BY <1>1, ElementOfSeq
  <2> QED
    BY <2>1 DEF Unit
<1> QED
  BY <1>1, <1>2

(* What the peer reads moves from the buffer to the end of what it has.     *)
LEMMA Drained ==
  ASSUME NEW S, NEW a \in Seq(S), NEW b \in Seq(S), b # <<>>
  PROVE  /\ Append(a, Head(b)) \in Seq(S) /\ Tail(b) \in Seq(S)
         /\ Len(Tail(b)) <= Len(b)
         /\ Append(a, Head(b)) \o Tail(b) = a \o b
<1>1. /\ Head(b) \in S /\ Tail(b) \in Seq(S) /\ Len(Tail(b)) = Len(b) - 1
      /\ Len(a) \in Nat /\ Len(b) \in Nat
  BY HeadTailProperties, LenProperties
<1>2. Append(a, Head(b)) = a \o <<Head(b)>> /\ <<Head(b)>> \in Seq(S)
  BY <1>1, AppendIsConcat
<1>3. <<Head(b)>> \o Tail(b) = b
  BY <1>1
<1>4. (a \o <<Head(b)>>) \o Tail(b) = a \o (<<Head(b)>> \o Tail(b))
  BY <1>1, <1>2, ConcatAssociative
<1> QED
  BY <1>1, <1>2, <1>3, <1>4

(* A chunk is as long as it says and of units.                              *)
LEMMA ChunkOfUnits ==
  ASSUME NEW m \in Message, NEW from \in Nat, NEW n \in Nat
  PROVE  /\ Chunk(m, from, n) \in Seq(Unit) /\ Len(Chunk(m, from, n)) = n
         /\ \A d \in 1..n : Chunk(m, from, n)[d] = <<m, from + d>>
<1>1. \A d \in 1..n : <<m, from + d>> \in Unit
  BY DEF Unit
<1>2. Chunk(m, from, n) \in [1..n -> Unit]
  BY <1>1 DEF Chunk
<1>3. Chunk(m, from, n) \in Seq(Unit)
  BY <1>2, SeqDef
<1> QED
  BY <1>3 DEF Chunk

(* new is st with n units of m, after the one at `from`, at its end.        *)
Extends(new, st, m, from, n) ==
  /\ Len(new) = Len(st) + n
  /\ \A i \in DOMAIN st : i \in DOMAIN new /\ new[i] = st[i]
  /\ \A d \in 1..n : Len(st) + d \in DOMAIN new /\ new[Len(st) + d] = <<m, from + d>>
  /\ \A i \in DOMAIN new :
       \/ i \in DOMAIN st /\ new[i] = st[i]
       \/ i > Len(st) /\ i - Len(st) \in 1..n /\ new[i] = <<m, from + (i - Len(st))>>

(* What is written goes to the end of a stream.                             *)
LEMMA Extended ==
  ASSUME NEW st \in Seq(Unit), NEW m \in Message, NEW from \in Nat, NEW n \in Nat,
         NEW new \in Seq(Unit), new = st \o Chunk(m, from, n)
  PROVE  Extends(new, st, m, from, n)
<1> DEFINE c == Chunk(m, from, n)
<1>1. /\ c \in Seq(Unit) /\ Len(c) = n /\ \A d \in 1..n : c[d] = <<m, from + d>>
  BY ChunkOfUnits
<1> HIDE DEF c
<1>2. /\ Len(new) = Len(st) + Len(c)
      /\ \A i \in 1 .. Len(st) + Len(c) : new[i] = IF i <= Len(st) THEN st[i] ELSE c[i - Len(st)]
  BY <1>1, ConcatProperties DEF c
<1>3. /\ Len(st) \in Nat /\ DOMAIN st = 1..Len(st)
      /\ Len(new) \in Nat /\ DOMAIN new = 1..Len(new)
  BY SeqOfUnits
<1>4. \A d \in 1..n : Len(st) + d \in DOMAIN new /\ new[Len(st) + d] = <<m, from + d>>
  <2> TAKE d \in 1..n
  <2>1. Len(st) + d \in 1..Len(st) + Len(c) /\ ~(Len(st) + d <= Len(st))
        /\ (Len(st) + d) - Len(st) = d
    BY <1>1, <1>3
  <2> QED
    BY <1>1, <1>2, <1>3, <2>1
<1>5. ASSUME NEW i \in DOMAIN new
      PROVE  \/ i \in DOMAIN st /\ new[i] = st[i]
             \/ /\ i > Len(st) /\ i - Len(st) \in 1..n
                /\ new[i] = <<m, from + (i - Len(st))>>
  <2>1. i \in 1 .. Len(st) + Len(c) /\ i \in Nat
    BY <1>2, <1>3
  <2>2. CASE i <= Len(st)
    BY <1>2, <1>3, <2>1, <2>2
  <2>3. CASE ~(i <= Len(st))
    <3>1. i - Len(st) \in 1..n /\ i > Len(st)
      BY <1>1, <1>3, <2>1, <2>3
    <3> QED
      BY <1>1, <1>2, <2>1, <2>3, <3>1
  <2> QED
    BY <2>2, <2>3
<1>6. \A i \in DOMAIN st : i \in DOMAIN new /\ new[i] = st[i]
  BY <1>1, <1>2, <1>3
<1>7. Len(new) = Len(st) + n
  BY <1>1, <1>2
<1> QED
  BY <1>4, <1>5, <1>6, <1>7, Zenon DEF Extends
-----------------------------------------------------------------------------
(* A stream that only loses its end keeps what is said of it.               *)
LEMMA PrefixKeeps ==
  ASSUME UNCHANGED offset, overlapped \subseteq overlapped', NEW s,
         NEW st \in Seq(Unit), NEW pre \in Seq(Unit), Len(pre) <= Len(st),
         \A i \in 1..Len(pre) : pre[i] = st[i]
  PROVE  /\ IsOwn(s, st) => IsOwn(s, pre)'
         /\ IsOrdered(st) => IsOrdered(pre)
         /\ IsOrdered(st) /\ HasNoGap(st) => HasNoGap(pre)
         /\ IsUnmixed(st) => IsUnmixed(pre)'
         /\ \A m : EndsStream(m, st) => EndsStream(m, pre)
<1>1. /\ Len(pre) \in Nat /\ DOMAIN pre = 1..Len(pre)
      /\ Len(st) \in Nat /\ DOMAIN st = 1..Len(st)
      /\ \A i \in DOMAIN st : st[i][1] \in Message /\ st[i][2] \in Nat
  BY SeqOfUnits
<1>2. \A i \in DOMAIN pre : i \in DOMAIN st /\ pre[i] = st[i]
  BY <1>1
<1>3. IsOwn(s, st) => IsOwn(s, pre)'
  BY <1>2 DEF IsOwn
<1>4. IsOrdered(st) => IsOrdered(pre)
  BY <1>2 DEF IsOrdered
<1>5. ASSUME IsOrdered(st), HasNoGap(st) PROVE HasNoGap(pre)
  <2> SUFFICES ASSUME NEW i \in DOMAIN pre, NEW k \in 1..pre[i][2]
               PROVE  \E j \in DOMAIN pre : pre[j] = <<pre[i][1], k>>
    BY DEF HasNoGap
  <2>1. PICK j \in DOMAIN st : st[j] = <<st[i][1], k>>
    BY <1>2, <1>5 DEF HasNoGap
  <2>2. CASE k = pre[i][2]
    <3>1. pre[i] = <<pre[i][1], k>>
      BY <1>2, <2>2, SeqOfUnits
    <3> QED
      BY <3>1
  <2>3. CASE k < pre[i][2]
    <3>1. st[j][1] = st[i][1] /\ st[j][2] = k /\ k < st[i][2] /\ i \in DOMAIN st
      BY <1>2, <2>1, <2>3
    <3>2. ~(i < j) /\ i # j
      BY <1>1, <1>5, <3>1 DEF IsOrdered
    <3>3. j \in DOMAIN pre
      BY <1>1, <3>2
    <3> QED
      BY <1>2, <2>1, <3>3
  <2>4. k = pre[i][2] \/ k < pre[i][2]
    BY <1>1, <1>2
  <2> QED
    BY <2>2, <2>3, <2>4
<1>6. IsUnmixed(st) => IsUnmixed(pre)'
  BY <1>2 DEF IsUnmixed
<1>7. \A m : EndsStream(m, st) => EndsStream(m, pre)
  BY <1>2 DEF EndsStream
<1> QED
  BY <1>3, <1>4, <1>5, <1>6, <1>7

(* The first n units of the datagram of m are in st.                        *)
HasFirst(st, m, n) == \A k \in 1..n : \E i \in DOMAIN st : st[i] = <<m, k>>

(* The units after those that are sent may be added.                        *)
LEMMA ExtendKeeps ==
  ASSUME offset \in [Message -> Nat], NEW m \in Message, NEW n \in Nat,
         offset' = [offset EXCEPT ![m] = @ + n],
         NEW s, s = sessionOf[m], NEW st \in Seq(Unit), NEW new \in Seq(Unit),
         Extends(new, st, m, offset[m], n),
         IsOwn(s, st), IsOrdered(st), HasNoGap(st),
         \A k \in 1..offset[m] : \E i \in DOMAIN st : st[i] = <<m, k>>
  PROVE  /\ IsOwn(s, new)' /\ IsOrdered(new) /\ HasNoGap(new)
         /\ HasFirst(new, m, offset'[m])
<1>0. offset[m] \in Nat /\ offset'[m] = offset[m] + n
      /\ \A x \in Message : offset'[x] \in Nat /\ offset[x] \in Nat /\ offset[x] <= offset'[x]
  OBVIOUS
<1>1. /\ Len(new) \in Nat /\ DOMAIN new = 1..Len(new)
      /\ Len(st) \in Nat /\ DOMAIN st = 1..Len(st)
      /\ \A i \in DOMAIN st : st[i][1] \in Message /\ st[i][2] \in Nat
      /\ \A i \in DOMAIN new : new[i][1] \in Message /\ new[i][2] \in Nat
  BY SeqOfUnits
<1>2. /\ Len(new) = Len(st) + n
      /\ \A i \in DOMAIN st : i \in DOMAIN new /\ new[i] = st[i]
      /\ \A d \in 1..n : Len(st) + d \in DOMAIN new /\ new[Len(st) + d] = <<m, offset[m] + d>>
  BY Zenon DEF Extends
<1>3. \A i \in DOMAIN new :
        \/ i \in DOMAIN st /\ new[i] = st[i]
        \/ i > Len(st) /\ i - Len(st) \in 1..n /\ new[i] = <<m, offset[m] + (i - Len(st))>>
  BY Zenon DEF Extends
<1>4. IsOwn(s, new)'
  <2> SUFFICES ASSUME NEW i \in DOMAIN new
               PROVE  sessionOf[new[i][1]] = s /\ new[i][2] <= offset'[new[i][1]]
    BY DEF IsOwn
  <2>1. CASE i \in DOMAIN st /\ new[i] = st[i]
    BY <2>1, <1>0, <1>1 DEF IsOwn
  <2>2. CASE i > Len(st) /\ i - Len(st) \in 1..n /\ new[i] = <<m, offset[m] + (i - Len(st))>>
    BY <2>2, <1>0
  <2> QED
    BY <1>3, <2>1, <2>2
<1>5. IsOrdered(new)
  <2> SUFFICES ASSUME NEW i \in DOMAIN new, NEW j \in DOMAIN new, i < j, new[i][1] = new[j][1]
               PROVE  new[i][2] < new[j][2]
    BY DEF IsOrdered
  <2>1. CASE j \in DOMAIN st /\ new[j] = st[j]
    <3>1. i \in DOMAIN st /\ new[i] = st[i]
      BY <1>1, <1>2, <2>1
    <3> QED
      BY <2>1, <3>1 DEF IsOrdered
  <2>2. CASE j > Len(st) /\ j - Len(st) \in 1..n /\ new[j] = <<m, offset[m] + (j - Len(st))>>
    <3>1. new[i][1] = m /\ new[j][2] = offset[m] + (j - Len(st)) /\ new[j][2] > offset[m]
      BY <1>0, <1>1, <2>2
    <3>2. CASE i \in DOMAIN st /\ new[i] = st[i]
      BY <1>0, <1>1, <3>1, <3>2 DEF IsOwn
    <3>3. CASE i > Len(st) /\ i - Len(st) \in 1..n /\ new[i] = <<m, offset[m] + (i - Len(st))>>
      BY <1>0, <1>1, <3>1, <3>3
    <3> QED
      BY <1>3, <3>2, <3>3
  <2> QED
    BY <1>3, <2>1, <2>2
<1>6. \A k \in 1..offset'[m] : \E i \in DOMAIN new : new[i] = <<m, k>>
  <2> TAKE k \in 1..offset'[m]
  <2>1. CASE k <= offset[m]
    <3>1. PICK i \in DOMAIN st : st[i] = <<m, k>>
      BY <1>0, <2>1
    <3> QED
      BY <1>2, <3>1
  <2>2. CASE k > offset[m]
    <3>1. PICK d \in 1..n : k = offset[m] + d
      <4>1. k - offset[m] \in 1..n /\ k = offset[m] + (k - offset[m])
        BY <1>0, <2>2
      <4> QED
        BY <4>1
    <3> QED
      BY <1>2, <3>1
  <2>3. k <= offset[m] \/ k > offset[m]
    BY <1>0
  <2> QED
    BY <2>1, <2>2, <2>3
<1>7. HasNoGap(new)
  <2> SUFFICES ASSUME NEW i \in DOMAIN new, NEW k \in 1..new[i][2]
               PROVE  \E j \in DOMAIN new : new[j] = <<new[i][1], k>>
    BY DEF HasNoGap
  <2>1. CASE i \in DOMAIN st /\ new[i] = st[i]
    <3>1. PICK j \in DOMAIN st : st[j] = <<st[i][1], k>>
      BY <2>1 DEF HasNoGap
    <3> QED
      BY <1>2, <2>1, <3>1
  <2>2. CASE i > Len(st) /\ i - Len(st) \in 1..n /\ new[i] = <<m, offset[m] + (i - Len(st))>>
    <3>1. new[i][1] = m /\ k \in 1..offset'[m]
      BY <1>0, <1>1, <2>2
    <3> QED
      BY <1>6, <3>1
  <2> QED
    BY <1>3, <2>1, <2>2
<1> QED
  BY <1>4, <1>5, <1>6, <1>7 DEF HasFirst

(* What is added after an answer that ends the stream continues it; what is *)
(* added by one of two that overlap may separate only noted answers.        *)
LEMMA ExtendUnmixed ==
  ASSUME UNCHANGED overlapped, NEW m \in Message, NEW from \in Nat, NEW n \in Nat,
         NEW st \in Seq(Unit), NEW new \in Seq(Unit), Extends(new, st, m, from, n),
         IsUnmixed(st), m \in overlapped \/ EndsStream(m, st)
  PROVE  IsUnmixed(new)' /\ (m \in overlapped \/ EndsStream(m, new))
<1>1. /\ Len(new) \in Nat /\ DOMAIN new = 1..Len(new)
      /\ Len(st) \in Nat /\ DOMAIN st = 1..Len(st)
  BY SeqOfUnits
<1>2. \A i \in DOMAIN new :
        \/ i \in DOMAIN st /\ new[i] = st[i]
        \/ i > Len(st) /\ new[i][1] = m
  <2>1. \A i \in DOMAIN new :
          \/ i \in DOMAIN st /\ new[i] = st[i]
          \/ i > Len(st) /\ i - Len(st) \in 1..n /\ new[i] = <<m, from + (i - Len(st))>>
    BY Zenon DEF Extends
  <2> TAKE i \in DOMAIN new
  <2>2. CASE i > Len(st) /\ i - Len(st) \in 1..n /\ new[i] = <<m, from + (i - Len(st))>>
    BY <2>2
  <2> QED
    BY <2>1, <2>2
<1>3. ASSUME EndsStream(m, st) PROVE EndsStream(m, new)
  BY <1>1, <1>2, <1>3 DEF EndsStream
<1>4. IsUnmixed(new)'
  <2> SUFFICES ASSUME NEW i \in DOMAIN new, NEW j \in DOMAIN new, NEW k \in DOMAIN new,
                      i < j, j < k, new[i][1] = new[k][1], new[i][1] \notin overlapped
               PROVE  new[j][1] = new[i][1]
    BY DEF IsUnmixed
  <2>1. CASE k \in DOMAIN st /\ new[k] = st[k]
    <3>1. /\ i \in DOMAIN st /\ new[i] = st[i]
          /\ j \in DOMAIN st /\ new[j] = st[j]
      BY <1>1, <1>2, <2>1
    <3> QED
      BY <2>1, <3>1 DEF IsUnmixed
  <2>2. CASE k > Len(st) /\ new[k][1] = m
    <3>1. EndsStream(m, new)
      BY <2>2, <1>3
    <3> QED
      BY <2>2, <3>1, <1>1 DEF EndsStream
  <2> QED
    BY <1>2, <2>1, <2>2
<1> QED
  BY <1>3, <1>4
-----------------------------------------------------------------------------
(* TypeOK along the steps.                                                  *)
LEMMA TypesOfStreams ==
  ASSUME TypeOK, NEW s \in Session
  PROVE  /\ buffer[s] \in Seq(Unit) /\ received[s] \in Seq(Unit) /\ Stream(s) \in Seq(Unit)
         /\ Len(Stream(s)) = Len(received[s]) + Len(buffer[s])
         /\ Len(received[s]) \in Nat /\ Len(buffer[s]) \in Nat
<1>1. buffer[s] \in Seq(Unit) /\ received[s] \in Seq(Unit)
  BY DEF TypeOK, Unit
<1> QED
  BY <1>1, ConcatProperties, LenProperties DEF Stream

LEMMA TypeWrite ==
  ASSUME TypeOK, NEW w \in Worker, Write(w), work[w] \in Message
  PROVE  TypeOK'
<1> DEFINE m == work[w]
           s == sessionOf[m]
<1>1. /\ m \in Message /\ s \in Session /\ size[m] \in Nat /\ SendBuffer[s] \in Nat
      /\ offset[m] \in Nat /\ offset[m] <= size[m]
  BY WriteAssumption DEF TypeOK
<1>2. PICK n \in 0..Unsent(m) :
        /\ n <= Free(s)
        /\ buffer' = [buffer EXCEPT ![s] = @ \o Chunk(m, offset[m], n)]
        /\ offset' = [offset EXCEPT ![m] = @ + n]
  BY <1>1 DEF Write, Accepted, FromOffset
<1>3. n \in Nat /\ n <= size[m] - offset[m]
  BY <1>1, <1>2 DEF Unsent
<1>4. /\ Chunk(m, offset[m], n) \in Seq(Unit) /\ Len(Chunk(m, offset[m], n)) = n
      /\ buffer[s] \in Seq(Unit) /\ Len(buffer[s]) \in Nat
  BY <1>1, <1>3, ChunkOfUnits, TypesOfStreams
<1>5. /\ buffer[s] \o Chunk(m, offset[m], n) \in Seq(Unit)
      /\ Len(buffer[s] \o Chunk(m, offset[m], n)) = Len(buffer[s]) + n
  <2> DEFINE b == buffer[s]
             c == Chunk(m, offset[m], n)
  <2>1. b \in Seq(Unit) /\ c \in Seq(Unit) /\ Len(c) = n
    BY <1>4
  <2> HIDE DEF b, c
  <2>2. b \o c \in Seq(Unit) /\ Len(b \o c) = Len(b) + n
    BY <2>1, ConcatProperties
  <2> QED
    BY <2>2 DEF b, c
<1>6. Len(buffer[s]) + n <= SendBuffer[s]
  BY <1>1, <1>2, <1>3, <1>4 DEF Free
<1> HIDE DEF m, s
<1>7. buffer' \in [Session -> Seq(Unit)] /\ \A x \in Session : Len(buffer'[x]) <= SendBuffer[x]
  BY <1>1, <1>2, <1>5, <1>6 DEF TypeOK, Unit
<1>8. offset' \in [Message -> Nat] /\ \A x \in Message : offset'[x] <= size[x]
  BY <1>1, <1>2, <1>3 DEF TypeOK
<1>9. /\ UNCHANGED <<pushed, queue, work, done, overlapped, received, conn, cut, killed>>
      /\ pc' \in [Worker -> {"idle", "send", "callbacks"}]
  BY DEF Write, Loop, TypeOK
<1> QED
  BY <1>7, <1>8, <1>9 DEF TypeOK, Unit

LEMMA TypeOthers ==
  ASSUME TypeOK, WithOneWorker,
         \/ \E m \in Message : OnPushMessage(m)
         \/ \E w \in Worker : \/ TakeMessage(w) \/ WriteFails(w) \/ WriteKills(w)
                              \/ Callbacks(w)
         \/ \E s \in Session : \/ PeerReads(s) \/ ErrorIsRead(s)
                               \/ \E how \in {"reset", "broken"} : PeerEnds(s, how)
         \/ UNCHANGED vars
  PROVE  TypeOK'
<1> USE DEF TypeOK, poolVars, socketVars, vars
<1>1. ASSUME NEW m \in Message, OnPushMessage(m) PROVE TypeOK'
  <2>1. Append(queue, m) \in Seq(Message)
    BY AppendProperties
  <2> QED
    BY <1>1, <2>1 DEF OnPushMessage
<1>2. ASSUME NEW w \in Worker, TakeMessage(w) PROVE TypeOK'
  <2>1. Head(queue) \in Message /\ Tail(queue) \in Seq(Message)
    BY <1>2, HeadTailProperties DEF TakeMessage
  <2>2. /\ queue' = Tail(queue) /\ work' = [work EXCEPT ![w] = Head(queue)]
        /\ pc' = [pc EXCEPT ![w] = "send"]
        /\ UNCHANGED <<pushed, done, socketVars, offset, cut, killed>>
    BY <1>2 DEF TakeMessage
  <2>3. overlapped' \subseteq Message
    <3>1. \A v \in Worker : pc[v] = "send" => work[v] \in Message
      BY DEF WithOneWorker
    <3> QED
      BY <1>2, <2>1, <3>1 DEF TakeMessage
  <2> QED
    BY <2>1, <2>2, <2>3
<1>3. ASSUME NEW w \in Worker, WriteFails(w) \/ WriteKills(w) \/ Callbacks(w) PROVE TypeOK'
  <2>1. pc[w] # "idle" /\ work[w] \in Message /\ sessionOf[work[w]] \in Session
    BY <1>3, WriteAssumption DEF WithOneWorker, WriteFails, WriteKills, Callbacks
  <2> QED
    BY <1>3, <2>1 DEF WriteFails, WriteKills, Callbacks, Reported
<1>4. ASSUME NEW s \in Session, PeerReads(s) PROVE TypeOK'
  <2>1. /\ received[s] \in Seq(Unit) /\ buffer[s] \in Seq(Unit) /\ Len(buffer[s]) \in Nat
    BY TypesOfStreams
  <2>2. /\ Append(received[s], Head(buffer[s])) \in Seq(Unit) /\ Tail(buffer[s]) \in Seq(Unit)
        /\ Len(Tail(buffer[s])) <= Len(buffer[s]) /\ Len(Tail(buffer[s])) \in Nat
    BY <1>4, <2>1, Drained, LenProperties DEF PeerReads
  <2>3. SendBuffer[s] \in Nat /\ Len(buffer[s]) <= SendBuffer[s]
    BY WriteAssumption
  <2>4. /\ received' = [received EXCEPT ![s] = Append(@, Head(buffer[s]))]
        /\ buffer' = [buffer EXCEPT ![s] = Tail(@)]
        /\ UNCHANGED <<poolVars, conn, offset, cut, killed>>
    BY <1>4 DEF PeerReads
  <2>5. /\ received' \in [Session -> Seq(Unit)] /\ buffer' \in [Session -> Seq(Unit)]
    BY <2>2, <2>4 DEF Unit
  <2>6. \A x \in Session : Len(buffer'[x]) <= SendBuffer[x]
    <3> TAKE x \in Session
    <3>1. CASE x = s
      <4>1. buffer'[s] = Tail(buffer[s])
        BY <2>4
      <4> QED
        BY <2>1, <2>2, <2>3, <3>1, <4>1
    <3>2. CASE x # s
      BY <2>4, <3>2
    <3> QED
      BY <3>1, <3>2
  <2> QED
    BY <2>4, <2>5, <2>6 DEF Unit
<1>5. ASSUME NEW s \in Session,
             ErrorIsRead(s) \/ \E how \in {"reset", "broken"} : PeerEnds(s, how)
      PROVE  TypeOK'
  <2>1. <<>> \in Seq(Message \X (Nat \ {0})) /\ Len(<<>>) = 0 /\ SendBuffer[s] \in Nat
    BY EmptySeq, WriteAssumption
  <2>2. CASE ErrorIsRead(s)
    BY <2>2 DEF ErrorIsRead
  <2>3. ASSUME NEW how \in {"reset", "broken"}, PeerEnds(s, how) PROVE TypeOK'
    <3>1. /\ conn' = [conn EXCEPT ![s] = how] /\ buffer' = [buffer EXCEPT ![s] = <<>>]
          /\ UNCHANGED <<poolVars, received, offset, cut, killed>>
      BY <2>3 DEF PeerEnds
    <3>2. buffer' \in [Session -> Seq(Message \X (Nat \ {0}))]
      BY <2>1, <3>1
    <3>3. \A x \in Session : Len(buffer'[x]) <= SendBuffer[x]
      BY <2>1, <3>1
    <3> QED
      BY <3>1, <3>2, <3>3
  <2> QED
    BY <1>5, <2>2, <2>3
<1>6. CASE UNCHANGED vars
  BY <1>6
<1> QED
  BY <1>1, <1>2, <1>3, <1>4, <1>5, <1>6

LEMMA TypeStep ==
  ASSUME TypeOK, WithOneWorker, [Next]_vars PROVE TypeOK'
<1>1. ASSUME NEW w \in Worker, Write(w) PROVE work[w] \in Message
  BY <1>1 DEF Write, WithOneWorker, TypeOK
<1> QED
  BY <1>1, TypeWrite, TypeOthers DEF Next, WorkerStep
-----------------------------------------------------------------------------
(* A context has one worker at a time.                                      *)
LEMMA QueueItems ==
  ASSUME TypeOK
  PROVE  /\ Len(queue) \in Nat /\ DOMAIN queue = 1..Len(queue)
         /\ \A i \in DOMAIN queue : queue[i] \in Message
BY LenProperties, ElementOfSeq DEF TypeOK

LEMMA OneWorkerPush ==
  ASSUME TypeOK, WithOneWorker, NEW m \in Message, OnPushMessage(m)
  PROVE  WithOneWorker'
<1>1. /\ m \notin pushed /\ pushed' = pushed \cup {m} /\ queue' = Append(queue, m)
      /\ UNCHANGED <<pc, work, offset>>
  BY DEF OnPushMessage
<1>2. /\ Len(queue) \in Nat /\ DOMAIN queue = 1..Len(queue)
      /\ \A i \in DOMAIN queue : queue[i] \in pushed /\ queue[i] # m
  BY <1>1, QueueItems DEF WithOneWorker
<1>3. /\ DOMAIN queue' = 1..Len(queue) + 1 /\ queue'[Len(queue) + 1] = m
      /\ \A i \in DOMAIN queue : queue'[i] = queue[i]
  BY <1>1, <1>2, AppendProperties, LenProperties DEF TypeOK
<1>4. \A i \in DOMAIN queue' :
        \/ i \in DOMAIN queue /\ queue'[i] = queue[i]
        \/ i = Len(queue) + 1 /\ queue'[i] = m
  BY <1>2, <1>3
<1>5. offset[m] = 0
  BY <1>1 DEF WithOneWorker
<1>6. \A w \in Worker : pc[w] # "idle" => work[w] # m
  BY <1>1 DEF WithOneWorker
<1>7. \A i, j \in DOMAIN queue' : queue'[i] = queue'[j] => i = j
  BY <1>2, <1>4 DEF WithOneWorker
<1> QED
  BY <1>1, <1>2, <1>4, <1>5, <1>6, <1>7 DEF WithOneWorker

LEMMA OneWorkerTake ==
  ASSUME TypeOK, WithOneWorker, NEW w \in Worker, TakeMessage(w)
  PROVE  WithOneWorker'
<1>1. /\ queue # <<>> /\ pc[w] = "idle" /\ queue' = Tail(queue)
      /\ pc' = [pc EXCEPT ![w] = "send"] /\ work' = [work EXCEPT ![w] = Head(queue)]
      /\ UNCHANGED <<pushed, offset>>
  BY DEF TakeMessage
<1>2. /\ Len(queue) \in Nat /\ DOMAIN queue = 1..Len(queue)
      /\ \A i \in DOMAIN queue : queue[i] \in Message
  BY QueueItems
<1>3. /\ 1 \in DOMAIN queue /\ Head(queue) = queue[1]
      /\ Len(Tail(queue)) = Len(queue) - 1 /\ DOMAIN Tail(queue) = 1..(Len(queue) - 1)
      /\ \A i \in DOMAIN Tail(queue) : Tail(queue)[i] = queue[i + 1]
  <2>1. Len(queue) # 0
    BY <1>1 DEF TypeOK
  <2>2. /\ Tail(queue) \in Seq(Message) /\ Len(Tail(queue)) = Len(queue) - 1
        /\ \A i \in 1..Len(Tail(queue)) : Tail(queue)[i] = queue[i + 1]
    BY <1>1, HeadTailProperties DEF TypeOK
  <2>3. Head(queue) = queue[1]
    BY <1>1 DEF TypeOK
  <2> QED
    BY <1>2, <2>1, <2>2, <2>3, LenProperties
<1>4. \A i \in DOMAIN queue' : i + 1 \in DOMAIN queue /\ i + 1 # 1 /\ queue'[i] = queue[i + 1]
  BY <1>1, <1>2, <1>3
<1>5. /\ \A i \in DOMAIN queue' : queue'[i] # Head(queue)
      /\ \A i, j \in DOMAIN queue' : queue'[i] = queue'[j] => i = j
      /\ \A i \in DOMAIN queue' : queue'[i] \in pushed /\ offset[queue'[i]] = 0
  BY <1>2, <1>3, <1>4 DEF WithOneWorker
<1>6. /\ Head(queue) \in pushed
      /\ \A v \in Worker : pc[v] # "idle" => v # w /\ work[v] # Head(queue)
      /\ \A v \in Worker : pc[v] # "idle" => \A i \in DOMAIN queue' : queue'[i] # work[v]
  BY <1>1, <1>3, <1>4 DEF WithOneWorker
<1>7. \A v \in Worker : /\ v # w => pc'[v] = pc[v] /\ work'[v] = work[v]
                        /\ v = w => pc'[v] = "send" /\ work'[v] = Head(queue)
  BY <1>1 DEF TypeOK
<1> QED
  BY <1>1, <1>5, <1>6, <1>7 DEF WithOneWorker

LEMMA OneWorkerWrite ==
  ASSUME TypeOK, WithOneWorker, NEW w \in Worker, Write(w)
  PROVE  WithOneWorker'
<1>1. /\ UNCHANGED <<pushed, queue, work>> /\ pc[w] = "send"
      /\ \A m \in Message : m # work[w] => offset'[m] = offset[m]
  BY DEF Write, Loop, TypeOK
<1>2. \A v \in Worker : pc'[v] # "idle" => pc[v] # "idle"
  BY <1>1 DEF Write, Loop, TypeOK
<1>3. work[w] \in pushed /\ \A i \in DOMAIN queue : queue[i] # work[w] /\ queue[i] \in Message
  BY <1>1, QueueItems DEF WithOneWorker
<1> QED
  BY <1>1, <1>2, <1>3 DEF WithOneWorker

LEMMA OneWorkerStep ==
  ASSUME TypeOK, WithOneWorker, [Next]_vars PROVE WithOneWorker'
<1> USE DEF poolVars, socketVars, vars
<1>1. ASSUME NEW w \in Worker, WriteFails(w) \/ WriteKills(w) \/ Callbacks(w)
      PROVE  WithOneWorker'
  <2>1. /\ UNCHANGED <<pushed, queue, offset>>
        /\ \A v \in Worker : pc'[v] # "idle" => pc[v] # "idle" /\ work'[v] = work[v]
    BY <1>1 DEF WriteFails, WriteKills, Callbacks, TypeOK
  <2> QED
    BY <2>1 DEF WithOneWorker
<1>2. ASSUME NEW s \in Session,
             \/ PeerReads(s) \/ ErrorIsRead(s)
             \/ \E how \in {"reset", "broken"} : PeerEnds(s, how)
      PROVE  WithOneWorker'
  BY <1>2 DEF PeerReads, ErrorIsRead, PeerEnds, WithOneWorker
<1>3. CASE UNCHANGED vars
  BY <1>3 DEF WithOneWorker
<1> QED
  BY <1>1, <1>2, <1>3, OneWorkerPush, OneWorkerTake, OneWorkerWrite DEF Next, WorkerStep

(* And it is never nowhere.                                                 *)
LEMMA MislaidStep ==
  ASSUME TypeOK, WithOneWorker, NoneMislaid, [Next]_vars PROVE NoneMislaid'
<1> USE DEF poolVars, socketVars, vars
<1>0. pc \in [Worker -> {"idle", "send", "callbacks"}] /\ work \in [Worker -> Message \cup {None}]
  BY DEF TypeOK
<1>1. ASSUME UNCHANGED <<pushed, queue, work, done>>,
             \A w \in Worker : pc'[w] = "idle" <=> pc[w] = "idle"
      PROVE  NoneMislaid'
  BY <1>1 DEF NoneMislaid, Queued, InHand
<1>2. ASSUME NEW m \in Message, OnPushMessage(m) PROVE NoneMislaid'
  <2>1. /\ m \notin pushed /\ pushed' = pushed \cup {m} /\ queue' = Append(queue, m)
        /\ UNCHANGED <<pc, work, done>>
    BY <1>2 DEF OnPushMessage
  <2>2. /\ Len(queue) \in Nat /\ DOMAIN queue = 1..Len(queue)
        /\ DOMAIN queue' = 1..Len(queue) + 1 /\ queue'[Len(queue) + 1] = m
        /\ \A i \in DOMAIN queue : queue'[i] = queue[i]
    BY <2>1, QueueItems, AppendProperties, LenProperties DEF TypeOK
  <2>3. \A i \in DOMAIN queue' :
          \/ i \in DOMAIN queue /\ queue'[i] = queue[i]
          \/ i = Len(queue) + 1 /\ queue'[i] = m
    BY <2>2
  <2>4. Queued' \subseteq Queued \cup {m}
    BY <2>3 DEF Queued
  <2>5. Queued \cup {m} \subseteq Queued'
    <3>1. \A i \in DOMAIN queue : i \in DOMAIN queue' /\ queue[i] = queue'[i]
      BY <2>2
    <3>2. Len(queue) + 1 \in DOMAIN queue'
      BY <2>2
    <3> QED
      BY <2>2, <3>1, <3>2 DEF Queued
  <2>6. InHand' = InHand
    BY <2>1 DEF InHand
  <2> QED
    BY <2>1, <2>4, <2>5, <2>6 DEF NoneMislaid
<1>3. ASSUME NEW w \in Worker, TakeMessage(w) PROVE NoneMislaid'
  <2>1. /\ queue # <<>> /\ pc[w] = "idle" /\ queue' = Tail(queue)
        /\ pc' = [pc EXCEPT ![w] = "send"] /\ work' = [work EXCEPT ![w] = Head(queue)]
        /\ UNCHANGED <<pushed, done>>
    BY <1>3 DEF TakeMessage
  <2>2. /\ Len(queue) \in Nat /\ DOMAIN queue = 1..Len(queue) /\ Len(queue) # 0
        /\ Head(queue) = queue[1] /\ DOMAIN queue' = 1..(Len(queue) - 1)
        /\ \A i \in DOMAIN queue' : queue'[i] = queue[i + 1]
    <3>1. Len(queue) # 0 /\ Head(queue) = queue[1]
      BY <2>1 DEF TypeOK
    <3>2. /\ Tail(queue) \in Seq(Message) /\ Len(Tail(queue)) = Len(queue) - 1
          /\ \A i \in 1..Len(Tail(queue)) : Tail(queue)[i] = queue[i + 1]
      BY <2>1, HeadTailProperties DEF TypeOK
    <3> QED
      BY <2>1, <3>1, <3>2, QueueItems, LenProperties
  <2>3. \A i, j \in DOMAIN queue : queue[i] = queue[j] => i = j
    BY DEF WithOneWorker
  <2>4. Queued' = Queued \ {Head(queue)} /\ Head(queue) \in Queued
    <3>1. 1 \in DOMAIN queue
      BY <2>2
    <3>2. \A i \in DOMAIN queue' : i + 1 \in DOMAIN queue /\ i + 1 # 1
      BY <2>2
    <3>3. \A i \in DOMAIN queue : i # 1 => i - 1 \in DOMAIN queue' /\ queue[i] = queue'[i - 1]
      BY <2>2
    <3>4. Queued' \subseteq Queued \ {Head(queue)}
      BY <2>2, <2>3, <3>1, <3>2 DEF Queued
    <3>5. Queued \ {Head(queue)} \subseteq Queued'
      BY <2>2, <3>3 DEF Queued
    <3> QED
      BY <2>2, <3>1, <3>4, <3>5 DEF Queued
  <2>5. InHand' = InHand \cup {Head(queue)}
    BY <1>0, <2>1 DEF InHand
  <2> QED
    BY <2>1, <2>4, <2>5 DEF NoneMislaid
<1>4. ASSUME NEW w \in Worker, Write(w) \/ WriteFails(w) \/ WriteKills(w) PROVE NoneMislaid'
  <2>1. UNCHANGED <<pushed, queue, work, done>>
    BY <1>4 DEF Write, WriteFails, WriteKills, Loop
  <2>2. \A v \in Worker : pc'[v] = "idle" <=> pc[v] = "idle"
    BY <1>0, <1>4 DEF Write, WriteFails, WriteKills, Loop
  <2> QED
    BY <1>1, <2>1, <2>2
<1>5. ASSUME NEW w \in Worker, Callbacks(w) PROVE NoneMislaid'
  <2>1. /\ pc[w] = "callbacks" /\ pc' = [pc EXCEPT ![w] = "idle"]
        /\ work' = [work EXCEPT ![w] = None] /\ done' = done \cup {work[w]}
        /\ UNCHANGED <<pushed, queue>>
    BY <1>5 DEF Callbacks
  <2>2. /\ \A v \in Worker : pc[v] # "idle" /\ work[v] = work[w] => v = w
        /\ work[w] \notin Queued
    BY <2>1 DEF WithOneWorker, Queued
  <2>3. InHand' = InHand \ {work[w]} /\ work[w] \in InHand
    BY <1>0, <2>1, <2>2 DEF InHand
  <2>4. Queued' = Queued
    BY <2>1 DEF Queued
  <2> QED
    BY <2>1, <2>2, <2>3, <2>4 DEF NoneMislaid
<1>6. ASSUME NEW s \in Session,
             \/ PeerReads(s) \/ ErrorIsRead(s)
             \/ \E how \in {"reset", "broken"} : PeerEnds(s, how)
      PROVE  NoneMislaid'
  BY <1>1, <1>6 DEF PeerReads, ErrorIsRead, PeerEnds
<1>7. CASE UNCHANGED vars
  BY <1>1, <1>7
<1> QED
  BY <1>2, <1>3, <1>4, <1>5, <1>6, <1>7 DEF Next, WorkerStep
-----------------------------------------------------------------------------
(* A worker leaves the loop with everything sent, or at the connection's    *)
(* end; a connection never opens again.                                     *)
LEMMA LeftWrite ==
  ASSUME TypeOK, WithOneWorker, LeftComplete, NEW w \in Worker, Write(w)
  PROVE  LeftComplete'
<1>0. PICK m \in Message : m = work[w]
  BY DEF Write, WithOneWorker, TypeOK
<1>1. PICK n \in 0..Unsent(m) : offset' = [offset EXCEPT ![m] = @ + n]
  BY <1>0 DEF Write, Accepted
<1>2. /\ offset[m] \in Nat /\ size[m] \in Nat /\ offset[m] <= size[m]
      /\ n \in Nat /\ offset'[m] = offset[m] + n /\ offset'[m] <= size[m]
      /\ offset[m] <= offset'[m]
      /\ \A x \in Message : x # m => offset'[x] = offset[x]
  <2>1. offset[m] \in Nat /\ size[m] \in Nat /\ offset[m] <= size[m]
    BY WriteAssumption DEF TypeOK
  <2> QED
    BY <1>1, <2>1 DEF Unsent, TypeOK
<1>3. \A x \in Message : offset[x] = size[x] => offset'[x] = size[x]
  BY <1>2
<1>4. UNCHANGED <<done, conn, work>> /\ done \subseteq Message
  BY DEF Write, TypeOK
<1>5. ASSUME NEW v \in Worker, pc'[v] = "callbacks"
      PROVE  offset'[work[v]] = size[work[v]] \/ conn[sessionOf[work[v]]] # "open"
  <2>1. CASE v = w
    <3>1. ~(offset'[m] < size[m])
      BY <1>0, <1>5, <2>1 DEF Write, Loop, TypeOK
    <3> QED
      BY <1>0, <1>2, <2>1, <3>1
  <2>2. CASE v # w
    <3>1. pc[v] = "callbacks"
      BY <1>5, <2>2 DEF Write, Loop, TypeOK
    <3>2. work[v] \in Message
      BY <3>1 DEF WithOneWorker, TypeOK
    <3> QED
      BY <1>3, <3>1, <3>2 DEF LeftComplete
  <2> QED
    BY <2>1, <2>2
<1>6. \A x \in done : offset'[x] = size[x] \/ conn[sessionOf[x]] # "open"
  BY <1>3, <1>4 DEF LeftComplete
<1> QED
  BY <1>4, <1>5, <1>6 DEF LeftComplete

LEMMA LeftStep ==
  ASSUME TypeOK, WithOneWorker, LeftComplete, [Next]_vars PROVE LeftComplete'
<1> USE DEF poolVars, socketVars, vars
<1>1. ASSUME NEW m \in Message, OnPushMessage(m) PROVE LeftComplete'
  BY <1>1 DEF OnPushMessage, LeftComplete
<1>2. ASSUME NEW w \in Worker, TakeMessage(w) PROVE LeftComplete'
  <2>1. UNCHANGED <<done, offset, conn>>
        /\ \A v \in Worker : pc'[v] = "callbacks" => pc[v] = "callbacks" /\ work'[v] = work[v]
    BY <1>2 DEF TakeMessage, TypeOK
  <2> QED
    BY <2>1 DEF LeftComplete
<1>3. ASSUME NEW w \in Worker, WriteFails(w) PROVE LeftComplete'
  <2>1. /\ UNCHANGED <<done, offset, work>> /\ conn[sessionOf[work[w]]] = "reset"
        /\ conn' = [conn EXCEPT ![sessionOf[work[w]]] = "broken"]
        /\ \A v \in Worker : v # w /\ pc'[v] = "callbacks" => pc[v] = "callbacks"
    BY <1>3 DEF WriteFails, Reported, TypeOK
  <2>2. \A s \in Session : conn[s] # "open" => conn'[s] # "open"
    BY <2>1 DEF TypeOK
  <2>3. \A m \in Message : sessionOf[m] \in Session
    BY WriteAssumption
  <2>4. \A v \in Worker : pc'[v] = "callbacks" => work[v] \in Message
    BY <1>3 DEF WriteFails, WithOneWorker, TypeOK
  <2>5. work[w] \in Message
    BY <1>3 DEF WriteFails, WithOneWorker, TypeOK
  <2>6. conn'[sessionOf[work[w]]] # "open"
    BY <2>1, <2>3, <2>5 DEF TypeOK
  <2> QED
    BY <2>1, <2>2, <2>3, <2>4, <2>6 DEF LeftComplete, TypeOK
<1>4. ASSUME NEW w \in Worker, WriteKills(w) PROVE LeftComplete'
  BY <1>4 DEF WriteKills, LeftComplete
<1>5. ASSUME NEW w \in Worker, Callbacks(w) PROVE LeftComplete'
  <2>1. /\ UNCHANGED <<offset, conn>> /\ done' = done \cup {work[w]} /\ pc[w] = "callbacks"
        /\ \A v \in Worker : pc'[v] = "callbacks" => pc[v] = "callbacks" /\ work'[v] = work[v]
    BY <1>5 DEF Callbacks, TypeOK
  <2> QED
    BY <2>1 DEF LeftComplete
<1>6. ASSUME NEW s \in Session,
             \/ PeerReads(s) \/ ErrorIsRead(s)
             \/ \E how \in {"reset", "broken"} : PeerEnds(s, how)
      PROVE  LeftComplete'
  <2>1. UNCHANGED <<pc, work, done, offset>>
    BY <1>6 DEF PeerReads, ErrorIsRead, PeerEnds
  <2>2. \A x \in Session : conn[x] # "open" => conn'[x] # "open"
    BY <1>6 DEF PeerReads, ErrorIsRead, PeerEnds, TypeOK
  <2>3. \A m \in Message : sessionOf[m] \in Session
    BY WriteAssumption
  <2>4. \A v \in Worker : pc[v] = "callbacks" => work[v] \in Message
    BY DEF WithOneWorker, TypeOK
  <2>5. done \subseteq Message
    BY DEF TypeOK
  <2> QED
    BY <2>1, <2>2, <2>3, <2>4, <2>5 DEF LeftComplete
<1>7. CASE UNCHANGED vars
  BY <1>7 DEF LeftComplete
<1> QED
  BY <1>1, <1>2, <1>3, <1>4, <1>5, <1>6, <1>7, LeftWrite DEF Next, WorkerStep

(* Two workers on one session are both on record.                           *)
LEMMA OverlapsStep ==
  ASSUME TypeOK, WithOneWorker, OverlapsNoted, [Next]_vars PROVE OverlapsNoted'
<1> USE DEF poolVars, socketVars, vars
<1>1. ASSUME NEW w \in Worker, TakeMessage(w) PROVE OverlapsNoted'
  <2> DEFINE m == Head(queue)
             Same == {v \in Worker : pc[v] = "send" /\ sessionOf[work[v]] = sessionOf[m]}
  <2>1. /\ pc[w] = "idle" /\ pc' = [pc EXCEPT ![w] = "send"] /\ work' = [work EXCEPT ![w] = m]
        /\ overlapped' = overlapped \cup
             IF Same = {} THEN {} ELSE {m} \cup {work[v] : v \in Same}
    BY <1>1 DEF TakeMessage
  <2> HIDE DEF m
  <2>2. \A v \in Worker : /\ v # w => pc'[v] = pc[v] /\ work'[v] = work[v]
                          /\ v = w => pc'[v] = "send" /\ work'[v] = m
    BY <2>1 DEF TypeOK
  <2>3. \A v \in Worker : v # w /\ pc[v] = "send" /\ sessionOf[work[v]] = sessionOf[m] =>
          v \in Same /\ m \in overlapped' /\ work[v] \in overlapped'
    BY <2>1
  <2>4. overlapped \subseteq overlapped'
    BY <2>1
  <2> HIDE DEF Same
  <2> QED
    BY <2>2, <2>3, <2>4 DEF OverlapsNoted
<1>2. ASSUME UNCHANGED <<work, overlapped>>,
             \A v \in Worker : pc'[v] = "send" => pc[v] = "send"
      PROVE  OverlapsNoted'
  BY <1>2 DEF OverlapsNoted
<1>3. ASSUME NEW m \in Message, OnPushMessage(m) PROVE OverlapsNoted'
  BY <1>2, <1>3 DEF OnPushMessage
<1>4. ASSUME NEW w \in Worker, Write(w) \/ WriteFails(w) \/ WriteKills(w)
      PROVE  OverlapsNoted'
  BY <1>2, <1>4 DEF Write, Loop, WriteFails, WriteKills, TypeOK
<1>5. ASSUME NEW w \in Worker, Callbacks(w) PROVE OverlapsNoted'
  <2>1. /\ UNCHANGED overlapped
        /\ \A v \in Worker : pc'[v] = "send" => pc[v] = "send" /\ work'[v] = work[v]
    BY <1>5 DEF Callbacks, TypeOK
  <2> QED
    BY <2>1 DEF OverlapsNoted
<1>6. ASSUME NEW s \in Session,
             \/ PeerReads(s) \/ ErrorIsRead(s)
             \/ \E how \in {"reset", "broken"} : PeerEnds(s, how)
      PROVE  OverlapsNoted'
  BY <1>2, <1>6 DEF PeerReads, ErrorIsRead, PeerEnds
<1>7. CASE UNCHANGED vars
  BY <1>2, <1>7
<1> QED
  BY <1>1, <1>3, <1>4, <1>5, <1>6, <1>7 DEF Next, WorkerStep
-----------------------------------------------------------------------------
(* The streams.                                                             *)
StreamInv == AnswerIsPrefix /\ MixedOnlyIfOverlapped /\ LastIsAlone

(* A step that writes nothing: a stream stays, or loses its end with its    *)
(* connection, and who begins to send has nothing in it.                    *)
LEMMA StreamsKeep ==
  ASSUME TypeOK, TypeOK', StreamInv, UNCHANGED offset, overlapped \subseteq overlapped',
         \A s \in Session :
           /\ Len(Stream(s)') <= Len(Stream(s))
           /\ \A i \in 1..Len(Stream(s)') : Stream(s)'[i] = Stream(s)[i]
           /\ conn'[s] = "open" => conn[s] = "open" /\ Stream(s)' = Stream(s),
         \A v \in Worker : pc'[v] = "send" =>
           /\ work'[v] \in Message
           /\ (pc[v] = "send" /\ work'[v] = work[v]) \/ offset[work'[v]] = 0
  PROVE  StreamInv'
<1>0. ASSUME NEW s \in Session PROVE Stream(s)' \in Seq(Unit)
  <2>1. received'[s] \in Seq(Unit) /\ buffer'[s] \in Seq(Unit)
    BY DEF TypeOK, Unit
  <2> QED
    BY <2>1, ConcatProperties DEF Stream
<1>1. ASSUME NEW s \in Session
      PROVE  /\ IsOwn(s, Stream(s))' /\ IsOrdered(Stream(s))' /\ HasNoGap(Stream(s))'
             /\ IsUnmixed(Stream(s))'
             /\ \A m : EndsStream(m, Stream(s)) => EndsStream(m, Stream(s)')
  <2>1. PICK st \in Seq(Unit) : st = Stream(s)
    BY TypesOfStreams
  <2>2. PICK pre \in Seq(Unit) : pre = Stream(s)'
    BY <1>0
  <2>3. Len(pre) <= Len(st) /\ \A i \in 1..Len(pre) : pre[i] = st[i]
    BY <2>1, <2>2
  <2>4. IsOwn(s, st) /\ IsOrdered(st) /\ HasNoGap(st) /\ IsUnmixed(st)
    BY <2>1 DEF StreamInv, AnswerIsPrefix, MixedOnlyIfOverlapped
  <2>5. /\ IsOwn(s, pre)' /\ IsOrdered(pre) /\ HasNoGap(pre) /\ IsUnmixed(pre)'
        /\ \A m : EndsStream(m, st) => EndsStream(m, pre)
    BY <2>3, <2>4, PrefixKeeps
  <2> QED
    BY <2>1, <2>2, <2>5 DEF IsOwn, IsOrdered, HasNoGap, IsUnmixed, EndsStream
<1>2. \A m \in Message : sessionOf[m] \in Session
  BY WriteAssumption
<1>3. ASSUME NEW m \in Message, conn'[sessionOf[m]] = "open", NEW k \in 1..offset'[m]
      PROVE  InStream(m, k)'
  <2>1. conn[sessionOf[m]] = "open" /\ Stream(sessionOf[m])' = Stream(sessionOf[m])
    BY <1>2, <1>3
  <2>2. InStream(m, k)
    BY <1>3, <2>1 DEF StreamInv, AnswerIsPrefix
  <2> QED
    BY <2>1, <2>2 DEF InStream
<1>4. LastIsAlone'
  <2> SUFFICES ASSUME NEW v \in Worker, pc'[v] = "send", work'[v] \notin overlapped'
               PROVE  EndsStream(work'[v], received'[sessionOf[work'[v]]]
                                             \o buffer'[sessionOf[work'[v]]])
    BY Zenon DEF LastIsAlone, Stream
  <2>1. PICK m \in Message : m = work'[v]
    OBVIOUS
  <2>2. PICK st : st = Stream(sessionOf[m])'
    OBVIOUS
  <2>3. sessionOf[m] \in Session /\ st \in Seq(Unit)
    BY <1>0, <1>2, <2>2
  <2>4. ASSUME pc[v] = "send", work[v] = m PROVE EndsStream(m, st)
    <3>1. EndsStream(m, Stream(sessionOf[m]))
      BY <2>1, <2>4 DEF StreamInv, LastIsAlone
    <3> QED
      BY <1>1, <2>2, <2>3, <3>1
  <2>5. ASSUME offset[m] = 0 PROVE EndsStream(m, st)
    <3>1. offset'[m] = 0
      BY <2>5
    <3>2. \A i \in DOMAIN st : st[i][2] <= offset'[st[i][1]]
      BY <1>1, <2>2, <2>3 DEF IsOwn
    <3>3. \A i \in DOMAIN st : st[i][1] # m
      BY <2>3, <3>1, <3>2, SeqOfUnits
    <3> QED
      BY <3>3 DEF EndsStream
  <2>6. EndsStream(m, st)
    BY <2>1, <2>4, <2>5
  <2> QED
    BY <2>1, <2>2, <2>6 DEF Stream
<1>5. MixedOnlyIfOverlapped'
  BY <1>1 DEF MixedOnlyIfOverlapped
<1>6. AnswerIsPrefix'
  BY <1>1, <1>3 DEF AnswerIsPrefix
<1> QED
  BY <1>4, <1>5, <1>6 DEF StreamInv

(* The steps that write nothing.                                            *)
LEMMA StreamOthers ==
  ASSUME TypeOK, TypeOK', WithOneWorker, StreamInv,
         \/ \E m \in Message : OnPushMessage(m)
         \/ \E w \in Worker : TakeMessage(w) \/ WriteFails(w) \/ WriteKills(w) \/ Callbacks(w)
         \/ \E s \in Session : ErrorIsRead(s)
         \/ UNCHANGED vars
  PROVE  StreamInv'
<1> USE DEF poolVars, socketVars, vars
<1>1. UNCHANGED <<buffer, received, offset>>
  BY DEF OnPushMessage, TakeMessage, WriteFails, WriteKills, Callbacks, ErrorIsRead
<1>2. overlapped \subseteq overlapped'
  BY DEF OnPushMessage, TakeMessage, WriteFails, WriteKills, Callbacks, ErrorIsRead
<1>3. \A s \in Session : conn'[s] = "open" => conn[s] = "open"
  BY DEF OnPushMessage, TakeMessage, WriteFails, WriteKills, Callbacks, ErrorIsRead,
         Reported, TypeOK
<1>4. ASSUME NEW v \in Worker, pc'[v] = "send"
      PROVE  /\ work'[v] \in Message
             /\ (pc[v] = "send" /\ work'[v] = work[v]) \/ offset[work'[v]] = 0
  <2>1. ASSUME NEW w \in Worker, TakeMessage(w)
        PROVE  (pc[v] = "send" /\ work'[v] = work[v]) \/ offset[work'[v]] = 0
    <3>1. /\ queue # <<>> /\ pc' = [pc EXCEPT ![w] = "send"]
          /\ work' = [work EXCEPT ![w] = Head(queue)]
      BY <2>1 DEF TakeMessage
    <3>2. Len(queue) # 0 /\ Head(queue) = queue[1]
      BY <3>1 DEF TypeOK
    <3>3. 1 \in DOMAIN queue
      BY <3>2, QueueItems
    <3>4. offset[Head(queue)] = 0
      BY <3>2, <3>3 DEF WithOneWorker
    <3> QED
      BY <1>4, <3>1, <3>4 DEF TypeOK
  <2>2. ASSUME NEW w \in Worker, WriteFails(w) \/ WriteKills(w) \/ Callbacks(w)
        PROVE  pc[v] = "send" /\ work'[v] = work[v]
    BY <1>4, <2>2 DEF WriteFails, WriteKills, Callbacks, TypeOK
  <2>3. (\E m \in Message : OnPushMessage(m)) \/ (\E s \in Session : ErrorIsRead(s))
          \/ UNCHANGED vars => pc[v] = "send" /\ work'[v] = work[v]
    BY <1>4 DEF OnPushMessage, ErrorIsRead
  <2>4. (pc[v] = "send" /\ work'[v] = work[v]) \/ offset[work'[v]] = 0
    BY <2>1, <2>2, <2>3
  <2>5. work'[v] \in Message
    <3>1. CASE pc[v] = "send" /\ work'[v] = work[v]
      BY <3>1 DEF WithOneWorker, TypeOK
    <3>2. ASSUME NEW w \in Worker, TakeMessage(w), v = w PROVE work'[v] \in Message
      <4>1. Head(queue) \in Message
        BY <3>2, HeadTailProperties DEF TakeMessage, TypeOK
      <4> QED
        BY <3>2, <4>1 DEF TakeMessage, TypeOK
    <3>3. ASSUME NEW w \in Worker, TakeMessage(w), v # w
          PROVE  pc[v] = "send" /\ work'[v] = work[v]
      BY <1>4, <3>3 DEF TakeMessage, TypeOK
    <3> QED
      BY <2>2, <2>3, <3>1, <3>2, <3>3
  <2> QED
    BY <2>4, <2>5
<1>5. ASSUME NEW s \in Session
      PROVE  /\ Len(Stream(s)') <= Len(Stream(s))
             /\ \A i \in 1..Len(Stream(s)') : Stream(s)'[i] = Stream(s)[i]
             /\ conn'[s] = "open" => conn[s] = "open" /\ Stream(s)' = Stream(s)
  <2>1. Stream(s)' = Stream(s) /\ Len(Stream(s)) \in Nat
    BY <1>1, TypesOfStreams, LenProperties DEF Stream
  <2> QED
    BY <1>3, <2>1
<1> QED
  BY <1>1, <1>2, <1>4, <1>5, StreamsKeep

(* Reading moves the boundary between received and buffer; an end of the    *)
(* connection empties the buffer.                                           *)
LEMMA StreamPeer ==
  ASSUME TypeOK, TypeOK', WithOneWorker, StreamInv, NEW s \in Session,
         PeerReads(s) \/ \E how \in {"reset", "broken"} : PeerEnds(s, how)
  PROVE  StreamInv'
<1>1. UNCHANGED <<offset, overlapped, pc, work>>
  BY DEF PeerReads, PeerEnds, poolVars
<1>2. \A v \in Worker : pc[v] = "send" => work[v] \in Message
  BY DEF WithOneWorker, TypeOK
<1>3. ASSUME NEW x \in Session, x # s
      PROVE  Stream(x)' = Stream(x) /\ conn'[x] = conn[x]
  <2>1. buffer'[x] = buffer[x] /\ received'[x] = received[x] /\ conn'[x] = conn[x]
    BY <1>3 DEF PeerReads, PeerEnds, TypeOK
  <2> QED
    BY <2>1 DEF Stream
<1>4. ASSUME PeerReads(s) PROVE Stream(s)' = Stream(s) /\ conn'[s] = conn[s]
  <2>1. PICK a \in Seq(Unit), b \in Seq(Unit) : a = received[s] /\ b = buffer[s]
    BY TypesOfStreams
  <2>2. b # <<>> /\ received'[s] = Append(a, Head(b)) /\ buffer'[s] = Tail(b)
        /\ conn' = conn
    BY <1>4, <2>1 DEF PeerReads, TypeOK
  <2>3. Append(a, Head(b)) \o Tail(b) = a \o b
    BY <2>2, Drained
  <2> QED
    BY <2>1, <2>2, <2>3 DEF Stream
<1>5. ASSUME NEW how \in {"reset", "broken"}, PeerEnds(s, how)
      PROVE  /\ conn'[s] # "open" /\ Len(Stream(s)') <= Len(Stream(s))
             /\ \A i \in 1..Len(Stream(s)') : Stream(s)'[i] = Stream(s)[i]
  <2>1. PICK a \in Seq(Unit), b \in Seq(Unit) : a = received[s] /\ b = buffer[s]
    BY TypesOfStreams
  <2>2. /\ conn'[s] = how /\ received'[s] = a /\ buffer'[s] = <<>>
    BY <1>5, <2>1 DEF PeerEnds, TypeOK
  <2>3. a \o <<>> = a
    BY ConcatEmptySeq
  <2>4. /\ Len(a) \in Nat /\ Len(b) \in Nat /\ Len(a \o b) = Len(a) + Len(b)
        /\ \A i \in 1 .. Len(a) + Len(b) : (a \o b)[i] = IF i <= Len(a) THEN a[i] ELSE b[i - Len(a)]
    BY ConcatProperties, LenProperties
  <2>5. Stream(s)' = a /\ Stream(s) = a \o b
    BY <2>1, <2>2, <2>3 DEF Stream
  <2>6. Len(a) <= Len(a \o b) /\ \A i \in 1..Len(a) : a[i] = (a \o b)[i]
    BY <2>4
  <2> QED
    BY <2>2, <2>5, <2>6
<1>6. ASSUME NEW x \in Session
      PROVE  /\ Len(Stream(x)') <= Len(Stream(x))
             /\ \A i \in 1..Len(Stream(x)') : Stream(x)'[i] = Stream(x)[i]
             /\ conn'[x] = "open" => conn[x] = "open" /\ Stream(x)' = Stream(x)
  <2>1. Len(Stream(x)) \in Nat
    BY TypesOfStreams, LenProperties
  <2>2. ASSUME Stream(x)' = Stream(x), conn'[x] = conn[x]
        PROVE  /\ Len(Stream(x)') <= Len(Stream(x))
               /\ \A i \in 1..Len(Stream(x)') : Stream(x)'[i] = Stream(x)[i]
               /\ conn'[x] = "open" => conn[x] = "open" /\ Stream(x)' = Stream(x)
    BY <2>1, <2>2
  <2> QED
    BY <1>3, <1>4, <1>5, <2>2
<1> QED
  BY <1>1, <1>2, <1>6, StreamsKeep

(* What comes behind what is in the buffer comes behind the whole stream.   *)
LEMMA AddedBehind ==
  ASSUME NEW a \in Seq(Unit), NEW b \in Seq(Unit), NEW c \in Seq(Unit)
  PROVE  a \o (b \o c) = (a \o b) \o c
BY ConcatAssociative

(* A write adds the next units of an answer whose connection is open.       *)
LEMMA StreamWrite ==
  ASSUME TypeOK, TypeOK', WithOneWorker, OverlapsNoted, StreamInv,
         NEW w \in Worker, Write(w)
  PROVE  StreamInv'
<1>1. PICK m \in Message : m = work[w]
  BY DEF Write, WithOneWorker, TypeOK
<1>2. PICK s \in Session : s = sessionOf[m]
  BY WriteAssumption
<1>3. /\ pc[w] = "send" /\ conn[s] = "open"
      /\ UNCHANGED <<work, overlapped, received, conn>>
      /\ \A v \in Worker : pc'[v] = "send" => pc[v] = "send"
  BY <1>1, <1>2 DEF Write, Loop, TypeOK
<1>4. PICK n \in Nat : /\ buffer' = [buffer EXCEPT ![s] = @ \o Chunk(m, offset[m], n)]
                       /\ offset' = [offset EXCEPT ![m] = @ + n]
  <2>1. offset[m] \in Nat /\ size[m] \in Nat
    BY WriteAssumption DEF TypeOK
  <2>2. PICK n \in 0..Unsent(m) : /\ buffer' = [buffer EXCEPT ![s] = @ \o Chunk(m, offset[m], n)]
                                  /\ offset' = [offset EXCEPT ![m] = @ + n]
    BY <1>1, <1>2 DEF Write, Accepted, FromOffset
  <2>3. n \in Nat
    BY <2>1, <2>2 DEF Unsent
  <2> QED
    BY <2>2, <2>3
<1>5. /\ offset \in [Message -> Nat] /\ offset[m] \in Nat
      /\ \A x \in Message : x # m => offset'[x] = offset[x]
      /\ \A x \in Message : sessionOf[x] \in Session
  BY <1>4, WriteAssumption DEF TypeOK
<1>6. PICK st \in Seq(Unit) : st = Stream(s)
  BY TypesOfStreams
<1>7. PICK new \in Seq(Unit) : new = Stream(s)' /\ Extends(new, st, m, offset[m], n)
  <2>1. PICK a \in Seq(Unit), b \in Seq(Unit) : a = received[s] /\ b = buffer[s]
    BY TypesOfStreams
  <2>2. PICK c \in Seq(Unit) : c = Chunk(m, offset[m], n)
    BY <1>5, ChunkOfUnits
  <2>3. received'[s] = a /\ buffer'[s] = b \o c
    BY <1>3, <1>4, <2>1, <2>2 DEF TypeOK
  <2>4. /\ a \o (b \o c) = (a \o b) \o c
        /\ a \o b \in Seq(Unit) /\ (a \o b) \o c \in Seq(Unit)
    <3>1. a \o b \in Seq(Unit)
      BY ConcatProperties
    <3>2. (a \o b) \o c \in Seq(Unit)
      BY <3>1, ConcatProperties
    <3>3. a \o (b \o c) = (a \o b) \o c
      BY AddedBehind
    <3> QED
      BY <3>1, <3>2, <3>3
  <2>5. Stream(s)' = st \o c /\ st \o c \in Seq(Unit)
    BY <1>6, <2>1, <2>3, <2>4 DEF Stream
  <2>6. PICK new \in Seq(Unit) : new = Stream(s)' /\ new = st \o Chunk(m, offset[m], n)
    BY <2>2, <2>5
  <2>7. Extends(new, st, m, offset[m], n)
    BY <1>5, <2>6, Extended
  <2> QED
    BY <2>6, <2>7
<1>8. \A x \in Session : x # s => Stream(x)' = Stream(x)
  BY <1>3, <1>4 DEF Stream, TypeOK
<1>9. IsOwn(s, st) /\ IsOrdered(st) /\ HasNoGap(st) /\ IsUnmixed(st)
  BY <1>6 DEF StreamInv, AnswerIsPrefix, MixedOnlyIfOverlapped
<1>10. \A k \in 1..offset[m] : \E i \in DOMAIN st : st[i] = <<m, k>>
  BY <1>2, <1>3, <1>6 DEF StreamInv, AnswerIsPrefix, InStream
<1>11. /\ IsOwn(s, new)' /\ IsOrdered(new) /\ HasNoGap(new)
       /\ \A k \in 1..offset'[m] : \E i \in DOMAIN new : new[i] = <<m, k>>
  <2>1. /\ offset \in [Message -> Nat] /\ offset' = [offset EXCEPT ![m] = @ + n]
        /\ s = sessionOf[m] /\ Extends(new, st, m, offset[m], n)
        /\ IsOwn(s, st) /\ IsOrdered(st) /\ HasNoGap(st)
    BY <1>2, <1>4, <1>5, <1>7, <1>9, Zenon
  <2>2. IsOwn(s, new)'
    BY <1>10, <2>1, ExtendKeeps, Zenon
  <2>3. IsOrdered(new)
    BY <1>10, <2>1, ExtendKeeps, Zenon
  <2>4. HasNoGap(new)
    BY <1>10, <2>1, ExtendKeeps, Zenon
  <2>5. HasFirst(new, m, offset'[m])
    BY <1>10, <2>1, ExtendKeeps, Zenon
  <2> QED
    BY <2>2, <2>3, <2>4, <2>5 DEF HasFirst
<1>12. m \in overlapped \/ EndsStream(m, st)
  BY <1>1, <1>2, <1>3, <1>6 DEF StreamInv, LastIsAlone
<1>13. IsUnmixed(new)' /\ (m \in overlapped \/ EndsStream(m, new))
  BY <1>3, <1>5, <1>7, <1>9, <1>12, ExtendUnmixed
<1>14. AnswerIsPrefix'
  <2>1. ASSUME NEW x \in Session
        PROVE  IsOwn(x, Stream(x))' /\ IsOrdered(Stream(x))' /\ HasNoGap(Stream(x))'
    <3>1. CASE x = s
      BY <1>7, <1>11, <3>1 DEF IsOwn, IsOrdered, HasNoGap
    <3>2. CASE x # s
      <4>1. PICK old \in Seq(Unit) : old = Stream(x)
        BY TypesOfStreams
      <4>2. IsOwn(x, old) /\ IsOrdered(old) /\ HasNoGap(old)
        BY <4>1 DEF StreamInv, AnswerIsPrefix
      <4>3. \A i \in DOMAIN old : old[i][1] \in Message /\ old[i][1] # m
        BY <1>2, <3>2, <4>2, SeqOfUnits DEF IsOwn
      <4>4. IsOwn(x, old)'
        BY <1>5, <4>2, <4>3 DEF IsOwn
      <4> QED
        <5>1. Stream(x)' = old
          BY <1>8, <3>2, <4>1
        <5>2. IsOwn(x, Stream(x))'
          BY <4>4, <5>1 DEF IsOwn
        <5>3. IsOrdered(Stream(x))' /\ HasNoGap(Stream(x))'
          BY <4>2, <5>1 DEF IsOrdered, HasNoGap
        <5> QED
          BY <5>2, <5>3
    <3> QED
      BY <3>1, <3>2
  <2>2. ASSUME NEW x \in Message, conn'[sessionOf[x]] = "open", NEW k \in 1..offset'[x]
        PROVE  InStream(x, k)'
    <3>1. CASE x = m
      BY <1>2, <1>7, <1>11, <2>2, <3>1 DEF InStream
    <3>2. CASE x # m
      <4>1. InStream(x, k)
        BY <1>3, <1>5, <2>2, <3>2 DEF StreamInv, AnswerIsPrefix
      <4>2. CASE sessionOf[x] = s
        <5>1. \A i \in DOMAIN st : i \in DOMAIN new /\ new[i] = st[i]
          BY <1>7 DEF Extends
        <5> QED
          BY <1>6, <1>7, <4>1, <4>2, <5>1 DEF InStream
      <4>3. CASE sessionOf[x] # s
        BY <1>5, <1>8, <4>1, <4>3 DEF InStream
      <4> QED
        BY <4>2, <4>3
    <3> QED
      BY <3>1, <3>2
  <2> QED
    BY <2>1, <2>2 DEF AnswerIsPrefix
<1>15. MixedOnlyIfOverlapped'
  <2> SUFFICES ASSUME NEW x \in Session PROVE IsUnmixed(Stream(x))'
    BY DEF MixedOnlyIfOverlapped
  <2>1. CASE x = s
    BY <1>7, <1>13, <2>1 DEF IsUnmixed
  <2>2. CASE x # s
    <3>1. IsUnmixed(Stream(x))
      BY DEF StreamInv, MixedOnlyIfOverlapped
    <3> QED
      BY <1>3, <1>8, <2>2, <3>1 DEF IsUnmixed
  <2> QED
    BY <2>1, <2>2
<1>16. LastIsAlone'
  <2> SUFFICES ASSUME NEW v \in Worker, pc'[v] = "send", work'[v] \notin overlapped'
               PROVE  EndsStream(work'[v], received'[sessionOf[work'[v]]]
                                             \o buffer'[sessionOf[work'[v]]])
    BY Zenon DEF LastIsAlone, Stream
  <2>1. PICK x \in Message : x = work[v]
    BY <1>3 DEF WithOneWorker, TypeOK
  <2>2. pc[v] = "send" /\ x \notin overlapped /\ work'[v] = x
    BY <1>3, <2>1
  <2>3. ASSUME v = w PROVE EndsStream(x, Stream(sessionOf[x])')
    BY <1>1, <1>2, <1>7, <1>13, <2>1, <2>2, <2>3
  <2>4. ASSUME v # w PROVE EndsStream(x, Stream(sessionOf[x])')
    <3>1. sessionOf[x] # s
      BY <1>1, <1>2, <1>3, <2>1, <2>2, <2>4 DEF OverlapsNoted
    <3>2. EndsStream(x, Stream(sessionOf[x]))
      BY <2>1, <2>2 DEF StreamInv, LastIsAlone
    <3> QED
      BY <1>5, <1>8, <3>1, <3>2
  <2>5. EndsStream(x, Stream(sessionOf[x])')
    BY <2>3, <2>4
  <2> QED
    BY <2>2, <2>5 DEF Stream
<1> QED
  BY <1>14, <1>15, <1>16 DEF StreamInv

LEMMA StreamStep ==
  ASSUME TypeOK, TypeOK', WithOneWorker, OverlapsNoted, StreamInv, [Next]_vars
  PROVE  StreamInv'
<1>1. ASSUME NEW w \in Worker, WorkerStep(w) PROVE StreamInv'
  BY <1>1, StreamWrite, StreamOthers DEF WorkerStep
<1>2. ASSUME NEW s \in Session,
             \/ PeerReads(s) \/ ErrorIsRead(s)
             \/ \E how \in {"reset", "broken"} : PeerEnds(s, how)
      PROVE  StreamInv'
  BY <1>2, StreamPeer, StreamOthers
<1>3. CASE (\E m \in Message : OnPushMessage(m)) \/ UNCHANGED vars
  BY <1>3, StreamOthers
<1> QED
  BY <1>1, <1>2, <1>3 DEF Next
-----------------------------------------------------------------------------
(* Who gave up met an error, and so did whoever was killed.                 *)
Reasons ==
  /\ \A m \in cut : conn[sessionOf[m]] = "broken"
  /\ killed => \E s \in Session : conn[s] = "broken"

LEMMA ReasonsStep ==
  ASSUME TypeOK, WithOneWorker, Reasons, [Next]_vars PROVE Reasons'
<1> USE DEF poolVars, socketVars, vars
<1>1. /\ \A m \in Message : sessionOf[m] \in Session
      /\ \A w \in Worker : pc[w] # "idle" => work[w] \in Message
  BY WriteAssumption DEF WithOneWorker, TypeOK
<1>2. ASSUME \A s \in Session : conn[s] = "broken" => conn'[s] = "broken", UNCHANGED <<cut, killed>>
      PROVE  Reasons'
  <2>1. \A m \in cut : m \in Message
    BY DEF TypeOK
  <2> QED
    BY <1>1, <1>2, <2>1 DEF Reasons
<1>3. ASSUME NEW w \in Worker, WriteFails(w) PROVE Reasons'
  <2>1. PICK s \in Session : s = sessionOf[work[w]]
    BY <1>1, <1>3 DEF WriteFails
  <2>2. /\ conn' = [conn EXCEPT ![s] = "broken"] /\ cut' = cut \cup {work[w]}
        /\ UNCHANGED killed
    BY <1>3, <2>1 DEF WriteFails, Reported
  <2>3. conn'[s] = "broken" /\ \A x \in Session : conn[x] = "broken" => conn'[x] = "broken"
    BY <2>2 DEF TypeOK
  <2>4. \A m \in cut : m \in Message
    BY DEF TypeOK
  <2> QED
    BY <1>1, <2>1, <2>2, <2>3, <2>4 DEF Reasons
<1>4. ASSUME NEW w \in Worker, WriteKills(w) PROVE Reasons'
  BY <1>1, <1>4 DEF WriteKills, Reasons
<1>5. ASSUME NEW w \in Worker, TakeMessage(w) \/ Write(w) \/ Callbacks(w) PROVE Reasons'
  BY <1>2, <1>5 DEF TakeMessage, Write, Callbacks
<1>6. ASSUME NEW s \in Session,
             \/ PeerReads(s) \/ ErrorIsRead(s)
             \/ \E how \in {"reset", "broken"} : PeerEnds(s, how)
      PROVE  Reasons'
  BY <1>2, <1>6 DEF PeerReads, ErrorIsRead, PeerEnds, TypeOK
<1>7. CASE (\E m \in Message : OnPushMessage(m)) \/ UNCHANGED vars
  BY <1>2, <1>7 DEF OnPushMessage
<1> QED
  BY <1>3, <1>4, <1>5, <1>6, <1>7 DEF Next, WorkerStep

(* Nothing is sent in the beginning.                                        *)
LEMMA WriteInit ==
  ASSUME Init
  PROVE  /\ TypeOK /\ WithOneWorker /\ NoneMislaid /\ LeftComplete /\ OverlapsNoted
         /\ StreamInv /\ Reasons
<1>1. \A S : <<>> \in Seq(S) /\ Len(<<>>) = 0 /\ DOMAIN <<>> = {}
  BY EmptySeq, LenProperties
<1>2. TypeOK
  <2>1. <<>> \in Seq(Message) /\ <<>> \in Seq(Message \X (Nat \ {0})) /\ Len(<<>>) = 0
    BY <1>1
  <2>2. \A s \in Session : SendBuffer[s] \in Nat /\ 0 <= SendBuffer[s]
    BY WriteAssumption
  <2>3. \A m \in Message : size[m] \in Nat /\ 0 <= size[m]
    BY WriteAssumption
  <2> QED
    BY <2>1, <2>2, <2>3 DEF Init, TypeOK
<1>3. WithOneWorker /\ LeftComplete /\ OverlapsNoted /\ Reasons
  BY <1>1 DEF Init, WithOneWorker, LeftComplete, OverlapsNoted, Reasons
<1>8. NoneMislaid
  BY <1>1 DEF Init, NoneMislaid, Queued, InHand
<1>4. \A s \in Session : Stream(s) = <<>>
  <2>1. <<>> \o <<>> = <<>>
    BY <1>1, ConcatEmptySeq
  <2> QED
    BY <2>1 DEF Init, Stream
<1>5. \A s \in Session : \A i \in DOMAIN Stream(s) : FALSE
  BY <1>1, <1>4
<1>6. MixedOnlyIfOverlapped /\ LastIsAlone
  BY <1>5 DEF MixedOnlyIfOverlapped, IsUnmixed, LastIsAlone, Init
<1>7. AnswerIsPrefix
  BY <1>5 DEF AnswerIsPrefix, IsOwn, IsOrdered, HasNoGap, Init
<1> QED
  BY <1>2, <1>3, <1>6, <1>7, <1>8 DEF StreamInv

(* The inductive invariant of the way back: types, one worker for each      *)
(* context, and what stands in the streams.                                 *)
THEOREM WriteInvariant == Spec => []WriteInv
<1> DEFINE Ind == /\ TypeOK /\ WithOneWorker /\ NoneMislaid /\ LeftComplete /\ OverlapsNoted
                  /\ StreamInv /\ Reasons
<1>1. Init => Ind
  BY WriteInit
<1>2. Ind /\ [Next]_vars => Ind'
  BY TypeStep, OneWorkerStep, MislaidStep, LeftStep, OverlapsStep, StreamStep, ReasonsStep
<1>3. Ind => WriteInv
  <2> SUFFICES ASSUME Ind PROVE WriteInv
    OBVIOUS
  <2>1. ASSUME NEW m \in done, conn[sessionOf[m]] = "open", NEW k \in 1..size[m]
        PROVE  InStream(m, k)
    <3>1. m \in Message /\ offset[m] = size[m]
      BY <2>1 DEF LeftComplete, TypeOK
    <3> QED
      BY <2>1, <3>1 DEF StreamInv, AnswerIsPrefix
  <2>2. CutOnlyByEnd
    BY <2>1 DEF CutOnlyByEnd, Reasons
  <2> QED
    BY <2>2 DEF WriteInv, AnswerInv, StreamInv
<1> QED
  BY <1>1, <1>2, <1>3, PTL DEF Spec

(* However the socket cuts the writes up, and whoever else writes to it, a  *)
(* peer gets each answer's units in order, once and from the first on; and  *)
(* no context is mislaid on the way, or handled twice.                      *)
THEOREM AnswersArePrefixes == Spec => []AnswerInv
<1>1. WriteInv => AnswerInv
  BY DEF WriteInv
<1> QED
  BY <1>1, WriteInvariant, PTL

(* A full send buffer cuts no answer short; only a connection's end does.   *)
THEOREM OnlyEndsCut == Spec => []CutOnlyByEnd
<1>1. WriteInv => CutOnlyByEnd
  BY DEF WriteInv
<1> QED
  BY <1>1, WriteInvariant, PTL

(* Two answers mix only if two workers were sending to the session at once. *)
THEOREM OnlyOverlapsMix == Spec => []MixedOnlyIfOverlapped
<1>1. WriteInv => MixedOnlyIfOverlapped
  BY DEF WriteInv
<1> QED
  BY <1>1, WriteInvariant, PTL
=============================================================================
