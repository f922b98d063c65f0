-------------------------- MODULE DataPacketProofs --------------------------
(***************************************************************************)
(* DataPacket for every MAXSIZE, every int and every sequence of calls with *)
(* every size: the bytes handed to the service are the stream's, a packet   *)
(* throws only for a size that int has no room for or that is negative, and *)
(* leaves its block only when it is spoilt or misused.                      *)
(***************************************************************************)
EXTENDS DataPacket, TLAPS

(* What new[] and the first memcpy leave in the block.                      *)
LEMMA NewBlockKeepsData ==
  ASSUME data \in [0..(block - 1) -> Int], block \in Nat, length \in Nat,
         NEW n \in Nat, length <= block, length <= n
  PROVE  /\ NewBlock(n, length) \in [0..(n - 1) -> Int]
         /\ \A i \in 0..(length - 1) : NewBlock(n, length)[i] = data[i]
BY DEF NewBlock, Garbage

(* The facts about one state that the steps below use.                      *)
LEMMA Facts ==
  ASSUME PacketIInv
  PROVE  /\ MAXSIZE \in Nat /\ MAXSIZE > 0 /\ IntMax \in Nat /\ MAXSIZE <= IntMax
         /\ block \in Nat /\ block <= IntMax
         /\ data \in [0..(block - 1) -> Int]
         /\ capacity \in Nat /\ capacity <= IntMax
         /\ length \in Nat /\ length <= capacity /\ capacity - length <= MAXSIZE
         /\ put \in Nat \cup {Unknown}
         /\ put # Unknown => capacity <= block
         /\ Sizes \subseteq Int /\ culprit.size \in Int
BY PacketAssumption DEF PacketIInv, PacketInv

LEMMA PacketInit == Init => PacketIInv
<1> SUFFICES ASSUME Init PROVE PacketIInv
  OBVIOUS
<1>1. /\ MAXSIZE \in Nat /\ MAXSIZE > 0 /\ IntMax \in Nat /\ MAXSIZE <= IntMax
      /\ block = MAXSIZE /\ capacity = MAXSIZE /\ length = 0 /\ put = 0
      /\ data = [i \in 0..(MAXSIZE - 1) |-> Garbage]
  BY PacketAssumption DEF Init
<1>2. status = "ok" /\ culprit.size = 0
  BY DEF Init
<1>3. PacketInv
  BY <1>1, <1>2 DEF PacketInv, Garbage
<1>4. DataIsStream
  BY <1>1 DEF DataIsStream
<1>5. FailsOnlyWhenFull /\ OverrunsOnlyIfMisused
  BY <1>2 DEF FailsOnlyWhenFull, OverrunsOnlyIfMisused
<1> QED
  BY <1>3, <1>4, <1>5 DEF PacketIInv

(* A call that stops the packet leaves its contents alone, and is covered   *)
(* by what the two exceptional properties say of it.                        *)
LEMMA StopKeeps ==
  ASSUME PacketIInv, NEW how \in {"threw", "aborted", "undefined"},
         NEW call, NEW size \in Int, Stop(how, call, size),
         how = "threw" =>
           \/ call = "PushBack" /\ length > IntMax - 2 * MAXSIZE
           \/ call = "CapacityExpand" /\ length + MAXSIZE + size > IntMax
           \/ call \in {"CapacityExpand", "CopyFromArray"} /\ size < 0,
         how = "undefined" =>
           \/ put = Unknown \/ size < 0
           \/ call = "CopyToArray" /\ size > length
  PROVE  PacketIInv'
<1>0. culprit'.call = call /\ culprit'.size = size
  BY DEF Stop
<1>1. PacketInv' /\ DataIsStream'
  BY <1>0 DEF PacketIInv, PacketInv, DataIsStream, Stop
<1>2. FailsOnlyWhenFull' /\ OverrunsOnlyIfMisused'
  BY <1>0 DEF FailsOnlyWhenFull, OverrunsOnlyIfMisused, Stop
<1> QED
  BY <1>1, <1>2 DEF PacketIInv

(* Nothing is copied beyond a block that holds what capacity_ says, unless  *)
(* it is asked for.                                                         *)
LEMMA StaysInside ==
  ASSUME PacketIInv
  PROVE  /\ ~Inside(length, block) => put = Unknown
         /\ \A size \in Int :
              /\ ~MustExpand(size) /\ ~Inside(size, block - length) =>
                   put = Unknown \/ size < 0
              /\ ~Inside(size, block) => put = Unknown \/ size < 0 \/ size > length
BY Facts DEF MustExpand, Inside

(* Bytes written behind length_ in a block that has room for them and holds *)
(* the old contents continue the stream, whichever block it is.             *)
LEMMA Appended ==
  ASSUME PacketIInv, status = "ok", NEW size \in Nat,
         NEW n \in Nat, n <= IntMax, length + size <= n,
         NEW old \in [0..(n - 1) -> Int], \A i \in 0..(length - 1) : old[i] = data[i],
         data' = Write(old, length, length, size), block' = n,
         length' = length + size, PutMore(size), status' = "ok",
         capacity' \in Nat, capacity' <= IntMax, length' <= capacity',
         capacity' - length' <= MAXSIZE, put # Unknown => capacity' <= n,
         culprit' = culprit
  PROVE  PacketIInv'
<1>1. length \in Nat /\ n \in Nat /\ size \in Nat
  BY Facts
<1>2. /\ data' \in [0..(n - 1) -> Int]
      /\ \A i \in 0..(n - 1) :
           data'[i] = IF i \in length..(length + size - 1)
                      THEN length + (i - length) ELSE old[i]
  BY <1>1 DEF Write
<1>3. put' = IF put = Unknown THEN Unknown ELSE put + size
  BY DEF PutMore
<1>4. put' \in Nat \cup {Unknown} /\ (put' # Unknown => capacity' <= block')
  <2>1. CASE put = Unknown
    BY <1>3, <2>1
  <2>2. CASE put \in Nat /\ put # Unknown
    BY <1>1, <1>3, <2>2
  <2> QED
    BY <2>1, <2>2, Facts
<1>5. PacketInv'
  BY <1>1, <1>2, <1>4, Facts DEF PacketInv
<1>6. DataIsStream'
  <2> SUFFICES ASSUME put' # Unknown
               PROVE  /\ length' = put'
                      /\ \A i \in 0..(length' - 1) : i \in DOMAIN data' /\ data'[i] = i
    BY DEF DataIsStream
  <2>1. put # Unknown /\ length = put /\ \A i \in 0..(length - 1) : old[i] = i
    BY <1>3 DEF PacketIInv, DataIsStream
  <2>2. ASSUME NEW i \in 0..(length' - 1) PROVE i \in DOMAIN data' /\ data'[i] = i
    <3>1. i \in 0..(n - 1) /\ i \in DOMAIN data'
      BY <1>1, <1>2, Facts
    <3>2. CASE i < length
      BY <1>1, <1>2, <2>1, <3>1, <3>2
    <3>3. CASE i >= length
      BY <1>1, <1>2, <3>1, <3>3
    <3> QED
      BY <3>1, <3>2, <3>3, Facts, SMTT(30)
  <2>3. length' = put'
    BY <1>3, <2>1
  <2> QED
    BY <2>2, <2>3
<1> QED
  BY <1>5, <1>6 DEF PacketIInv, FailsOnlyWhenFull, OverrunsOnlyIfMisused

LEMMA PushBackKeeps ==
  ASSUME PacketIInv, status = "ok", NEW size \in Int, PushBack(size)
  PROVE  PacketIInv'
<1>2. CASE PushBackFits(size)
  <2>1. /\ length + size <= block /\ length + size <= capacity /\ size \in Nat
        /\ data' = Write(data, length, length, size) /\ length' = length + size
        /\ block' = block /\ capacity' = capacity /\ status' = "ok" /\ PutMore(size)
        /\ culprit' = culprit
    BY <1>2, Facts DEF PushBackFits, MustExpand, Inside
  <2>2. /\ capacity' \in Nat /\ capacity' <= IntMax /\ length' <= capacity'
        /\ capacity' - length' <= MAXSIZE /\ (put # Unknown => capacity' <= block)
    BY <2>1, Facts
  <2> QED
    BY <2>1, <2>2, Appended, Facts
<1>3. CASE PushBackExpands(size)
  <2>1. /\ Grown \in Nat /\ Grown = capacity + MAXSIZE /\ Grown <= IntMax
        /\ length <= block /\ length <= Grown /\ length + size <= Grown
        /\ capacity - length < size /\ size \in Nat /\ size <= MAXSIZE
    BY <1>3, Facts DEF PushBackExpands, Grown, Overflows, MustExpand, Inside
  <2> DEFINE new == NewBlock(Grown, length)
  <2>2. /\ data' = Write(new, length, length, size) /\ length' = length + size
        /\ block' = Grown /\ capacity' = Grown /\ status' = "ok" /\ PutMore(size)
        /\ culprit' = culprit
    BY <1>3 DEF PushBackExpands
  <2>3. /\ new \in [0..(Grown - 1) -> Int]
        /\ \A i \in 0..(length - 1) : new[i] = data[i]
    BY <2>1, NewBlockKeepsData, Facts
  <2> HIDE DEF new
  <2>4. /\ capacity' \in Nat /\ capacity' <= IntMax /\ length' <= capacity'
        /\ capacity' - length' <= MAXSIZE /\ (put # Unknown => capacity' <= Grown)
    BY <2>1, <2>2, Facts
  <2> QED
    BY <2>1, <2>2, <2>3, <2>4, Appended
<1>4. CASE PushBackFails(size)
  <2>1. CASE /\ size <= MAXSIZE /\ MustExpand(size) /\ Overflows(MAXSIZE)
             /\ Stop("threw", "PushBack", size)
    <3>1. length > IntMax - 2 * MAXSIZE
      BY <2>1, Facts DEF MustExpand, Overflows
    <3> QED
      BY <2>1, <3>1, StopKeeps
  <2>2. CASE Stop("undefined", "PushBack", size) /\ (put = Unknown \/ size < 0)
    BY <2>2, StopKeeps
  <2>3. CASE Stop("aborted", "PushBack", size)
    BY <2>3, StopKeeps
  <2> QED
    BY <1>4, <2>1, <2>2, <2>3, StaysInside DEF PushBackFails
<1> QED
  BY <1>2, <1>3, <1>4 DEF PushBack

LEMMA CapacityExpandKeeps ==
  ASSUME PacketIInv, status = "ok", NEW size \in Int, CapacityExpand(size)
  PROVE  PacketIInv'
<1>1. CASE /\ Overflows(size) \/ capacity + size < 0
           /\ Stop("threw", "CapacityExpand", size)
  <2>1. length + MAXSIZE + size > IntMax \/ size < 0
    BY <1>1, Facts DEF Overflows
  <2> QED
    BY <1>1, <2>1, StopKeeps
<1>2. CASE /\ ~Inside(length, block) \/ ~Inside(length, capacity + size)
           /\ Stop("undefined", "CapacityExpand", size)
  <2>1. put = Unknown \/ size < 0
    BY <1>2, StaysInside, Facts DEF Inside
  <2> QED
    BY <1>2, <2>1, StopKeeps
<1>3. CASE /\ ~Overflows(size) /\ Inside(length, block) /\ Inside(length, capacity + size)
           /\ block' = capacity + size
           /\ data' = NewBlock(capacity + size, length)
           /\ put' = IF size < 0 THEN Unknown ELSE put
           /\ UNCHANGED <<capacity, length, status, culprit>>
  <2>1. /\ capacity + size \in Nat /\ capacity + size <= IntMax
        /\ length <= capacity + size /\ length <= block
    BY <1>3, Facts DEF Overflows, Inside
  <2> DEFINE n == capacity + size
  <2>2. /\ data' \in [0..(n - 1) -> Int]
        /\ \A i \in 0..(length - 1) : data'[i] = data[i]
    <3> HIDE DEF n
    <3> QED
      BY <1>3, <2>1, NewBlockKeepsData, Facts DEF n
  <2>3. PacketInv'
    BY <1>3, <2>1, <2>2, Facts DEF PacketIInv, PacketInv
  <2>4. DataIsStream'
    BY <1>3, <2>1, <2>2, Facts, SMTT(30) DEF PacketIInv, DataIsStream
  <2> QED
    BY <1>3, <2>3, <2>4 DEF PacketIInv, FailsOnlyWhenFull, OverrunsOnlyIfMisused
<1> QED
  BY <1>1, <1>2, <1>3 DEF CapacityExpand

(* A new block that holds an array of the caller.                           *)
LEMMA ArrayIsStream ==
  ASSUME NEW size \in Sizes, size >= 0
  PROVE  /\ size \in Nat /\ size <= IntMax
         /\ [i \in 0..(size - 1) |-> i] \in [0..(size - 1) -> Int]
BY PacketAssumption

LEMMA CopyFromArrayKeeps ==
  ASSUME PacketIInv, status = "ok", NEW size \in Sizes, CopyFromArray(size)
  PROVE  PacketIInv'
<1>0. CASE size < 0 /\ Stop("threw", "CopyFromArray", size)
  BY <1>0, StopKeeps, Facts
<1> SUFFICES ASSUME ~(size < 0 /\ Stop("threw", "CopyFromArray", size))
             PROVE  PacketIInv'
  BY <1>0
<1>1. /\ block' = size /\ data' = [i \in 0..(size - 1) |-> i] /\ status' = "ok"
      /\ size >= 0 /\ culprit' = culprit
  BY DEF CopyFromArray
<1>2. CASE capacity' = size /\ length' = size /\ put' = size
  <2>1. PacketInv'
    BY <1>1, <1>2, ArrayIsStream, Facts DEF PacketInv
  <2>2. DataIsStream'
    BY <1>1, <1>2, ArrayIsStream DEF DataIsStream
  <2> QED
    BY <1>1, <2>1, <2>2 DEF PacketIInv, FailsOnlyWhenFull, OverrunsOnlyIfMisused
<1>3. CASE put' = Unknown /\ capacity' = capacity /\ length' = length
  <2>1. PacketInv'
    BY <1>1, <1>3, ArrayIsStream, Facts DEF PacketInv
  <2> QED
    BY <1>1, <1>3, <2>1
       DEF PacketIInv, DataIsStream, FailsOnlyWhenFull, OverrunsOnlyIfMisused
<1> QED
  BY <1>2, <1>3 DEF CopyFromArray

LEMMA AdoptArrayKeeps ==
  ASSUME PacketIInv, status = "ok", NEW size \in Sizes, AdoptArray(size)
  PROVE  PacketIInv'
<1>1. /\ block' = size /\ capacity' = size /\ length' = size /\ put' = size
      /\ data' = [i \in 0..(size - 1) |-> i] /\ status' = "ok"
      /\ size >= 0 /\ culprit' = culprit
  BY DEF AdoptArray
<1>2. PacketInv'
  BY <1>1, ArrayIsStream, Facts DEF PacketInv
<1>3. DataIsStream'
  BY <1>1, ArrayIsStream DEF DataIsStream
<1> QED
  BY <1>1, <1>2, <1>3 DEF PacketIInv, FailsOnlyWhenFull, OverrunsOnlyIfMisused

LEMMA NewPacketKeeps == ASSUME PacketIInv, status = "ok", NewPacket PROVE PacketIInv'
<1>1. /\ block' = MAXSIZE /\ capacity' = MAXSIZE /\ length' = 0 /\ put' = 0
      /\ data' = [i \in 0..(MAXSIZE - 1) |-> Garbage] /\ status' = "ok"
      /\ culprit' = culprit
  BY DEF NewPacket
<1>2. PacketInv'
  BY <1>1, Facts DEF PacketInv, Garbage
<1>3. DataIsStream'
  BY <1>1 DEF DataIsStream
<1> QED
  BY <1>1, <1>2, <1>3 DEF PacketIInv, FailsOnlyWhenFull, OverrunsOnlyIfMisused

LEMMA AdoptNullKeeps == ASSUME PacketIInv, status = "ok", AdoptNull PROVE PacketIInv'
BY DEF AdoptNull, PacketIInv, PacketInv, DataIsStream, FailsOnlyWhenFull,
       OverrunsOnlyIfMisused

LEMMA PacketStep == PacketIInv /\ [Next]_vars => PacketIInv'
<1> SUFFICES ASSUME PacketIInv, [Next]_vars PROVE PacketIInv'
  OBVIOUS
<1>1. CASE UNCHANGED vars
  BY <1>1 DEF vars, PacketIInv, PacketInv, DataIsStream, FailsOnlyWhenFull,
              OverrunsOnlyIfMisused
<1>2. CASE Next
  <2>1. ASSUME NEW size \in Sizes \cup {length}, CopyToArray(size), status = "ok"
        PROVE  PacketIInv'
    <3>1. size \in Int
      BY Facts
    <3> QED
      BY <2>1, <3>1, StaysInside, StopKeeps DEF CopyToArray
  <2>2. 1..MAXSIZE \subseteq Int /\ Sizes \subseteq Int
    BY Facts
  <2> QED
    BY <1>2, <2>1, <2>2, PushBackKeeps, CapacityExpandKeeps, CopyFromArrayKeeps,
       AdoptArrayKeeps, NewPacketKeeps, AdoptNullKeeps DEF Next
<1> QED
  BY <1>1, <1>2

(* What every call of the class preserves, with whatever size: types,       *)
(* block, contents and the conditions of the two failures.                  *)
THEOREM PacketInvariant == Spec => []PacketIInv
BY PacketInit, PacketStep, PTL DEF Spec

(* The block is as large as capacity_ says until it is spoilt, and at most  *)
(* one read larger than what it holds.                                      *)
THEOREM PacketBlock == Spec => []PacketInv
BY PacketInvariant, PTL DEF PacketIInv

(* What ServiceHandler::OnHandler sends back is what the peer sent.         *)
THEOREM PacketIsStream == Spec => []DataIsStream
BY PacketInvariant, PTL DEF PacketIInv

(* PushBack throws only in a packet as long as int allows, and the other    *)
(* calls only for a size int has no room for or a negative one.             *)
THEOREM PacketFailsOnlyWhenFull == Spec => []FailsOnlyWhenFull
BY PacketInvariant, PTL DEF PacketIInv

(* A memcpy leaves its block only when the packet is spoilt, or the failing *)
(* call has a negative size or asks CopyToArray for more than length().     *)
THEOREM PacketOverrunsOnlyIfMisused == Spec => []OverrunsOnlyIfMisused
BY PacketInvariant, PTL DEF PacketIInv
=============================================================================
