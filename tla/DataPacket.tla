----------------------------- MODULE DataPacket -----------------------------
(***************************************************************************)
(* DataPacket: the growing buffer a sub-reactor fills with PushBack while  *)
(* a socket has data, with the rest of the class: the constructor that     *)
(* adopts an array, CopyFromArray, CopyToArray and CapacityExpand.         *)
(*                                                                         *)
(* Bytes are known by their place in what the caller has put in.  block is *)
(* how much is allocated, which capacity_ need not say.  A memcpy past it  *)
(* or of a negative size is undefined, a new[] of a negative size throws   *)
(* and the CHECK of PushBack aborts: each ends the behaviour.  Only        *)
(* PushBack checks the size it is called with, so the callers here ask for *)
(* any; an array they hand in is as long as they say, and so is the one    *)
(* CopyToArray fills.                                                      *)
(***************************************************************************)
EXTENDS Integers

CONSTANTS
  MAXSIZE,   \* 4096: the step of the buffer's growth and the size of a read
  IntMax,    \* the largest int
  Sizes      \* bound: sizes the callers ask for, besides those of a read()

ASSUME PacketAssumption ==
  /\ MAXSIZE \in Nat \ {0}
  /\ IntMax \in Nat /\ MAXSIZE <= IntMax
  /\ Sizes \subseteq (-IntMax - 1)..IntMax

VARIABLES
  data,       \* data_: the allocated block, by offset
  block,      \* its size
  capacity,   \* capacity_
  length,     \* length_
  put,        \* bytes put in, or Unknown once capacity_ and length_ do not
              \* describe the block
  status,     \* "ok", "threw", "aborted" or "undefined"
  culprit     \* history: the call, with its size, that ended the packet's life

vars == <<data, block, capacity, length, put, status, culprit>>

Garbage == -1   \* a byte of a new block nobody has written
Unknown == -1

(* memcpy(data_ + offset, src, size) of the next bytes of the caller.       *)
Write(old, offset, first, size) ==
  [i \in DOMAIN old |->
     IF i \in offset..(offset + size - 1) THEN first + (i - offset) ELSE old[i]]

(* new unsigned char[n], with the first `keep` bytes of the old block; a    *)
(* copy of one byte too few.                                                *)
NewBlockShort(n, keep) ==
  [i \in 0..(n - 1) |-> IF i < keep - 1 THEN data[i] ELSE Garbage]

NewBlock(n, keep) == [i \in 0..(n - 1) |-> IF i < keep THEN data[i] ELSE Garbage]

(* The two tests that decide what PushBack does, with an error of one each. *)
MustExpandLate(size) == capacity - length < size - 1

MustExpand(size) == capacity - length < size

OverflowsEarly(size) == capacity + size > IntMax \div 2

Overflows(size) == capacity + size > IntMax

(* memcpy of `size` bytes, which becomes a size_t, stays in `room` bytes.   *)
Inside(size, room) == size \in 0..room

(* The buffer grows by MAXSIZE; a wrong form doubles it.                    *)
Doubled == capacity * 2

Grown == capacity + MAXSIZE

Stop(how, call, size) ==
  /\ status' = how /\ culprit' = [call |-> call, size |-> size]
  /\ UNCHANGED <<data, block, capacity, length, put>>
-----------------------------------------------------------------------------
PutMore(size) == put' = IF put = Unknown THEN Unknown ELSE put + size

PushBackFits(size) ==
  /\ size <= MAXSIZE
  /\ ~MustExpand(size) /\ Inside(size, block - length)
  /\ data' = Write(data, length, length, size)
  /\ length' = length + size
  /\ PutMore(size)
  /\ UNCHANGED <<block, capacity, status, culprit>>

PushBackExpands(size) ==
  /\ size <= MAXSIZE
  /\ MustExpand(size) /\ ~Overflows(MAXSIZE) /\ Inside(length, block)
  /\ data' = Write(NewBlock(Grown, length), length, length, size)
  /\ block' = Grown /\ capacity' = Grown
  /\ length' = length + size
  /\ PutMore(size)
  /\ UNCHANGED <<status, culprit>>

PushBackFails(size) ==
  \/ size > MAXSIZE /\ Stop("aborted", "PushBack", size)
  \/ /\ size <= MAXSIZE
     /\ \/ MustExpand(size) /\ Overflows(MAXSIZE) /\ Stop("threw", "PushBack", size)
        \/ /\ IF MustExpand(size) THEN ~Overflows(MAXSIZE) /\ ~Inside(length, block)
                                 ELSE ~Inside(size, block - length)
           /\ Stop("undefined", "PushBack", size)

PushBack(size) == PushBackFits(size) \/ PushBackExpands(size) \/ PushBackFails(size)

(* CapacityExpand makes a block of capacity_ + size and leaves capacity_    *)
(* alone: with a negative size, capacity_ is more than there is.            *)
CapacityExpand(size) ==
  \/ /\ Overflows(size) \/ capacity + size < 0
     /\ Stop("threw", "CapacityExpand", size)
  \/ /\ ~Overflows(size) /\ capacity + size >= 0
     /\ ~Inside(length, block) \/ ~Inside(length, capacity + size)
     /\ Stop("undefined", "CapacityExpand", size)
  \/ /\ ~Overflows(size) /\ Inside(length, block) /\ Inside(length, capacity + size)
     /\ block' = capacity + size
     /\ data' = NewBlock(capacity + size, length)
     /\ put' = IF size < 0 THEN Unknown ELSE put
     /\ UNCHANGED <<capacity, length, status, culprit>>

(* CopyFromArray replaces the block by one that just holds the array.  Only *)
(* a packet smaller than MAXSIZE gets the new capacity_ and length_.        *)
CopyFromArray(size) ==
  \/ size < 0 /\ Stop("threw", "CopyFromArray", size)
  \/ /\ size >= 0
     /\ block' = size
     /\ data' = [i \in 0..(size - 1) |-> i]
     /\ IF capacity < MAXSIZE
          THEN capacity' = size /\ length' = size /\ put' = size
          ELSE put' = Unknown /\ UNCHANGED <<capacity, length>>
     /\ UNCHANGED <<status, culprit>>

(* CopyToArray of whatever the caller asks for; inside the block it changes *)
(* nothing.                                                                 *)
CopyToArray(size) == ~Inside(size, block) /\ Stop("undefined", "CopyToArray", size)
-----------------------------------------------------------------------------
(* The next packet: empty, or around an array of the caller.  For a null    *)
(* pointer the second constructor makes a temporary with `DataPacket();`    *)
(* and leaves its own members uninitialised.                                *)
NewPacket ==
  /\ block' = MAXSIZE /\ capacity' = MAXSIZE
  /\ data' = [i \in 0..(MAXSIZE - 1) |-> Garbage]
  /\ length' = 0 /\ put' = 0
  /\ UNCHANGED <<status, culprit>>

AdoptArray(size) ==
  /\ size >= 0
  /\ block' = size /\ capacity' = size /\ length' = size /\ put' = size
  /\ data' = [i \in 0..(size - 1) |-> i]
  /\ UNCHANGED <<status, culprit>>

AdoptNull ==
  /\ put' = Unknown /\ status' = "undefined"
  /\ UNCHANGED <<data, block, capacity, length, culprit>>

Init ==
  /\ block = MAXSIZE /\ capacity = MAXSIZE
  /\ data = [i \in 0..(MAXSIZE - 1) |-> Garbage]
  /\ length = 0 /\ put = 0
  /\ status = "ok" /\ culprit = [call |-> "none", size |-> 0]

(* A sub-reactor pushes what a read() of MAXSIZE returned; the other calls, *)
(* and length() for CopyToArray, are those of any user of the class.        *)
Next ==
  /\ status = "ok"
  /\ \/ \E nbyte \in 1..MAXSIZE : PushBack(nbyte)
     \/ \E size \in Sizes : \/ PushBack(size) \/ CapacityExpand(size)
                            \/ CopyFromArray(size) \/ AdoptArray(size)
     \/ \E size \in Sizes \cup {length} : CopyToArray(size)
     \/ NewPacket \/ AdoptNull

Spec == Init /\ [][Next]_vars
-----------------------------------------------------------------------------
(* The types, and the block: it is as large as capacity_ says unless        *)
(* CopyFromArray or a negative CapacityExpand has spoilt it, and never has  *)
(* more than one read's worth of capacity_ unused.                          *)
PacketInv ==
  /\ block \in 0..IntMax /\ data \in [0..(block - 1) -> Int]
  /\ capacity \in 0..IntMax /\ length \in 0..capacity
  /\ put \in Nat \cup {Unknown}
  /\ status \in {"ok", "threw", "aborted", "undefined"}
  /\ culprit.size \in Int
  /\ capacity - length <= MAXSIZE
  /\ put # Unknown => capacity <= block

(* What data() and length() give ServiceHandler to send back are the bytes  *)
(* that were put in, all of them and in order: none is lost, moved or left  *)
(* uninitialised by the copies from block to block.                         *)
DataIsStream ==
  put # Unknown =>
    /\ length = put
    /\ \A i \in 0..(length - 1) : i \in DOMAIN data /\ data[i] = i

(* The packet of a peer that sends faster than it is read has no bound but  *)
(* int: PushBack throws, and not before the packet is within two steps of   *)
(* it.  CapacityExpand throws only when the size it was itself asked for    *)
(* does not fit behind what is there and one step more, and a negative size *)
(* makes it, or CopyFromArray, throw too.                                   *)
FailsOnlyWhenFull ==
  status = "threw" =>
    \/ culprit.call = "PushBack" /\ length > IntMax - 2 * MAXSIZE
    \/ culprit.call = "CapacityExpand" /\ length + MAXSIZE + culprit.size > IntMax
    \/ culprit.call \in {"CapacityExpand", "CopyFromArray"} /\ culprit.size < 0

(* A memcpy leaves its block in three ways only: the packet was spoilt, by  *)
(* nullptr, by CopyFromArray on one of MAXSIZE or more or by CapacityExpand *)
(* with a negative size; the call itself has a negative size, which the     *)
(* CHECK of PushBack lets pass; or it is CopyToArray and asks for more than *)
(* length().  Sizes in their range, in whatever order, never do it.         *)
OverrunsOnlyIfMisused ==
  status = "undefined" =>
    \/ put = Unknown
    \/ culprit.size < 0
    \/ culprit.call = "CopyToArray" /\ culprit.size > length

PacketIInv == PacketInv /\ DataIsStream /\ FailsOnlyWhenFull /\ OverrunsOnlyIfMisused
=============================================================================
