---------------------------- MODULE MCDataPacket ----------------------------
(* DataPacket with 4 bytes a read and an int of 6 bits; the callers ask for *)
(* nothing, for a read's worth or less, for more, and for less than nothing.*)
EXTENDS DataPacket

MCSizes == {-5, -1, 0, 3, 9}
=============================================================================
