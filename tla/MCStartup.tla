----------------------------- MODULE MCStartup -----------------------------
(* Small instances of Startup; sub-reactors and datagrams are each          *)
(* interchangeable.                                                         *)
EXTENDS Startup, TLC

Symmetry == Permutations(SubReactor) \cup Permutations(Datagram)
=============================================================================
