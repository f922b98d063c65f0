------------------------------ MODULE MCDBPool ------------------------------
(* Small instances of DBPool; clients and connections are interchangeable.  *)
EXTENDS DBPool, TLC

Symmetry == Permutations(Client) \cup Permutations(Connection)
=============================================================================
