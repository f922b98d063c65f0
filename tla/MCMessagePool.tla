--------------------------- MODULE MCMessagePool ---------------------------
(* Small instances of MessagePool; the workers are interchangeable.         *)
EXTENDS MessagePool, TLC

Symmetry == Permutations(Worker)
=============================================================================
