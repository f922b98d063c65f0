--------------------------- MODULE MCSessionWrite ---------------------------
(* Two sessions with two answers each; the peer of s2 may stop reading.     *)
EXTENDS SessionWrite, TLC

CONSTANTS s1, s2, m1, m2, m3, m4

Sessions == {s1, s2}
Readers == {s1}
Owners == m1 :> s1 @@ m2 :> s1 @@ m3 :> s2 @@ m4 :> s2
Sizes == m1 :> 3 @@ m2 :> 0 @@ m3 :> 2 @@ m4 :> 1
Buffers == s1 :> 2 @@ s2 :> 1
=============================================================================
