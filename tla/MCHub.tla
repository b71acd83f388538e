------------------------------- MODULE MCHub -------------------------------
(* Two tabs; a handler that publishes two events and one that publishes one. *)
EXTENDS Hub, TLC

CONSTANTS c1, c2, p1, p2

MCBurst == (p1 :> 2) @@ (p2 :> 1)
=============================================================================
