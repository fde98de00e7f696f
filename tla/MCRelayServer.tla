--------------------------- MODULE MCRelayServer ---------------------------
(* Two nodes that each reconnect, and a third that does not. *)
EXTENDS RelayServer, TLC

CONSTANTS a, b, c, a1, a2, b1, b2, c1

MCNodeOf == a1 :> a @@ a2 :> a @@ b1 :> b @@ b2 :> b @@ c1 :> c
=============================================================================
