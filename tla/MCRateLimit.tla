----------------------------- MODULE MCRateLimit -----------------------------
(* RateLimit on one method and two keys: an IP with two connections, and the  *)
(* clients whose introspection fails.                                         *)
EXTENDS RateLimit, TLC

CONSTANTS c1, c2, c3, review

MCClients == {c1, c2, c3}
MCPeerOf == c1 :> "ip" @@ c2 :> "ip" @@ c3 :> "unknown"
MCMethods == {review}
MCBudget == review :> 2
=============================================================================
