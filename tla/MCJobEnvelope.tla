---------------------------- MODULE MCJobEnvelope ----------------------------
(* JobEnvelope on two job ids: two deliveries carry the first, one the second. *)
EXTENDS JobEnvelope, TLC

CONSTANTS d1, d2, d3, j1, j2

MCDeliveries == {d1, d2, d3}
MCJobs == {j1, j2}
MCJobOf == d1 :> j1 @@ d2 :> j1 @@ d3 :> j2
=============================================================================
