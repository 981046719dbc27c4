--------------------------- MODULE MCMediaPipeline ---------------------------
(* MediaPipeline on two replays of one submission, the second without events, *)
(* and a clip of it.                                                         *)
EXTENDS MediaPipeline, TLC

CONSTANTS d1, d2, d3, r, e, c, replay, clip

MCDeliveries == {d1, d2, d3}
MCJobs == {r, e, c}
MCJobOf == d1 :> r @@ d2 :> e @@ d3 :> c
MCKeyOf == r :> replay @@ e :> replay @@ c :> clip
MCSourceOf == c :> replay
=============================================================================
