------------------------------ MODULE MCLlmRpc ------------------------------
(* LlmRpc on two small sets of calls: some that share a cache key or differ in *)
(* v2 only, and one of every kind of call.                                     *)
EXTENDS LlmRpc, TLC

CONSTANTS g1, g2, g3,  \* GenerateChallenge, the same parameters but v2 for g3
          a1, a2,      \* GenerateChallenge, the same absurd parameters
          p1, p2,      \* AnalyzePerformance, the same profile in two orders
          e1,          \* AnalyzePerformance, an empty profile
          sonnet, qwen

Params(base, v2, tone) == [base |-> base, v2 |-> v2, tone |-> tone, shown |-> "all"]

\* One profile of more than 50 deliverables, in two orders.
Cut(shown) == [Params("u", "", "") EXCEPT !.shown = shown]

MCRequestOf ==
    g1 :> Params("ch", "", "serious") @@ g2 :> Params("ch", "", "serious") @@
    g3 :> Params("ch", "oss", "serious") @@
    a1 :> Params("ch", "", "absurd") @@ a2 :> Params("ch", "", "absurd") @@
    p1 :> Cut("some") @@ p2 :> Cut("others") @@
    e1 :> Params("e", "", "")

MCAttempts == [m \in Models |-> IF m = sonnet THEN 1 ELSE 3]

Shared == {g1, g2, g3}
Mixed == {a1, a2, p1, p2, e1}
Profiles == {p1, p2}

SharedInBand == {g1, g2, g3}
MixedInBand == {a1, a2}
=============================================================================
