---------------------------- MODULE PureServices ----------------------------
(***************************************************************************)
(* The services that compute, one at a time: a ranking, a plagiarism check *)
(* and the engines below it, the vectors below the talent search, the      *)
(* frames of a replay, and what two RPCs make of a request and of the      *)
(* model's answer.  They share nothing but the shape of the job or call    *)
(* around them (JobEnvelope, LlmRpc), so that each behaviour is one of     *)
(* them.                                                                   *)
(***************************************************************************)
EXTENDS RankedBatch, PlagiarismCheck, ReplayFrames, SimilarityEngines, MatcherEmbeddings,
        ChallengeVariant, CareerPath

BatchVars == <<rankVars, checkVars, replayVars>>
EmbeddingVars == <<engineVars, matcherVars>>
RpcVars == <<promptVars, variantVars, careerVars>>

ServiceVars == <<BatchVars, EmbeddingVars, RpcVars>>

BatchIdle == RankIdle /\ CheckIdle /\ ReplayIdle
EmbeddingIdle == EnginesIdle /\ MatcherIdle
RpcIdle == PromptIdle /\ VariantIdle /\ CareerIdle

BatchInit ==
    \/ RankInit /\ CheckIdle /\ ReplayIdle
    \/ CheckInit /\ RankIdle /\ ReplayIdle
    \/ ReplayInit /\ RankIdle /\ CheckIdle

EmbeddingInit ==
    \/ EnginesInit /\ MatcherIdle
    \/ MatcherInit /\ EnginesIdle

RpcInit ==
    \/ PromptInit /\ VariantIdle /\ CareerIdle
    \/ VariantInit /\ PromptIdle /\ CareerIdle
    \/ CareerInit /\ PromptIdle /\ VariantIdle

ServicesInit ==
    \/ BatchInit /\ EmbeddingIdle /\ RpcIdle
    \/ EmbeddingInit /\ BatchIdle /\ RpcIdle
    \/ RpcInit /\ BatchIdle /\ EmbeddingIdle

BatchNext ==
    \/ RankNext /\ UNCHANGED <<checkVars, replayVars>>
    \/ CheckNext /\ UNCHANGED <<rankVars, replayVars>>
    \/ ReplayNext /\ UNCHANGED <<rankVars, checkVars>>

EmbeddingNext ==
    \/ EnginesNext /\ UNCHANGED matcherVars
    \/ MatcherNext /\ UNCHANGED engineVars

RpcNext ==
    \/ PromptNext /\ UNCHANGED <<variantVars, careerVars>>
    \/ VariantNext /\ UNCHANGED <<promptVars, careerVars>>
    \/ CareerNext /\ UNCHANGED <<promptVars, variantVars>>

ServicesNext ==
    \/ BatchNext /\ UNCHANGED <<EmbeddingVars, RpcVars>>
    \/ EmbeddingNext /\ UNCHANGED <<BatchVars, RpcVars>>
    \/ RpcNext /\ UNCHANGED <<BatchVars, EmbeddingVars>>

ServicesSpec == ServicesInit /\ [][ServicesNext]_ServiceVars
-----------------------------------------------------------------------------
(* Properties *)

\* The values that the result models, the protocol and the caches of a worker allow, in each
\* of the services: scores in their bounds, a frame for each event, similarities for
\* PlagiarismCheck, caches of what was computed, a variant that ChallengeParams accepts, a
\* path within the catalogue.
ServicesTypeOK ==
    /\ RankTypeOK
    /\ CheckTypeOK
    /\ ReplayTypeOK
    /\ EnginesTypeOK
    /\ MatcherTypeOK
    /\ PromptTypeOK
    /\ VariantTypeOK
    /\ CareerTypeOK
=============================================================================
