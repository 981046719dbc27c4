------------------------------- MODULE LlmRpc -------------------------------
(***************************************************************************)
(* The RPCs of src/grpc_server that a language model answers, from the     *)
(* interceptors to the provider and back: GenerateChallenge and            *)
(* AnalyzePerformance, whose answers are cached in Redis; GenerateVariant, *)
(* SuggestCareerPath and ReviewCode, whose answers are not.                *)
(*                                                                         *)
(* A step is what a call does from one await to the next, with the effect  *)
(* of the Redis command or LLM request it was waiting for.  The decision   *)
(* of the rate limiter is free here; GuardedLlm puts RateLimit in front.   *)
(***************************************************************************)
EXTENDS Integers, FiniteSets

CONSTANTS
    Calls,        \* RPCs
    RequestOf,    \* RequestOf[c]: [base, v2, tone, shown] of the call's parameters
    Malformed,    \* calls whose parameters the pydantic models or the service refuse
    Trivial,      \* calls for an empty profile: answered without a model
    InBand,       \* calls of GenerateChallenge and GenerateVariant: known errors go into
                  \* the response
    Models,       \* models a process may be configured with
    Attempts,     \* Attempts[m]: requests its provider makes before it gives up
    Nothing,      \* no artifact, no cache entry
    MaxFaults,    \* bound: Redis commands that raise
    MaxDrops,     \* bound: cache entries that expire or are invalidated
    MaxRestarts   \* bound: restarts of the process

-----------------------------------------------------------------------------
(* Requests and cache keys: _challenge_cache.py, _talent_cache.py.  base     *)
(* stands for the original parameters, v2 for the ones added later           *)
(* (orientation_slug, is_training, project_id); tone is "uncached" for the   *)
(* methods without a cache.  The keys sort the lists of a request; the       *)
(* prompt of AnalyzePerformance shows the first 50 deliverables only, and    *)
(* shown says which: "all", or those the request's order puts first.         *)

\* Mutated form of Key: the parameters of v2 are not part of it.
KeyWithoutV2(c) == [base |-> RequestOf[c].base, tone |-> RequestOf[c].tone]

Key(c) == [base |-> RequestOf[c].base, v2 |-> RequestOf[c].v2, tone |-> RequestOf[c].tone]

\* Mutated form of Cacheable: absurd challenges are cached, too.
CacheableAbsurd(c) == RequestOf[c].tone # "uncached"

Cacheable(c) == RequestOf[c].tone \notin {"absurd", "uncached"}

\* What the prompt of a call is made of, in whatever order.
Prompt(c) == [base |-> RequestOf[c].base, v2 |-> RequestOf[c].v2,
              tone |-> RequestOf[c].tone, shown |-> RequestOf[c].shown]

Keys == {Key(c) : c \in Calls}
Artifacts == [key : Keys, prompt : {Prompt(c) : c \in Calls}, model : Models, by : Calls]

SameParameters(c, d) == /\ RequestOf[c].base = RequestOf[d].base
                        /\ RequestOf[c].v2 = RequestOf[d].v2
                        /\ RequestOf[c].tone = RequestOf[d].tone

ASSUME LlmRpcAssumption ==
    /\ Malformed \subseteq Calls
    /\ Trivial \subseteq Calls \ Malformed
    /\ InBand \subseteq Calls
    \* The number of deliverables is the same under the same key.
    /\ \A c, d \in Calls : SameParameters(c, d) =>
          (RequestOf[c].shown = "all" <=> RequestOf[d].shown = "all")
    /\ Attempts \in [Models -> Nat \ {0}]
    /\ Nothing \notin Artifacts
    /\ MaxFaults \in Nat
    /\ MaxDrops \in Nat
    /\ MaxRestarts \in Nat

VARIABLES
    pc,        \* pc[c]: where call c is
    asked,     \* asked[c]: requests made to the model for c
    draft,     \* draft[c]: the artifact generated for c
    reply,     \* reply[c]: how c ended: [status, version, artifact]
    cache,     \* cache[k]: the artifact under k in Redis
    model,     \* the model of the running process (get_llm is a singleton)
    measured,  \* measured[c][s]: what c added to grpc_requests_total{status=s}
    purged,    \* history: entries that expired or were invalidated
    faults, drops, restarts

bounds == <<faults, drops, restarts>>
vars == <<pc, asked, draft, reply, cache, model, measured, purged, faults, drops, restarts>>

Waiting(c) == pc[c] \in {"reading", "asking", "storing", "stored"}
NoReply == [status |-> "none", version |-> Nothing, artifact |-> Nothing]

Statuses == {"none", "answer", "declined", "aborted", "refused", "cancelled", "lost"}

TypeOK ==
    /\ pc \in [Calls -> {"idle", "reading", "asking", "storing", "stored", "over"}]
    /\ asked \in [Calls -> Nat]
    /\ draft \in [Calls -> Artifacts \cup {Nothing}]
    /\ reply \in [Calls -> [status : Statuses,
                            version : Models \cup {Nothing},
                            artifact : Artifacts \cup {Nothing}]]
    /\ cache \in [Keys -> Artifacts \cup {Nothing}]
    /\ model \in Models
    /\ measured \in [Calls -> [{"ok", "error"} -> Nat]]
    /\ purged \in SUBSET Artifacts
    /\ faults \in 0 .. MaxFaults
    /\ drops \in 0 .. MaxDrops
    /\ restarts \in 0 .. MaxRestarts

Init ==
    /\ pc = [c \in Calls |-> "idle"]
    /\ asked = [c \in Calls |-> 0]
    /\ draft = [c \in Calls |-> Nothing]
    /\ reply = [c \in Calls |-> NoReply]
    /\ cache = [k \in Keys |-> Nothing]
    /\ model \in Models
    /\ measured = [c \in Calls |-> [s \in {"ok", "error"} |-> 0]]
    /\ purged = {}
    /\ faults = 0 /\ drops = 0 /\ restarts = 0

-----------------------------------------------------------------------------
(* How a call ends *)

\* MetricsInterceptor, finally clause.
Measure(c, status) == measured' = [measured EXCEPT ![c][status] = @ + 1]

End(c, status) ==
    /\ pc' = [pc EXCEPT ![c] = "over"]
    /\ reply' = [reply EXCEPT ![c] = [NoReply EXCEPT !.status = status]]

\* A response with success; model_version is read from the provider now.
Answer(c, artifact) ==
    /\ pc' = [pc EXCEPT ![c] = "over"]
    /\ reply' = [reply EXCEPT ![c] = [status |-> "answer", version |-> model,
                                      artifact |-> artifact]]
    /\ Measure(c, "ok")

\* An exception that reaches the interceptor, context.abort's included.
Abort(c) == End(c, "aborted") /\ Measure(c, "error")

\* ExternalServiceError and ValidationError: GenerateChallenge and GenerateVariant
\* answer with success = False, the other methods call context.abort.
Decline(c) == End(c, "declined") /\ Measure(c, "ok")
Fail(c) == IF c \in InBand THEN Decline(c) ELSE Abort(c)

Faulty == faults < MaxFaults /\ faults' = faults + 1

-----------------------------------------------------------------------------
(* Interceptors and servicer *)

\* Mutated form of Refuse: MetricsInterceptor comes before RateLimitInterceptor.
RefuseMeasured(c) ==
    /\ pc[c] = "idle"
    /\ End(c, "refused")
    /\ Measure(c, "error")
    /\ UNCHANGED <<asked, draft, cache, model, purged, bounds>>

\* RateLimitInterceptor aborts the call before MetricsInterceptor sees it.
Refuse(c) ==
    /\ pc[c] = "idle"
    /\ End(c, "refused")
    /\ UNCHANGED <<asked, draft, cache, model, measured, purged, bounds>>

\* The parameters are invalid, or need no model.
EndAtOnce(c) ==
    /\ pc[c] = "idle"
    /\ \/ c \in Malformed /\ Fail(c)
       \/ c \in Trivial /\ Answer(c, Nothing)
    /\ UNCHANGED <<asked, draft, cache, model, purged, bounds>>

Begin(c) ==
    /\ pc[c] = "idle"
    /\ c \notin Malformed \cup Trivial
    /\ pc' = [pc EXCEPT ![c] = IF Cacheable(c) THEN "reading" ELSE "asking"]
    /\ asked' = [asked EXCEPT ![c] = IF Cacheable(c) THEN 0 ELSE 1]
    /\ UNCHANGED <<draft, reply, cache, model, measured, purged, bounds>>

\* The client cancels or its deadline passes.  CancelledError is no Exception:
\* MetricsInterceptor's status is still "ok".
Cancel(c) ==
    /\ Waiting(c)
    /\ End(c, "cancelled")
    /\ Measure(c, "ok")
    /\ UNCHANGED <<asked, draft, cache, model, purged, bounds>>

-----------------------------------------------------------------------------
(* The cache: a Redis error on the way in is a miss, on the way out nothing. *)

\* Mutated form of Hit: the entry is written back, for another time to live.
HitRefreshes(c) ==
    /\ pc[c] = "reading"
    /\ cache[Key(c)] # Nothing
    /\ draft' = [draft EXCEPT ![c] = cache[Key(c)]]
    /\ pc' = [pc EXCEPT ![c] = "storing"]
    /\ UNCHANGED <<asked, reply, cache, model, measured, purged, bounds>>

Hit(c) ==
    /\ pc[c] = "reading"
    /\ cache[Key(c)] # Nothing
    /\ Answer(c, cache[Key(c)])
    /\ UNCHANGED <<asked, draft, cache, model, purged, bounds>>

AskFirst(c) ==
    /\ pc' = [pc EXCEPT ![c] = "asking"]
    /\ asked' = [asked EXCEPT ![c] = 1]

Miss(c) ==
    /\ pc[c] = "reading"
    /\ cache[Key(c)] = Nothing
    /\ AskFirst(c)
    /\ UNCHANGED <<draft, reply, cache, model, measured, purged, bounds>>

ReadRaises(c) ==
    /\ pc[c] = "reading"
    /\ Faulty
    /\ AskFirst(c)
    /\ UNCHANGED <<draft, reply, cache, model, measured, purged, drops, restarts>>

\* Mutated form of Put: the entry is the response, not the challenge in it.
PutResponse(c) == cache' = [cache EXCEPT ![Key(c)] = [NoReply EXCEPT !.artifact = draft[c]]]

Put(c) == cache' = [cache EXCEPT ![Key(c)] = draft[c]]

Store(c) ==
    /\ pc[c] = "storing"
    /\ Put(c)
    /\ pc' = [pc EXCEPT ![c] = "stored"]
    /\ UNCHANGED <<asked, draft, reply, model, measured, purged, bounds>>

\* Mutated form of StoreRaises: cache_challenge lets Redis errors through.
StoreRaisesAborts(c) ==
    /\ pc[c] = "storing"
    /\ Faulty
    /\ Abort(c)
    /\ UNCHANGED <<asked, draft, cache, model, purged, drops, restarts>>

StoreRaises(c) ==
    /\ pc[c] = "storing"
    /\ Faulty
    /\ Put(c) \/ UNCHANGED cache
    /\ Answer(c, draft[c])
    /\ UNCHANGED <<asked, draft, model, purged, drops, restarts>>

\* Mutated form of Return: the answer waits until the entry can be read.
ReturnWhenCached(c) ==
    /\ pc[c] = "stored"
    /\ cache[Key(c)] # Nothing
    /\ Answer(c, draft[c])
    /\ UNCHANGED <<asked, draft, cache, model, purged, bounds>>

Return(c) ==
    /\ pc[c] = "stored"
    /\ Answer(c, draft[c])
    /\ UNCHANGED <<asked, draft, cache, model, purged, bounds>>

-----------------------------------------------------------------------------
(* The provider's complete_structured. *)

\* An answer of the model that fits the schema.
Generate(c) ==
    /\ pc[c] = "asking"
    /\ LET new == [key |-> Key(c), prompt |-> Prompt(c), model |-> model, by |-> c]
       IN  /\ draft' = [draft EXCEPT ![c] = new]
           /\ \/ Cacheable(c) /\ pc' = [pc EXCEPT ![c] = "storing"] /\ UNCHANGED <<reply, measured>>
              \/ ~ Cacheable(c) /\ Answer(c, new)
    /\ UNCHANGED <<asked, cache, model, purged, bounds>>

\* Mutated form of Misfit: one attempt too many.
MisfitOneMore(c) ==
    /\ pc[c] = "asking"
    /\ \/ /\ asked[c] <= Attempts[model]
          /\ asked' = [asked EXCEPT ![c] = @ + 1]
          /\ UNCHANGED <<pc, reply, measured>>
       \/ asked[c] > Attempts[model] /\ Fail(c) /\ UNCHANGED asked
    /\ UNCHANGED <<draft, cache, model, purged, bounds>>

\* One that does not: the next attempt quotes it; after the last,
\* ValidationError.
Misfit(c) ==
    /\ pc[c] = "asking"
    /\ \/ /\ asked[c] < Attempts[model]
          /\ asked' = [asked EXCEPT ![c] = @ + 1]
          /\ UNCHANGED <<pc, reply, measured>>
       \/ asked[c] = Attempts[model] /\ Fail(c) /\ UNCHANGED asked
    /\ UNCHANGED <<draft, cache, model, purged, bounds>>

\* The provider is down or times out, or returns nothing: ExternalServiceError,
\* without another attempt.
Down(c) ==
    /\ pc[c] = "asking"
    /\ Fail(c)
    /\ UNCHANGED <<asked, draft, cache, model, purged, bounds>>

\* An exception of another class escapes: a body that is not JSON (Ollama), a
\* field the service's own models refuse (ChallengeVariant has those of a variant).
Escape(c) ==
    /\ pc[c] = "asking"
    /\ Abort(c)
    /\ UNCHANGED <<asked, draft, cache, model, purged, bounds>>

-----------------------------------------------------------------------------
(* Redis and the process *)

\* An entry reaches its time to live, or invalidate_cache deletes it.
Drop(k) ==
    /\ drops < MaxDrops
    /\ cache[k] # Nothing
    /\ drops' = drops + 1
    /\ purged' = purged \cup {cache[k]}
    /\ cache' = [cache EXCEPT ![k] = Nothing]
    /\ UNCHANGED <<pc, asked, draft, reply, model, measured, faults, restarts>>

\* A new process, with the same model or another: calls under way are lost,
\* unmeasured, and the cache survives.
Restart ==
    /\ restarts < MaxRestarts
    /\ restarts' = restarts + 1
    /\ model' \in Models
    /\ pc' = [c \in Calls |-> IF Waiting(c) THEN "over" ELSE pc[c]]
    /\ reply' = [c \in Calls |-> IF Waiting(c) THEN [NoReply EXCEPT !.status = "lost"]
                                               ELSE reply[c]]
    /\ UNCHANGED <<asked, draft, cache, measured, purged, faults, drops>>

\* What a call does with the answers it is waiting for.
Proceed(c) ==
    \/ Hit(c) \/ Miss(c) \/ ReadRaises(c)
    \/ Generate(c) \/ Misfit(c) \/ Down(c) \/ Escape(c)
    \/ Store(c) \/ StoreRaises(c) \/ Return(c)

Next ==
    \/ \E c \in Calls : Refuse(c) \/ EndAtOnce(c) \/ Begin(c) \/ Cancel(c) \/ Proceed(c)
    \/ \E k \in Keys : Drop(k)
    \/ Restart

Spec == Init /\ [][Next]_vars

\* Redis and the model answer, or the connection breaks: Ollama requests have a
\* timeout of 300 s, Anthropic's client one of its own.
FairSpec == Spec /\ \A c \in Calls : WF_vars(Proceed(c))

-----------------------------------------------------------------------------
(* Properties *)

\* Every call that passed the rate limiter is in grpc_requests_total once when it
\* is over, on every way out; a refused call, or one the process died under, is not.
MeasuredOnce ==
    \A c \in Calls :
        measured[c]["ok"] + measured[c]["error"]
          = IF reply[c].status \in {"none", "refused", "lost"} THEN 0 ELSE 1

\* The cache is optional: with Redis failing at any command, a call with valid
\* parameters fails only because of the model, never once something was generated
\* for it.
FailureIsTheModels ==
    \A c \in Calls \ Malformed :
        reply[c].status \in {"declined", "aborted"} => asked[c] > 0 /\ draft[c] = Nothing

\* An answer taken from the cache cost the call no request to the model; its own
\* cost no more requests than the provider has attempts.
SpendsNoMore ==
    \A c \in Calls : reply[c].artifact # Nothing =>
        IF reply[c].artifact.by = c
        THEN asked[c] \in 1 .. Attempts[reply[c].artifact.model]
        ELSE asked[c] = 0

\* The prompts whose answer may go to c: its own, unless the prompt cannot show all
\* deliverables; then the order of the request has chosen some.
Alike(c) == IF RequestOf[c].shown = "all"
            THEN {Prompt(c)}
            ELSE {Prompt(d) : d \in {e \in Calls : SameParameters(e, c)}}

\* A call that gets someone else's answer gets one made for the prompt its own
\* parameters would have given, up to the choice among more than 50 deliverables.
ServedFitsPrompt ==
    \A c \in Calls : reply[c].artifact # Nothing => reply[c].artifact.prompt \in Alike(c)

\* What has expired or was invalidated is not handed out again, whatever calls
\* were under way at that moment.
PurgedStaysPurged ==
    [][\A c \in Calls : reply'[c] # reply[c] =>
           reply'[c].artifact \notin {a \in purged : a.by # c}]_vars

PromptsOf == [c \in Calls |-> Alike(c)]
Own == {c \in Calls : RequestOf[c].tone \in {"absurd", "uncached"}}

\* The interceptors, the cache, the retries and the failures behind a call are
\* invisible to the client: it ends once, with an answer made for its prompt, by
\* itself if it is absurd.
Contract == INSTANCE AnswerContract
    WITH PromptsOf <- PromptsOf, Own <- Own,
         artifacts <- {draft[c] : c \in Calls} \ {Nothing},
         outcome <- [c \in Calls |-> [status |-> reply[c].status,
                                      artifact |-> reply[c].artifact]]
ContractSpec == Contract!Spec

\* A call that has begun ends, however often the model answers beside the point.
EveryCallEnds == \A c \in Calls : Waiting(c) ~> pc[c] = "over"

\* talent_detection_servicer.py, lines 33-34: model_version lets the backend trace
\* which model has produced which verdict, whatever the provider.
VersionNamesTheModel ==
    \A c \in Calls : reply[c].artifact # Nothing =>
        reply[c].version = reply[c].artifact.model

\* _interceptors.py, line 25: success or failure of every RPC is recorded.
OkMeansCompleted ==
    \A c \in Calls : measured[c]["ok"] > 0 => reply[c].status \in {"answer", "declined"}

-----------------------------------------------------------------------------
(* The inductive strengthening of the proofs (LlmRpcProofs). *)

\* How far a call is tells what has been spent on it and what it holds.
CallInv ==
    \A c \in Calls :
        /\ reply[c].status = "none" <=> pc[c] # "over"
        /\ reply[c].artifact # Nothing => reply[c].status = "answer"
        /\ pc[c] \in {"idle", "reading"} => asked[c] = 0
        /\ pc[c] \in {"idle", "reading", "asking"} => draft[c] = Nothing
        /\ pc[c] \in {"reading", "asking", "storing", "stored"} => c \notin Trivial
        /\ pc[c] \in {"reading", "storing", "stored"} => Cacheable(c)
        /\ pc[c] \in {"storing", "stored"} => draft[c] # Nothing
        /\ pc[c] = "asking" => asked[c] \in 1 .. Attempts[model]

\* Whatever is anywhere was generated by the call it names, for that call's key,
\* and is in the cache only if that call shares; what was dropped was stored.
OriginInv ==
    /\ \A c \in Calls : draft[c] # Nothing =>
          /\ draft[c].by = c /\ draft[c].key = Key(c) /\ draft[c].prompt = Prompt(c)
          /\ asked[c] \in 1 .. Attempts[draft[c].model]
    /\ \A k \in Keys : cache[k] # Nothing =>
          /\ cache[k] = draft[cache[k].by] /\ cache[k].key = k
          /\ Cacheable(cache[k].by)
          /\ pc[cache[k].by] \in {"stored", "over"}
          /\ cache[k] \notin purged
    /\ \A a \in purged : a = draft[a.by] /\ pc[a.by] \in {"stored", "over"}
=============================================================================
