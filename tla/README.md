# TLA+ models of skilluv-ia

skilluv-ia is the AI service of the Skilluv platform. A Rust backend reaches it
in two ways: it enqueues *jobs* that an arq worker takes from Redis, and it calls
*gRPC methods* that mostly end at a language model. This directory models both
paths, checks the models with TLC on small instances, and proves their safety
properties with TLAPS for every instance.

Contents: [the system](#the-system) · [plan](#plan) ·
[modules](#modules-and-their-code) · [runs](#runs) · [fairness](#fairness) ·
[proofs](#proofs) · [findings](#findings) · [not modelled](#not-modelled).

## The system

One process (`src/src/main.py`) runs, in one asyncio event loop, a FastAPI server
(health, metrics), a gRPC server and an arq worker. They share a Redis
connection, the Prometheus registry and the provider singleton of `llm/factory.py`.

| Part | State it keeps | Operations | What is hard | What makes it correct |
|---|---|---|---|---|
| Job envelope: `workers/*.py` (seven functions, the same control) | locals across awaits; `jobs_in_progress`, `jobs_total` | idempotence check, service call, store the result, publish a notification, two `except` clauses, `finally` | overlapping deliveries of one job id, Redis failing between two awaits (also inside the `except` clauses), cancellation by `job_timeout` (no `Exception`), restarts and redelivery | a job is completed once; a notification finds a result; a success is answered; metrics do not invent outcomes; the gauge returns to zero |
| Results in Redis: `utils/redis_client.py` | `skilluv:result:{job_id}` with a TTL; a pub/sub channel | `write_result`, `job_already_processed`, `publish_notification` | last writer wins, replies lost after the effect, expiry | what the backend sees of a job is a ledger: decided once, downgraded at most |
| Rate limiter: `grpc_server/_rate_limit.py` | `(peer, method)` to tokens and time of refill, in memory | check and consume | two clock reads for a new bucket (negative elapsed time), burst plus refill in one window, restarts, one bucket for all unknown peers | a bound on the calls let through in any window, and so on what they cost the models; a peer within its budget is never refused |
| Metrics interceptor: `grpc_server/_interceptors.py`, `server.py` | `grpc_requests_total` | wraps every unary call, inside the rate limiter | aborts, escapes, cancellation | every call past the limiter is counted once |
| Servicers: `grpc_server/*_servicer.py` | none | `GenerateChallenge`, `GenerateVariant`, `AnalyzePerformance`, `SuggestCareerPath`, `ReviewCode`, `CheckPlagiarism` | errors in the response against errors by `abort` | a call ends once, with an answer that fits its parameters |
| Caches: `services/_challenge_cache.py`, `_talent_cache.py` | Redis entries with a TTL, shared by processes and models | read, write, invalidate | keys that miss a parameter, two misses at once, a failing Redis, entries dropped under a call, entries older than the process | an entry is only served to calls it fits; a failing Redis fails no call; what was dropped is gone |
| Providers: `llm/*.py` | singleton client | `complete_structured` with retries (Ollama) | off-by-one in the attempts, errors of unforeseen classes | bounded cost; the call ends |
| Services: challenge generator, talent analyzer, code reviewer | none of their own | defaults, prompt, model, post-processing | prompts and metadata that depend on more than the key, values of the model or of the service out of bounds after the model was paid for | see caches; a variant comes, and goes its way; a career path leads somewhere |
| Services: plagiarism detector, matcher, recommender, analytics | load-once parsers and embedding models, a capped cache of vectors | scoring, two engines with a fallback each | rounding at a threshold, ties, cuts, a failed load that is never retried, fallbacks on another scale | verdicts agree with the scores shown; a verbatim copy is caught by every worker; rankings are sorted and complete |
| Media: `media_processor.py`, `_frame_renderer.py`, `minio_client.py` | temporary directory, MinIO objects | fold edit events into frames, encode, upload | deletes beyond the text, integer frame rates, an upload followed by a failure | one frame per event; a completed job has its object |
| Start: `main.py` | three servers in one loop | `gather`, blocking `run_worker`, `close_redis` | a blocking call in a running loop | every server comes up, or the process ends |
| HTTP: `api/*.py` | none | health, metrics | - | - |

`PROJECT.json` lists every part with its files and status, and the hazards of the
code, each at its line, with the properties that would catch it going wrong.

## Plan

Done, in this order (most important behaviour first):

1. `ResultLedger` (abstract) and `JobEnvelope`, which implements it when handlers
   of one job id do not overlap.
2. `RateLimit`.
3. `AnswerContract` (abstract) and `LlmRpc`, which implements it.
4. `MediaPipeline`, composed with the envelope, which it is shown to keep to.
5. Proofs: type correctness and every safety property of these four components,
   and the three refinements.
6. The services that compute and do not wait, one module each: `RankedBatch`,
   `PlagiarismCheck`, `ReplayFrames`; `PureServices` puts them side by side.
7. `GuardedLlm`: `RateLimit` in front of `LlmRpc`, shown to keep to both, with the bound on
   what the models are asked for. Proved.
8. What an RPC makes of a request and of the model's answer: `ChallengePrompt`,
   `ChallengeVariant`, `CareerPath`. What is below the scores: `SimilarityEngines`, proved about
   together with `PlagiarismCheck`, and `MatcherEmbeddings`.
9. Proofs about 6 and 8, each service by itself and all of them in their composition, and that
   the rate limiter refuses nobody who keeps to his budget. With them every safety
   invariant and action property of the passing runs is a theorem.

10. Type invariants of all eight modules of `PureServices`, lists with repeated entries in the
   rankings, zero vectors in the engines.

Left: the hypotheses under which two of the violated claims do hold. That one process of one model names the model that
answered (`VersionNamesTheModel`) needs no proof; that a job which nothing interrupts announces what it stores
(`StoredIsAnnounced`) is a liveness property. For the other two, see `SerialIdempotence` and
`UncancelledIsCountedRight` under [proofs](#proofs).

## Modules and their code

**`JobEnvelope`** models the seven job functions, which share one control flow
(`workers/plagiarism.py` is typical). A *delivery* is an arq queue entry; several may
carry one job id. `pc[d]` is the await at which its handler stands:

| `pc[d]` | in the code |
|---|---|
| `queued` | in arq's queue (or back in it after a restart) |
| `checking` | in `job_already_processed`, before the `try` |
| `serving` | in the service, gauge incremented |
| `storing` | in `write_result`, of the `try` body or of an `except` clause (`branch[d]`) |
| `announcing` | in `publish_notification`, likewise |
| `returned`, `raised` | the coroutine is done, arq has not recorded it |
| `succeeded`, `errored` | arq has |

`Catch` is what an exception does: caught when it comes from the `try` body,
on to arq when it comes from an `except` clause; the two clauses
(`SkilluvAIError`, `Exception`) differ in wording only and are one branch. `Leave` is the
`finally` clause. A Redis command that raises has had its effect or not.
`Timeout` is arq's cancellation: `CancelledError` is not an `Exception`, so only
`finally` runs. `Restart` clears handlers and metrics and requeues what arq had not
recorded. `Expire` cannot remove a key under a handler that may have written it:
the time to live is 24 hours, a handler's life 5 minutes. arq itself is external,
modelled from the settings `start_worker` passes.

**`ResultLedger`** is what the backend may believe about one job: a verdict is
decided once, may be downgraded from completed to failed, never the other way, is
announced as it stands, and is forgotten at its time to live.

**`RateLimit`** keeps time in ticks, `Minute` of them to 60 seconds, and tokens in
units of 1/`Minute`, so that the refill of `capacity / 60` per second is an integer
and exact; the rounding of the code's floats is left out. `Admit` and `Refuse` are
`_check_and_consume`, whose two clock reads for a new bucket may be `MaxSkew` ticks
apart. Two observers, which the code does not have, state the properties: one counts the calls
admitted since an arbitrary moment `since`, one remembers the calls of the last minute.

**`LlmRpc`** models the calls that a model answers, from the interceptors to the
provider and back. A request is a record of what keys and prompts are made of:
`base` and `v2` (the later parameters), `tone` (absurd challenges are not cached;
`uncached` marks the methods without a cache) and `shown`, which of more than 50
deliverables the prompt shows. An *artifact* carries its key, its prompt, its model
and the call it was generated for, so that properties can tell whose it is.
`Hit`, `Miss`, `ReadRaises`, `Store`, `StoreRaises`, `Return` are the cache functions;
`Generate`, `Misfit`, `Down`, `Escape` what `complete_structured` may do; `Refuse`,
`EndAtOnce`, `Begin`, `Cancel` the outer layers; `Drop` is expiry or
`invalidate_cache`; `Restart` may come up with another model. A failure is put into the
response by `GenerateChallenge` (`Decline`) and aborts the other methods (`Abort`).

**`AnswerContract`** is the client's view: a call ends once; its answer was
generated for a prompt that fits its own parameters; calls that must not share
get an answer of their own.

**`MediaPipeline`** EXTENDS `JobEnvelope` and says what its service does when it is
`process_media_job`'s: `Begin` renders the frames or downloads the replay and spawns ffmpeg,
`EncoderExits` ends it, `Upload` is everything from its exit to the service's return,
`Refuse`, `EncodeFails` and `UploadRaises` are the failures. Each contains the envelope's action it
happens in (`ServiceReturns`, `ServiceRaises`) or leaves the envelope as it is;
`Cancelled` and `Stop` are the envelope's `Timeout` and `Restart` with what they do to ffmpeg, to
the temporary directory (`source`) and to the bucket (`object`). The service awaits
ffmpeg only: MinIO calls and rendering block the loop, which is why no step separates the
upload from the return. A *video* records the job it was made for, what it was cut from and
whether it is whole.

**`RankedBatch`** scores the items of a batch one by one (`ScoreItem`), then sorts and cuts
(`RankItems`), for the four services that do so; `Score` and `Keeps` select the service by
the kind of the batch. Scores are integers in a unit that makes the arithmetic of the
code exact. The noise of its floats is far below these units and rounded away before
scores are compared, except in the recommender, where it decides the order of
equal scores: `Sorted` has every such order. The recommender then asks a model for
reasons; `Reasons` and `ReasonsRaise` are the two ways in which that can end. Lists are
sequences: the code counts the repeated entries of a candidate challenge's `sub_skills` and of the
criteria's domains and languages, and so does `Hits`; what they are looked up in (`weak_areas`, the
`skill_domains` of a talent) is a set.
Three quotients (domains, fragments, languages) are rounded down to 1/30000 of a point, which is far below the tenth
of a point that scores are rounded to, and as monotone as the quotients are. What an item, a profile or
a criterion may be is said by the sets of records that bear the names of the pydantic models
(`TalentStats`, `CandidateChallenge`, ...); `BatchesAssumption` puts a payload together from them.

**`PlagiarismCheck`** compares a submission with a pool, one submission per step
(`Compare`), decides the flag (`Conclude`, where a job ends) and answers a client with
its own threshold (`Respond`). What the two engines say of a pair is arbitrary, to
one digit more than the shown scores, so that rounding matters: `Round4` leaves the
middle to the float. The settings' threshold is assumed to have four digits at most, as
the shown scores have.

**`ReplayFrames`** folds a session's edit events into the text each frame shows
(`Render`) and picks the rate of the video (`Encode`, with images or on a plain background).
A character is a mark naming the event that typed it, so that a frame says where its text
comes from. `Chop` is Python's `text[:-n] if n else text`, negative counts included. `Height` and `ShownAt`
say what a frame has to show without folding anything: how long the text is after each event, and where a character
comes from that has not been deleted since. For a negative count, which no client has a reason to send, `Height` has no other
idea of what is wanted than what Python's slice does.

**`SimilarityEngines`** is what `PlagiarismCheck` leaves open: `CompareTrees` is
`compute_ast_similarity`, `CompareMeanings` is `compute_embedding_similarity`, for the jobs of one
worker in a row. A source is what the engines see of it (tokens of its tree, words, characters); texts in `Vanishing` have
a zero vector, which is like nothing, itself included;
`parsers` and `embedder` are the module globals, tried once and kept, found or not. `Overlap` is
the Jaccard index of three functions of the code, over pairs of tokens or triples of characters. A
parser or a model may be missing, fail to load, or raise on a pair, which then falls back.

**`MatcherEmbeddings`** is the same question for `talent_matcher`: which of a search's talents are
scored by vectors and which by shingles, with the model tried once and a cache of vectors that fills up
(`CacheCap`) and outlives a search. A model that raises here fails the job (`EncodeRaises`).

**`ChallengePrompt`** has `GenerateChallenge` field by field: `Params` with its defaults, the two
prompts as records of what they say, the cache key, the metadata and the reward. Requests come one after
another; `LlmRpc` has those that race. **`ChallengeVariant`** has `GenerateVariant`: `AskVariant` is
the model, which is paid for first, `BuildVariant` what is made of its answer, with the validation that
comes last. `int()` is the set of the numbers it reads, at most one. **`CareerPath`** has
`SuggestCareerPath`: the default path of a user without skills, the model's advice, the filter
(`Listed`, the comprehensions over the catalogue's slugs).

**`GuardedLlm`** EXTENDS `RateLimit` and takes `LlmRpc` as `Rpc!`. `Pass` is `Admit` and the start of
the handler in one step: the wrapper of `intercept_service` awaits the servicer's coroutine right
after it has taken the token, and a coroutine runs to its first real wait. `TurnAway` is the two
`Refuse`s, `Work` and `GiveUp` what only the calls notice, `TimePasses` what only the clock does, and
`NewProcess` restarts both. `ticket` is the observer's: which calls took a token in the window. A client that
tries again makes another call. Requests are the provider's own attempts; what Anthropic's client
repeats by itself after a connection error is inside one of them.

**`PureServices`** composes the eight modules of services that compute: a behaviour is one worker or one servicer of
one of them, the others stay idle. Their control is sequential; what can be wrong is what
several steps add up to.

`MCJobEnvelope`, `MCRateLimit`, `MCLlmRpc`, `MCGuardedLlm`, `MCMediaPipeline`, `MCPureServices` hold the small instances.
Definitions commented as *mutated form* are the bugs each property must be able
to see; no action uses them.

## Runs

| Run | Properties | What it shows |
|---|---|---|
| `envelope_overlap` | `TypeOK`, `GaugeBalanced`, `MetricsNeverOverReport`, `SuccessMeansAnswered`, `AnnouncedIsReadable`, `EveryDeliveryEnds` | hold whatever overlaps and fails, services that hang included |
| `envelope_serial` | `IdempotentProcessing`, `LedgerSpec` | hold when handlers of one job id do not overlap |
| `envelope_duplicate` (violated) | `IdempotentProcessing` | two overlapping deliveries, no failure |
| `envelope_announce` (violated) | `StoredIsAnnounced` | a restart between result and notification |
| `media` | `MediaTypeOK`, `CompletedHasItsVideo`, `ObjectsAreWhole`, `ClipsFollowTheirReplay`, `OrphansAreTimeouts`, `EnvelopeSpec` | two replays of one submission, one of them empty, and a clip of it, through the envelope |
| `ratelimit_window` | `TypeOK`, `WindowBound`, `CompliantNeverRefused` | every spread of calls over two minutes |
| `llm_shared` | `TypeOK`, `SpendsNoMore`, `ServedFitsPrompt`, `FailureIsTheModels`, `PurgedStaysPurged` | three concurrent calls, two with one key, two models |
| `llm_contract` | `MeasuredOnce`, `ContractSpec` | calls of every kind |
| `guarded` | `SpendWithinBudget`, `EveryCallEnds` | the limiter in front of the calls: what a window's calls cost the models, and that a call let through ends, with a model that never fits |
| `llm_version` (violated) | `VersionNamesTheModel` | a cached verdict outlives its model |
| `llm_metrics` (violated) | `OkMeansCompleted` | a cancelled call is counted ok |
| `services` | `ServicesTypeOK`, `RankingIsComplete`, `BetterNeverBehind` | rankings are complete, sorted and fair to who deserves a place |
| | `CheckTypeOK`, `FlagCoversPlagiarism`, `VerdictCitesItsMatch`, `CopiesScoreFull` | verdicts agree with the scores shown and the match cited; a verbatim copy has full similarity on every worker |
| | `ScoredAlike` | the talents of a search are scored on one scale |
| | `FramesShowTheEdits`, `ReplayLengthBounded` | frames show the edits, at a bounded length |
| | `SameKeySamePrompt`, `PaidVariantsCome`, `VariantMovesItsDimension`, `CareerStaysInCatalogue` | answers are what was asked for, whatever the cache holds and the model makes up |

Bounds. *Envelope*: three deliveries, two of one job id, two handlers at once: a
third handler of the same job adds no new pair of awaits, and the second job (a
malformed message in `envelope_overlap`, a real one in `envelope_serial`) shows that jobs do
not disturb each other. One Redis error, after an exception of the service, is what leaves the
`except` clause; `envelope_serial` has two, which also enter and leave it; two starts per delivery and two
restarts, so that arq also abandons a delivery; one expiry, since what it destroys it destroys
completely. No symmetry is used: the same run checks liveness.
*Rate limit*: budget 2, three ticks to the minute (a tick refills two thirds of a
token, so fractions happen), six ticks, every start of the window, two connections of
one address and an unknown peer. *LLM*: three calls cover two misses on one key and a
hit after each; two Redis errors a failing read and a failing store; two drops an
entry dropped twice; one restart both models. A provider has 1 or 3 attempts. *Guarded*: three calls from two
connections of one address, with a budget of one a minute of two ticks, so that a third call within two minutes and a restart
is the most that can pass and the second is refused in most orders; one dropped entry, 3 attempts. *Media*: a
replay, an empty replay under the same key and a clip, two at a time, one Redis error, one restart
(so two starts), one expiry; ffmpeg and MinIO may fail any number of times. *Services*: every pair of items over both
sides of most thresholds, and trios with ties, which a cut to two separates, lists with repeated entries among them; pools of up
to three submissions with combined scores just below the threshold, on it and in the middle
between two roundings; every session of up to four of ten edits, deletes of nothing, of
too much and of a negative count among them, and sessions of up to 16 events, enough for a
rate above one image per second; one or two jobs of up to two pairs, of sources too short for a pair or a triple
among them, in a known, another and an unknown language, one of them with a zero vector; two searches of two or three talents with a cache of two vectors, which
the third text overruns; two challenge requests that differ in one field or in the order of their tags, each field with a
value that has a fallback; every kind of variant at and around the bounds of both measures, with targets and
answers in and out of bounds; advice with known, unknown and misfitting orientations. All the bounds
(`MaxFaults`, `MaxRestarts`, `MaxExpiries`, `MaxTries`, `MaxDrops`, `MaxTime`) are
constants, and the theorems hold for any value of them.

`CHECK_DEADLOCK FALSE` everywhere: a system whose deliveries or calls are all over, or whose
clock has reached its bound, has nothing left to do.

## Fairness

`JobEnvelope!FairSpec`: weak fairness of what a handler does once Redis has answered, of
arq's bookkeeping, and of `Timeout`, which `job_timeout` guarantees. A service need
never return: there is no fairness on `ServiceReturns`. The Redis client has
no socket timeout, so fairness of Redis replies is an assumption about the
network; in the envelope `Timeout` covers it. `Timeout` of a handler that never
awaits (CPU-bound services run synchronously) would need the event loop, which such
a handler occupies: `EveryDeliveryEnds` assumes that services come back to an await.

`LlmRpc!FairSpec`: weak fairness of a call's own next step. Ollama requests
time out after 300 seconds, Anthropic's client has a timeout of its own, and either ends the wait with
`Down`. `GuardedFairSpec` is the same: `WF` of `Work(c)`, and none of `Pass`, because nobody has to call.

## Proofs

All are checked by TLAPS, from the assumptions on the constants that the modules name and no others.
TLC evaluates them on the instances of the runs. What they ask for, and why it may be asked:

| Assumption | What it says | Why the code justifies it |
|---|---|---|
| `EnvelopeAssumption`, `LlmRpcAssumption`, `MediaAssumption`, `GuardedAssumption` | types, numbers that are positive, finitely many calls or deliveries, events and replays that belong together | they are parameters of the model, not of the code |
| `RateLimitAssumption` | budgets are positive; creating a bucket takes less time than refilling all but one of its tokens | the two clock reads, at `_rate_limit.py:79` and in the bucket made at line 82, have no await between them |
| `CheckAssumption`, `EnginesAssumption` | a threshold of four digits, weights that sum to 1, cosines in range | `config.py` and the schemas |
| `BatchesAssumption` | items, profiles and criteria have the fields and types of the pydantic models; counts are not negative, trust and similarity are shares | the backend counts; shares are what the bounds of relevance (115 points) presuppose |
| `SessionsAssumption` | an event has a type, a content, at most one count, of any sign | the events are unvalidated dictionaries: any type is allowed |
| `VariantsAssumption`, `AsksAssumption` | requests have the fields of the protocol, with any value | `skilluv_ai.proto` |
| `MatcherAssumption` | a profile is no blank text; the cache has some size | `build_profile_text` starts with "Talent" |
| `CareerAssumption` | the catalogue has no empty slug; an answer is lists of slugs | `orientations_catalog.json`; what else a model may write raises, as a misfit does, or is filtered, as an unknown slug is |

Each safety property P is proved as `Spec => []P` along Init, step and PTL:

- **Envelope** (`JobEnvelopeProofs`): `TypeOK` first. `GaugeBalanced` and
  `MetricsNeverOverReport` are inductive over it. `SuccessMeansAnswered` and `AnnouncedIsReadable`
  need `AnswerInv`: while a handler announces, its key is there, because only
  `Expire` removes keys and not under such a handler; and a stored result means an answered job.
- **Ledger** (also `JobEnvelopeProofs`): under `SerialSpec`, `SerialInv` says that what a handler
  has seen of its result key still holds when it acts on it. That yields idempotence and,
  step by step, the refinement of `ResultLedger`. Without serial handlers it is
  false: that is the run `envelope_duplicate`.
- **Rate limit** (`RateLimitProofs`): `TypeOK` contains the interesting part, tokens
  never go negative despite the skew, as long as creating a bucket takes less time than
  refilling all but one of its tokens. `WindowBound` alone is not inductive: `WindowInv` adds what the
  bucket still holds and what it would be refilled with by now. `CompliantNeverRefused` is about the past: a refusal
  now is the fault of calls of the last minute. `CompliantInv` turns it around. Until a peer has overrun its budget, at
  every delay `d` up to a minute, what the bucket holds, what it will have been refilled with by then, and the calls that
  are less than a minute old by then, are together at least the capacity. The passing of time moves `d`; a call
  takes one token and adds one call; an overrun ends the obligation for good. With `d = 0` a refusal, which means less than a token,
  leaves room for no conclusion but that the budget has been used up.
- **LLM calls** (`LlmRpcProofs`): `CallInv` relates how far a call is to what has
  been spent on it; `OriginInv` says that whatever is in a draft, in the cache
  or was dropped was generated by the call it names, for its key, by a call that shares.
  From the two follow `MeasuredOnce`, `FailureIsTheModels`, `SpendsNoMore`,
  `ServedFitsPrompt`, `PurgedStaysPurged` and the refinement of `AnswerContract`. `UncancelledIsCountedRight` is
  what is left of the claim that the run `llm_metrics` refutes: in a behaviour in which nobody cancels
  (`NobodyCancels`), what is counted as ok has got its response.
- **Media** (`MediaPipelineProofs`): every step is one of the envelope or invisible to it
  (`KeepsToTheEnvelope`), so the theorems of `JobEnvelopeProofs` hold of the pipeline too, and
  type correctness of the envelope is used here without being proved again (`MediaTypeCorrect` adds the pipeline's own). `MediaInv` then says that
  what a handler works on is sound (`BucketInv`: its source was whole and under its replay_key), and that
  a handler on its way to a completed verdict has its video in the bucket already
  (`VerdictInv`), which nothing removes.
- **Plagiarism** (`PlagiarismCheckProofs`): neither property is inductive, as both are about
  the end of a fold. `HighestInv` says what the fold has kept: every match is rounded from
  its own submission, and `highest` is the score of a first highest match. That a match which is
  plagiarism is flagged then rests on one fact, `RoundingKeepsVerdicts`: no threshold of four
  digits lies between a score and its rounding.

- **Engines** (`PlagiarismCheckProofs`): `CopiesScoreFull` with the ranges of `EnginesTypeOK` is inductive,
  on facts about `Overlap`: sets of runs are finite, a set is all of its union with itself, and two
  equal sequences too short for a run are caught by the comparison. A text whose own vector is zero is excepted from the
  half about meanings: the code gives it 0 against itself (`_plagiarism_embeddings.py:54`). `VerbatimCopyIsCaught` takes it from there:
  with a submission of full similarity in the pool the verdict is plagiarism with the score 1.
- **Limiter and calls** (`GuardedLlmProofs`): every step is a step or a stutter of both parts
  (`KeepsToBoth`), so that `WindowBound` holds of the composition. `TicketInv` says that what costs anything
  has a token, and no more than a provider's attempts; `CountInv` that the limiter has counted every token of the
  window. The requests of the window are then pairs of a call and an attempt, no more than the product.
- **Rankings** (`RankedBatchProofs`): `RankInv` says that what is scored so far is what the service keeps of
  the items it has looked at, in their order and with their scores, and that a ranking is one of those
  `Ranked` allows. `RankingIsComplete` follows from facts about bijections and cuts alone. `BetterNeverBehind`
  needs one lemma per service, that who deserves as much scores as much (`GemScoreMonotone`, `ChurnRiskMonotone`,
  `BaseScoreMonotone`, `RelevanceFacts`) and is kept as well (`DeservingAreKept`), through tiers, caps,
  integer divisions and cardinalities; a list deserves as much as another when it has each of its entries and as often
  (`Covers`), and then has as many hits (`CoveringHits`). They rest on the order of the code's numbers: a higher tier gives more points, and
  the discount for the well known grows with the followers.
- **Replays** (`PureServicesProofs`, as all that follows): `FramesShowTheEdits` is inductive with the types. One step is `EditedShows`:
  the text after an event shows what it ought to, if the text before it did, for each kind of event and each sign of a
  count. `Height` is a recursive function; that it has numbers for values, and satisfies its equation
  (`HeightIs`), is an induction over the events, which is done without the library's induction
  theorems: a set of numbers has a least one (`LeastNumber`, from the well-foundedness of finite sets), so a set with 0 and
  the successors of its members has all (`UpTo`). `ReplayLengthBounded` is `RateKeepsTheLength`, the
  arithmetic of two nested integer divisions.
- **Challenges**: `PromptInv` says that every entry of the cache was made for parameters with its key; equal keys have equal
  fields but for the order of the tags (`SameKeySameFields`), hence the same prompts and the same reward. **Variants**: each of
  the four measures moves within the bounds (`StepsOfDifficulty`, `StepsOfDuration`), and the reward is monotone in
  both (`RewardMonotone`). **Career paths**: `Listed` is a recursive function too, and by the same induction has nothing but
  slugs of the catalogue.
- **Searches**: `MatcherInv` says how every profile of a search is compared once the model has been tried
  (`Way`). No vector is kept without a model, so a cache that is full or empty makes no difference; and no score comes
  before the first try, since a profile is never blank.
- **Composition**: a step of one service is a step of none of the others (`OneServiceSteps`), so the conjunction of
  the inductive invariants is inductive for `PureServices`, and the invariants of the run `services` hold together.

What stays with TLC: liveness, `EveryDeliveryEnds` and `EveryCallEnds`, which needs ENABLED and fairness and is out of the
prover's reach; and the properties of the runs that expect a violation, which are false. Every other property of the runs is
stated by a theorem. The theorems say nothing of what the modules abstract from: floats, where `RankedBatch` (three
quotients apart) and `RateLimit` compute exactly, and the order of equal challenge scores, which is arbitrary.

`ServedFitsPrompt` allows one thing on purpose: the key of AnalyzePerformance sorts all
deliverables, the prompt shows the first 50 in request order
(`services/talent_analyzer.py:204`), so two requests with one key may differ in the
deliverables shown. Everything else must agree.

## Findings

Runs marked *violated* are disagreements of the code with its own documentation;
`PROJECT.json` quotes both sides. In short:

1. The idempotence check does not hold for overlapping deliveries (`workers/plagiarism.py:23`).
2. A stored result may never be announced (`workers/plagiarism.py:49`).
3. `model_version` may name a model that did not produce the verdict (`talent_detection_servicer.py:36`).
4. A cancelled call is counted as ok (`_interceptors.py:49`).

Smaller ones, seen while reading and not given a run:

- `_rate_limit.py` is documented to fail open; a call whose peer is unknown is not let through but
  shares one bucket with all others of its kind.
- `skilluv_ai.proto:241` gives 0.85 as the default threshold, the settings 0.80.
- A replay's `duration_seconds` is a tenth of the session, not the length of the video, which is
  shorter when there are few events and up to twice as long when there are many
  (`ReplayLengthBounded` says how far apart they can be).
- A candidate with an unknown title is filtered as if below all titles and scored as if he
  had the lowest.
- A failure of the recommender's reasons is commented as non-fatal; an exception that is not an API
  error fails the job.
- `_talent_cache.py:12` says that code reviews have a cache of their own, and they have none.
- `arq_max_retries` is in the settings and not passed to arq; the workers' docstrings name queues
  (`skilluv:queue:*`) that arq, started on its default queue, does not read (`main.py:49`); `start_worker`
  calls a blocking function inside the running loop, and `docker-compose.yml:96` hands `asyncio.gather(...)`, which is no
  coroutine, to `asyncio.run`.
- The path of a user without skills contains `ui-designer` (`talent_analyzer.py:377`), which is not among the
  31 orientations, although `talent_analyzer.py:389` says that slugs must exist in the catalogue. The number of
  suggestions asked for is put to the model and not enforced on its answer.
- `skilluv_ai.proto:253` has `similar_submission_id` empty when there is no plagiarism; `plagiarism_servicer.py:62-66` names
  the closest submission of any pool that has one. `plagiarism_detector.py:8` flags a score *above* the threshold;
  the code, there (line 44) and in the servicer (line 61), flags one equal to it, too. Either is one comparison or one
  field, seen in a single step, so neither has a run; `VerdictCitesItsMatch` asks for nothing where the two sides differ: a
  score on the threshold may go either way, and an innocent answer may name anybody or nobody.
- `ollama_provider.py:11` and `:14` speak of one retry with a correcting prompt; the provider makes three attempts
  (`ollama_max_retries` in `config.py:83`, whose comment says so). `LlmRpc` has three.
- `plagiarism_detector.py:4` and the docstring of `_normalize_text` (`_plagiarism_ast.py:100`) say that identifiers are
  replaced before the comparison. The fallbacks compare names, so that the score of
  a renamed copy depends on what the worker could load; only a verbatim copy is sure to be caught everywhere.
- A completed result whose announcement fails is overwritten with a failed one (`workers/plagiarism.py:50`). Nothing in the
  repository says what should happen; `ResultLedger` calls it `Downgrade` and no property forbids it.
- The prompt of a variant asks for a difficulty and a duration that its schema forbids, and contains a literal
  `{target_param}` (`challenge_generator.py:184`). A target out of bounds, or an answer with a measure out of bounds, makes
  the call fail after the model was paid for, with an error that the servicer does not expect; API-CONTRACT.md
  says that durations are bounded to [5..180].
- `_effective_difficulty` says that the prompt works with the softened difficulty; the user prompt states the
  original one.

## Not modelled

- The wording of prompts, the parsing of JSON, pixels and fonts, what tree-sitter and the embedding models see in a
  text: data, not control. The models keep what depends on them: which fallback is taken, what a key must tell apart, what
  is out of bounds.
- The start of the process (`main.py`): whether three servers come up beside a blocking `run_worker` is decided by
  arq, uvicorn and asyncio, and `docker-compose.yml` starts servers and workers as processes of their own. A model of it would be one
  of those libraries. For the same reason no run shows how much a CPU-bound job starves the event loop.
- The client singleton of `redis_client.py`, `read_result` and `close_redis`, the copying of fields into and out of
  protobuf messages, reflection and the gRPC health service, the HTTP endpoints (they only read), deployment files
  and benchmarks.
