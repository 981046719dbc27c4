--------------------------- MODULE ChallengePrompt ---------------------------
(***************************************************************************)
(* What GenerateChallenge makes of the fields of a request: the parameters *)
(* with their defaults, the key of the cache, the two prompts, and the     *)
(* metadata of the challenge, the reward among them.  LlmRpc has the calls *)
(* that race for the cache; here they come one after the other, with every *)
(* field in sight.                                                         *)
(*                                                                         *)
(* A prompt is a record of what it says; the wording is left out.  What    *)
(* the model writes is left out, too, but not what it was told when it did.*)
(***************************************************************************)
EXTENDS Integers, Sequences, FiniteSetsExt, SequencesExt

CONSTANTS
    Asks,          \* sequences of requests, served in that order by one service
    Orientations,  \* slugs of orientations_catalog.json
    Domains,       \* keys of DOMAIN_CONTEXTS
    Tones          \* keys of TONE_GUIDES

ChallengeRequest ==
    [domain : STRING, difficulty : Int, duration : Int, mode : STRING, tone : STRING,
     ai : BOOLEAN, language : STRING, tags : Seq(STRING), programming : STRING,
     orientation : STRING, training : BOOLEAN, project : STRING]

ASSUME AsksAssumption == Asks \subseteq Seq(ChallengeRequest)

VARIABLES
    asks,     \* the requests
    stored,   \* the challenges in the cache: a function from keys
    replies   \* one for each request served so far: <<>> when it was declined

promptVars == <<asks, stored, replies>>

PromptIdle == asks = <<>> /\ stored = <<>> /\ replies = <<>>

PromptInit == asks \in Asks /\ stored = <<>> /\ replies = <<>>

Default(x, absent, value) == IF x = absent THEN value ELSE x

\* ChallengeParams, from a request: 0 and "" are what protobuf says of an unset field.
Params(r) ==
    [r EXCEPT !.difficulty = Default(@, 0, 1), !.duration = Default(@, 0, 30),
              !.mode = Default(@, "", "solo"), !.tone = Default(@, "", "serious"),
              !.language = Default(@, "", "fr")]

\* The bounds the fields declare.
Valid(p) == p.difficulty \in 1 .. 5 /\ p.duration \in 5 .. 180

\* Training takes one off.
EffectiveDifficulty(p) == IF p.training /\ p.difficulty > 1 THEN p.difficulty - 1 ELSE p.difficulty

Tongue(p) == IF p.language = "fr" THEN "francais" ELSE "English"

\* The language imposed on the candidate, "any" where the system prompt leaves the choice.
Imposed(p) == IF p.programming # "" THEN p.programming ELSE IF p.domain = "code" THEN "any" ELSE ""

\* build_system_prompt: what it does not know has a fallback, or is not mentioned.
SystemPrompt(p) ==
    [language   |-> Tongue(p),
     duration   |-> p.duration,
     difficulty |-> EffectiveDifficulty(p),
     hidden     |-> IF EffectiveDifficulty(p) <= 3 THEN 2 ELSE 4,
     mode       |-> p.mode,
     ai         |-> p.ai,
     domain     |-> IF p.domain \in Domains THEN p.domain ELSE "code",
     tone       |-> IF p.tone \in Tones THEN p.tone ELSE "serious",
     job        |-> IF p.orientation \in Orientations THEN p.orientation ELSE "",
     training   |-> p.training,
     project    |-> p.project,
     imposed    |-> Imposed(p),
     tags       |-> p.tags]

\* build_user_prompt: the raw domain, tone and difficulty.
UserPrompt(p) ==
    [domain |-> p.domain, difficulty |-> p.difficulty, duration |-> p.duration, tone |-> p.tone,
     mode |-> p.mode, language |-> Tongue(p), programming |-> p.programming, tags |-> p.tags]

\* Mutated form of CacheKey: two requests with the same prompts share an entry.
CacheKeyOfPrompts(p) ==
    [system |-> [SystemPrompt(p) EXCEPT !.tags = ToBag(@)],
     user   |-> [UserPrompt(p) EXCEPT !.tags = ToBag(@)]]

\* Every parameter, with the tags sorted.
CacheKey(p) == [p EXCEPT !.tags = ToBag(@)]

\* int(difficulty * duration_factor * complexity); its decimals are tenths.
Reward(difficulty, duration, tone, ai) ==
    (difficulty * Max({1, duration \div 15})
        * (10 + (IF tone = "absurd" THEN 5 ELSE 0) + (IF ai THEN 0 ELSE 3))) \div 10

\* The fields of a challenge that the service fills in itself.
Metadata(p) ==
    [difficulty |-> p.difficulty, duration |-> p.duration, domain |-> p.domain, tone |-> p.tone,
     ai |-> p.ai, language |-> p.language,
     reward |-> Reward(p.difficulty, p.duration, p.tone, p.ai)]

Challenge(p) == [system |-> SystemPrompt(p), user |-> UserPrompt(p), meta |-> Metadata(p)]

IsCacheable(p) == p.tone # "absurd"

Asking == Len(replies) < Len(asks)
Current == Params(asks[Len(replies) + 1])

\* Invalid parameters, or a model that fails: success = False.
DeclineChallenge ==
    /\ Asking
    /\ Valid(Current) => ~(IsCacheable(Current) /\ CacheKey(Current) \in DOMAIN stored)
    /\ replies' = Append(replies, <<>>)
    /\ UNCHANGED <<asks, stored>>

ServeCached ==
    /\ Asking
    /\ Valid(Current)
    /\ IsCacheable(Current)
    /\ CacheKey(Current) \in DOMAIN stored
    /\ replies' = Append(replies, <<stored[CacheKey(Current)]>>)
    /\ UNCHANGED <<asks, stored>>

GenerateChallenge ==
    /\ Asking
    /\ Valid(Current)
    /\ IsCacheable(Current) => CacheKey(Current) \notin DOMAIN stored
    /\ replies' = Append(replies, <<Challenge(Current)>>)
    /\ stored' = IF IsCacheable(Current)
                 THEN [k \in DOMAIN stored \cup {CacheKey(Current)} |->
                          IF k = CacheKey(Current) THEN Challenge(Current) ELSE stored[k]]
                 ELSE stored
    /\ UNCHANGED asks

PromptNext == DeclineChallenge \/ ServeCached \/ GenerateChallenge

PromptSpec == PromptInit /\ [][PromptNext]_promptVars
-----------------------------------------------------------------------------
(* Properties *)

\* What is in the cache was written for a request served before, and is there under its key;
\* a request is answered with a challenge written for one up to it, or with nothing.
PromptTypeOK ==
    /\ asks \in Asks \/ asks = <<>>
    /\ Len(replies) <= Len(asks)
    /\ \A k \in DOMAIN stored : \E n \in DOMAIN replies :
          k = CacheKey(Params(asks[n])) /\ stored[k] = Challenge(Params(asks[n]))
    /\ \A n \in DOMAIN replies :
          replies[n] = <<>> \/ \E m \in 1 .. n : replies[n] = <<Challenge(Params(asks[m]))>>

UpToTagOrder(prompt) == [prompt EXCEPT !.tags = ToBag(@)]

\* A request is answered with a challenge that was written to its own prompts, but for the
\* order of the tags, and that carries its own metadata: difficulty, language and reward are
\* those it asked for, although training, an unknown domain or tone, or a language other
\* than French and English have no prompts of their own.
SameKeySamePrompt ==
    \A n \in DOMAIN replies : \A reply \in Range(replies[n]) :
        LET p == Params(asks[n])
        IN  /\ UpToTagOrder(reply.system) = UpToTagOrder(SystemPrompt(p))
            /\ UpToTagOrder(reply.user) = UpToTagOrder(UserPrompt(p))
            /\ reply.meta = Metadata(p)
=============================================================================
