-------------------------- MODULE ChallengeVariant --------------------------
(***************************************************************************)
(* GenerateVariant: a challenge that the backend sends along is made       *)
(* harder, easier, shorter, longer, or moved to another language.  The     *)
(* model is paid for first; what the variant measures is worked out from   *)
(* the request and the model's answer afterwards, and checked last.        *)
(***************************************************************************)
EXTENDS Integers, FiniteSetsExt, ChallengePrompt

\* A request is [titled, kind, difficulty, duration, tone, ai, target], difficulty and
\* duration those of the original and target a set: the number that target_param reads as,
\* nothing when it is empty or no number.  An answer is [difficulty, duration, readable], the
\* two sets as well: the schema has neither field, but only some providers hold the model to
\* it; readable is FALSE when int() raises for one of them.
CONSTANTS Variants, ModelAnswers

VariantRequest ==
    [titled : BOOLEAN, kind : STRING, difficulty : Int, duration : Int, tone : STRING,
     ai : BOOLEAN, target : {s \in SUBSET Int : \A m, n \in s : m = n}]

ASSUME VariantsAssumption == Variants \subseteq VariantRequest

VARIABLES
    variant,      \* the request
    told,         \* what the model has answered
    outcome,      \* the challenge of the response: [difficulty, duration, reward]
    variantStage  \* idle, received, paid, success, declined or aborted

variantVars == <<variant, told, outcome, variantStage>>

NoVariant == [titled |-> FALSE, kind |-> "", difficulty |-> 0, duration |-> 0,
              tone |-> "", ai |-> FALSE, target |-> {}]
NoAnswer == [difficulty |-> {}, duration |-> {}, readable |-> TRUE]
NoOutcome == [difficulty |-> 0, duration |-> 0, reward |-> 0]

VariantIdle ==
    variant = NoVariant /\ told = NoAnswer /\ outcome = NoOutcome /\ variantStage = "idle"

VariantInit ==
    /\ variant \in Variants
    /\ told = NoAnswer
    /\ outcome = NoOutcome
    /\ variantStage = "received"

VariantKinds == {"harder", "easier", "different_lang", "shorter", "longer"}

\* The original, with the defaults of an unset field.
Original == [variant EXCEPT !.difficulty = Default(@, 0, 1), !.duration = Default(@, 0, 30)]

\* The member of a set of at most one, or else a default.
Given(set, default) == IF set = {} THEN default ELSE Min(set)

\* A title is missing, or the kind is unknown: no model is asked.
RefuseVariant ==
    /\ variantStage = "received"
    /\ ~variant.titled \/ variant.kind \notin VariantKinds
    /\ variantStage' = "declined"
    /\ UNCHANGED <<variant, told, outcome>>

\* The request to the model ends: an answer, a known error, or an exception that escapes.
AskVariant ==
    /\ variantStage = "received"
    /\ variant.titled /\ variant.kind \in VariantKinds
    /\ \/ told' \in ModelAnswers /\ variantStage' = "paid"
       \/ variantStage' \in {"declined", "aborted"} /\ UNCHANGED told
    /\ UNCHANGED <<variant, outcome>>

\* Mutated form of Harder: a step that is not clamped.
HarderUnclamped(d) == d + 1

Harder(d) == Min({5, d + 1})
Easier(d) == Max({1, d - 1})

\* Mutated form of Halved: no shorter than what a fragment is paid for.
HalvedToQuarters(d) == Max({15, d \div 2})

Halved(d) == Max({5, d \div 2})
Doubled(d) == Min({180, d * 2})

\* The target as it is, or a step in the direction of the kind, within the bounds.
ResolveMetadata(o) ==
    [difficulty |-> CASE o.kind = "harder" -> Given(o.target, Harder(o.difficulty))
                      [] o.kind = "easier" -> Given(o.target, Easier(o.difficulty))
                      [] OTHER             -> o.difficulty,
     duration   |-> CASE o.kind = "shorter" -> Given(o.target, Halved(o.duration))
                      [] o.kind = "longer"  -> Given(o.target, Doubled(o.duration))
                      [] OTHER              -> o.duration]

\* What the model says of the variant counts before what was to be expected.
Measures ==
    LET expected == ResolveMetadata(Original)
    IN  [difficulty |-> Given(told.difficulty, expected.difficulty),
         duration   |-> Given(told.duration, expected.duration)]

\* The parameters the reward is computed from are validated.
BuildVariant ==
    /\ variantStage = "paid"
    /\ told.readable
    /\ IF Valid(Measures)
       THEN /\ variantStage' = "success"
            /\ outcome' = [difficulty |-> Measures.difficulty, duration |-> Measures.duration,
                           reward |-> Reward(Measures.difficulty, Measures.duration,
                                             variant.tone, variant.ai)]
       ELSE variantStage' = "aborted" /\ UNCHANGED outcome
    /\ UNCHANGED <<variant, told>>

\* A difficulty or a duration that int() refuses: the call fails after the model's answer.
UnreadableMeasures ==
    /\ variantStage = "paid"
    /\ ~told.readable
    /\ variantStage' = "aborted"
    /\ UNCHANGED <<variant, told, outcome>>

VariantNext == RefuseVariant \/ AskVariant \/ BuildVariant \/ UnreadableMeasures

VariantSpec == VariantInit /\ [][VariantNext]_variantVars
-----------------------------------------------------------------------------
(* Properties *)

\* A challenge that ChallengeParams accepts comes of a success, and of nothing else.
VariantTypeOK ==
    /\ variant \in Variants \/ variant = NoVariant
    /\ told \in ModelAnswers \cup {NoAnswer}
    /\ variantStage \in {"idle", "received", "paid", "success", "declined", "aborted"}
    /\ variantStage = "success" => Valid(outcome) /\ outcome.reward \in Nat
    /\ variantStage # "success" => outcome = NoOutcome

\* Nobody but the client and the model can make a variant fail once it has been paid for:
\* with an original in the bounds, no target, and an answer that keeps to the schema, what
\* the service works out itself stays in the bounds, and the variant comes.
PaidVariantsCome ==
    [][variantStage = "paid" /\ told = NoAnswer /\ variant.target = {} /\ Valid(Original)
         => variantStage' = "success"]_variantVars

\* Without a target and a contradicting model, a variant of a challenge in the bounds goes
\* the way its kind says and no other: one measure moves unless it is at its bound, the
\* others stay, and the reward moves with it, never against it.
VariantMovesItsDimension ==
    variantStage = "success" /\ variant.target = {} /\ told = NoAnswer /\ Valid(Original) =>
        LET o == Original
            reward == Reward(o.difficulty, o.duration, o.tone, o.ai)
        IN  /\ variant.kind \notin {"harder", "easier"} => outcome.difficulty = o.difficulty
            /\ variant.kind \notin {"shorter", "longer"} => outcome.duration = o.duration
            /\ CASE variant.kind = "harder" ->
                      outcome.difficulty > o.difficulty \/ o.difficulty = 5
                 [] variant.kind = "easier" ->
                      outcome.difficulty < o.difficulty \/ o.difficulty = 1
                 [] variant.kind = "shorter" ->
                      outcome.duration < o.duration \/ o.duration = 5
                 [] variant.kind = "longer" ->
                      outcome.duration > o.duration \/ o.duration = 180
                 [] OTHER -> TRUE
            /\ CASE variant.kind \in {"harder", "longer"}  -> outcome.reward >= reward
                 [] variant.kind \in {"easier", "shorter"} -> outcome.reward <= reward
                 [] OTHER                                  -> outcome.reward = reward
=============================================================================
