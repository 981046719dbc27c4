----------------------------- MODULE CareerPath -----------------------------
(***************************************************************************)
(* SuggestCareerPath: the model is shown the catalogue of orientations and *)
(* recommends some; what it recommends is filtered by the catalogue.  A    *)
(* user without skills is not shown to the model.                          *)
(***************************************************************************)
EXTENDS Integers, Sequences, Functions, ChallengePrompt

\* A request is [skilled, max], max the number of suggestions asked for; an answer of the
\* model is [suggestions, primary, secondary]: slugs, those of the suggestions with fit, which
\* is FALSE when a field does not go into the result model.
CONSTANTS Profiles, Advice

\* "" is what a recommendation that is missing reads as.
ASSUME CareerAssumption ==
    /\ "" \notin Orientations
    /\ \A a \in Advice :
          /\ a.suggestions \in Seq([slug : STRING, fit : BOOLEAN])
          /\ a.secondary \in Seq(STRING)

VARIABLES
    profile,     \* the request
    advice,      \* the answer of the model
    path,        \* the response
    careerStage  \* idle, received, advised, answered or aborted

careerVars == <<profile, advice, path, careerStage>>

NoProfile == [skilled |-> FALSE, max |-> 0]
NoPath == [suggestions |-> <<>>, primary |-> "", secondary |-> <<>>]

CareerIdle ==
    profile = NoProfile /\ advice = NoPath /\ path = NoPath /\ careerStage = "idle"

CareerInit ==
    profile \in Profiles /\ advice = NoPath /\ path = NoPath /\ careerStage = "received"

\* The payload's bound; 0 and less count as three.
MaxSuggestions == 10

\* The payload raises before the handler's try.
RefuseProfile ==
    /\ careerStage = "received"
    /\ profile.max > MaxSuggestions
    /\ careerStage' = "aborted"
    /\ UNCHANGED <<profile, advice, path>>

FirstPath == [suggestions |-> <<>>, primary |-> "dev-frontend",
              secondary |-> <<"dev-backend", "ui-designer">>]

\* Onboarding: a path for everyone.
DefaultPath ==
    /\ careerStage = "received"
    /\ profile.max <= MaxSuggestions /\ ~profile.skilled
    /\ careerStage' = "answered"
    /\ path' = FirstPath
    /\ UNCHANGED <<profile, advice>>

\* An answer of the model, or an error.
AskAdvice ==
    /\ careerStage = "received"
    /\ profile.max <= MaxSuggestions /\ profile.skilled
    /\ \/ advice' \in Advice /\ careerStage' = "advised"
       \/ careerStage' = "aborted" /\ UNCHANGED advice
    /\ UNCHANGED <<profile, path>>

InCatalogue(slug) == slug \in Orientations

\* The slugs of a list that are in the catalogue, in their order.
Listed(slugs) ==
    LET listed[n \in 0 .. Len(slugs)] ==
            IF n = 0 THEN <<>>
            ELSE IF InCatalogue(slugs[n]) THEN Append(listed[n - 1], slugs[n]) ELSE listed[n - 1]
    IN  listed[Len(slugs)]

Suggested == Listed([n \in DOMAIN advice.suggestions |-> advice.suggestions[n].slug])

\* Mutated form of Primary: the model's choice, or else the first of its suggestions.
PrimaryUnfiltered ==
    IF InCatalogue(advice.primary) THEN advice.primary
    ELSE IF advice.suggestions = <<>> THEN "" ELSE Head(advice.suggestions).slug

\* The model's choice, or else the first of the suggestions that are left.
Primary ==
    IF InCatalogue(advice.primary) THEN advice.primary
    ELSE IF Suggested = <<>> THEN "" ELSE Head(Suggested)

\* Filtered by the catalogue; a suggestion that is left must fit the result model.
FilterAdvice ==
    /\ careerStage = "advised"
    /\ IF \A s \in Range(advice.suggestions) : InCatalogue(s.slug) => s.fit
       THEN /\ careerStage' = "answered"
            /\ path' = [suggestions |-> Suggested, primary |-> Primary,
                        secondary |-> Listed(advice.secondary)]
       ELSE careerStage' = "aborted" /\ UNCHANGED path
    /\ UNCHANGED <<profile, advice>>

CareerNext == RefuseProfile \/ DefaultPath \/ AskAdvice \/ FilterAdvice

CareerSpec == CareerInit /\ [][CareerNext]_careerVars
-----------------------------------------------------------------------------
(* Properties *)

\* There is a path only when it is answered: the first one, or one within the catalogue.
CareerTypeOK ==
    /\ profile \in Profiles \/ profile = NoProfile
    /\ advice \in Advice \/ advice = NoPath
    /\ careerStage \in {"idle", "received", "advised", "answered", "aborted"}
    /\ careerStage # "answered" => path = NoPath
    /\ \/ path \in {NoPath, FirstPath}
       \/ path \in [suggestions : Seq(Orientations), primary : Orientations \cup {""},
                    secondary : Seq(Orientations)]

Recommended == Range(path.suggestions) \cup Range(path.secondary) \cup ({path.primary} \ {""})

\* Whatever the model makes up, a path it has advised leads to orientations of the catalogue
\* only, and has a first recommendation if there is a suggestion left to make.  It is not
\* said of the default path, whose ui-designer the catalogue does not have.
CareerStaysInCatalogue ==
    careerStage = "answered" /\ profile.skilled =>
        /\ Recommended \subseteq Orientations
        /\ path.suggestions # <<>> => path.primary # ""
=============================================================================
