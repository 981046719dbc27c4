-------------------------- MODULE MatcherEmbeddings --------------------------
(***************************************************************************)
(* How the talents of a search with a job description get their semantic   *)
(* score: by the vectors of the two texts, or by shingles when there is a  *)
(* vector missing.  A worker serves searches one after the other and keeps *)
(* the model and the vectors it has computed.  What the score is worth in  *)
(* the ranking is in RankedBatch; here it matters how it comes about.      *)
(***************************************************************************)
EXTENDS Integers, Sequences, FiniteSets, Functions

CONSTANTS
    Searches,  \* searches of a worker: [job, profiles], texts
    Blank,     \* a text of white space
    CacheCap   \* how many vectors are kept: 5000 in the code

\* The text of a job may be blank; that of a profile begins with "Talent".
Search == [job : STRING, profiles : Seq({t \in STRING : t # Blank})]

ASSUME MatcherAssumption == Searches \subseteq Seq(Search) /\ CacheCap \in Nat

VARIABLES
    searches,  \* the searches of the worker
    encoder,   \* _model: "untried", "ready" or "none"
    encoded,   \* the texts of _encode_cache
    ways,      \* ways[s]: how each profile scored so far was compared
    broken     \* the searches whose job has failed

matcherVars == <<searches, encoder, encoded, ways, broken>>

MatcherIdle ==
    searches = <<>> /\ encoder = "untried" /\ encoded = {} /\ ways = <<>> /\ broken = {}

MatcherInit ==
    /\ searches \in Searches
    /\ encoder = "untried"
    /\ encoded = {}
    /\ ways = [s \in DOMAIN searches |-> <<>>]
    /\ broken = {}

Open(s) == s \notin broken /\ Len(ways[s]) < Len(searches[s].profiles)

Now(s) == Open(s) /\ \A earlier \in 1 .. s - 1 : ~Open(earlier)

Profile(s) == searches[s].profiles[Len(ways[s]) + 1]

\* What _encode needs the model for.
NeedsModel(text) == text # Blank /\ text \notin encoded

\* Mutated form of Loaded: a load that failed is tried again.
LoadedAgain == IF encoder = "ready" THEN {"ready"} ELSE {"ready", "none"}

\* _get_model: loaded or not, it is tried once.
Loaded == IF encoder = "untried" THEN {"ready", "none"} ELSE {encoder}

Kept(texts, text) == IF Cardinality(texts) < CacheCap THEN texts \cup {text} ELSE texts

\* Both texts have a vector: kept from before, or computed now.
Vector(text) == text # Blank /\ (text \in encoded \/ encoder' = "ready")

\* The cache after both texts, the job's first.
Remembered(s) ==
    LET first == IF NeedsModel(searches[s].job) THEN Kept(encoded, searches[s].job) ELSE encoded
    IN  IF NeedsModel(Profile(s)) THEN Kept(first, Profile(s)) ELSE first

ScoreProfile(s) ==
    /\ Now(s)
    /\ encoder' \in (IF NeedsModel(searches[s].job) \/ NeedsModel(Profile(s)) THEN Loaded
                                                                             ELSE {encoder})
    /\ ways' = [ways EXCEPT ![s] =
                   Append(@, IF Vector(searches[s].job) /\ Vector(Profile(s)) THEN "vectors"
                                                                             ELSE "shingles")]
    /\ encoded' = IF encoder' = "ready" THEN Remembered(s) ELSE encoded
    /\ UNCHANGED <<searches, broken>>

\* The model raises on one of the texts: no fallback here, the job fails.
EncodeRaises(s) ==
    /\ Now(s)
    /\ encoder' \in Loaded
    /\ encoder' = "ready"
    /\ \/ NeedsModel(searches[s].job) /\ UNCHANGED encoded
       \/ /\ NeedsModel(Profile(s))
          /\ encoded' = IF NeedsModel(searches[s].job) THEN Kept(encoded, searches[s].job)
                                                       ELSE encoded
    /\ broken' = broken \cup {s}
    /\ UNCHANGED <<searches, ways>>

MatcherNext == \E s \in DOMAIN searches : ScoreProfile(s) \/ EncodeRaises(s)

MatcherSpec == MatcherInit /\ [][MatcherNext]_matcherVars
-----------------------------------------------------------------------------
(* Properties *)

MatcherTypeOK ==
    /\ searches \in Searches \/ searches = <<>>
    /\ ways \in [DOMAIN searches -> Seq({"vectors", "shingles"})]
    /\ encoder \in {"untried", "ready", "none"}
    /\ Cardinality(encoded) <= CacheCap /\ Blank \notin encoded
    /\ \A s \in DOMAIN searches : Len(ways[s]) <= Len(searches[s].profiles)
    /\ broken \subseteq DOMAIN searches

\* The scores of a search can be compared, as talent_matcher.py says: its talents all have
\* their semantic score from vectors or all from shingles, whose scales differ, whatever
\* the model does and whatever earlier searches have left in a cache that may be full.
ScoredAlike ==
    \A s \in DOMAIN searches : \A n, o \in DOMAIN ways[s] : ways[s][n] = ways[s][o]
=============================================================================
