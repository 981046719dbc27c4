-------------------------- MODULE SimilarityEngines --------------------------
(***************************************************************************)
(* The two engines that PlagiarismCheck leaves open: the similarity of two *)
(* sources by their syntax trees and by their embeddings, each with a      *)
(* fallback.  A job compares one source with a pool of others in a worker  *)
(* that keeps its parsers and its embedding model from job to job.         *)
(*                                                                         *)
(* A source is a record of what the engines see of it: tree, the tokens of *)
(* its normalised syntax tree; words, what the textual normalisation       *)
(* leaves; chars, its characters.  Similarities go from 0 to Full.         *)
(***************************************************************************)
EXTENDS Integers, Sequences, FiniteSets, FiniteSetsExt

CONSTANTS
    Jobs,       \* jobs of a worker, one after the other: [source, pool, language]
    Languages,  \* _LANGUAGE_MAP
    Cosines,    \* what the cosine of two different vectors may be
    Vanishing,  \* the texts, as chars, whose vector is zero
    Full        \* the similarity of 1

Sources == [tree : Seq(STRING), words : Seq(STRING), chars : Seq(STRING)]

ASSUME EnginesAssumption ==
    /\ \A jobs \in Jobs : \A j \in DOMAIN jobs :
          /\ jobs[j].source \in Sources
          /\ jobs[j].pool \in Seq(Sources)
    /\ Full \in Nat \ {0}
    /\ Cosines \subseteq -Full .. Full

VARIABLES
    jobs,        \* the jobs of the worker
    parsers,     \* parsers[l]: "ready" or "none", for the languages tried so far
    embedder,    \* "untried", "ready" or "none"
    structural,  \* structural[j]: the similarities of the trees found so far by job j
    semantic     \* semantic[j]: those of the embeddings

engineVars == <<jobs, parsers, embedder, structural, semantic>>

EnginesIdle ==
    jobs = <<>> /\ parsers = <<>> /\ embedder = "untried" /\ structural = <<>> /\ semantic = <<>>

EnginesInit ==
    /\ jobs \in Jobs
    /\ parsers = [l \in {} |-> "none"]
    /\ embedder = "untried"
    /\ structural = [j \in DOMAIN jobs |-> <<>>]
    /\ semantic = [j \in DOMAIN jobs |-> <<>>]

\* The runs of n tokens of a sequence.
Grams(s, n) == {SubSeq(s, i, i + n - 1) : i \in 1 .. Len(s) - n + 1}

\* Mutated form of Overlap: sequences too short for a run of n have nothing in common.
OverlapUnguarded(s, t, n) ==
    IF Grams(s, n) \cup Grams(t, n) = {} THEN 0
    ELSE (Full * Cardinality(Grams(s, n) \cap Grams(t, n)))
            \div Cardinality(Grams(s, n) \cup Grams(t, n))

\* The share of runs that two sequences have in common; too short for one, they must be equal.
Overlap(s, t, n) ==
    IF Grams(s, n) \cup Grams(t, n) = {} THEN (IF s = t THEN Full ELSE 0)
    ELSE (Full * Cardinality(Grams(s, n) \cap Grams(t, n)))
            \div Cardinality(Grams(s, n) \cup Grams(t, n))

\* The pair that job j looks at next with an engine.
Source(j) == jobs[j].source
Other(j, found) == jobs[j].pool[Len(found[j]) + 1]

Unfinished(j) == Len(semantic[j]) < Len(jobs[j].pool)

\* The jobs come one after the other, the engines in turn.
Turn(j) == Unfinished(j) /\ \A i \in 1 .. j - 1 : ~Unfinished(i)

\* _get_parser: a language is tried once.
ParserOf(language) ==
    IF language \notin Languages THEN {"none"}
    ELSE IF language \in DOMAIN parsers THEN {parsers[language]} ELSE {"ready", "none"}

RememberParser(language, p) ==
    parsers' = IF language \notin Languages THEN parsers
               ELSE [l \in DOMAIN parsers \cup {language} |-> IF l = language THEN p ELSE parsers[l]]

\* Runs of two tokens of the trees, or of the words without a parser or when it raises.
CompareTrees(j) ==
    /\ Turn(j)
    /\ Len(structural[j]) = Len(semantic[j])
    /\ \E p \in ParserOf(jobs[j].language) :
          /\ RememberParser(jobs[j].language, p)
          /\ \E similarity \in {Overlap(Source(j).words, Other(j, structural).words, 2)}
                \cup (IF p = "ready" THEN {Overlap(Source(j).tree, Other(j, structural).tree, 2)}
                                     ELSE {}) :
                structural' = [structural EXCEPT ![j] = Append(@, similarity)]
    /\ UNCHANGED <<jobs, embedder, semantic>>

\* Clamped into 0 .. Full.  A zero vector is like nothing, itself included; other equal texts
\* have equal vectors, with a cosine of 1.
Cosine(s, t) ==
    IF s \in Vanishing \/ t \in Vanishing THEN {0}
    ELSE IF s = t THEN {Full} ELSE {Max({0, c}) : c \in Cosines}

\* The cosine of the vectors, or shingles without a model or when it raises.
CompareMeanings(j) ==
    /\ Turn(j)
    /\ Len(structural[j]) > Len(semantic[j])
    /\ embedder' \in (IF embedder = "untried" THEN {"ready", "none"} ELSE {embedder})
    /\ \E similarity \in {Overlap(Source(j).chars, Other(j, semantic).chars, 3)}
          \cup (IF embedder' = "ready" THEN Cosine(Source(j).chars, Other(j, semantic).chars)
                                       ELSE {}) :
          semantic' = [semantic EXCEPT ![j] = Append(@, similarity)]
    /\ UNCHANGED <<jobs, parsers, structural>>

EnginesNext == \E j \in DOMAIN jobs : CompareTrees(j) \/ CompareMeanings(j)

EnginesSpec == EnginesInit /\ [][EnginesNext]_engineVars
-----------------------------------------------------------------------------
(* Properties *)

\* Similarities are where PlagiarismCheck expects them, a pair at a time.
EnginesTypeOK ==
    /\ jobs \in Jobs \/ jobs = <<>>
    /\ structural \in [DOMAIN jobs -> Seq(0 .. Full)]
    /\ semantic \in [DOMAIN jobs -> Seq(0 .. Full)]
    /\ \A j \in DOMAIN jobs :
          /\ Len(semantic[j]) <= Len(structural[j])
          /\ Len(structural[j]) <= Len(jobs[j].pool)
          /\ Len(structural[j]) <= Len(semantic[j]) + 1
    /\ embedder \in {"untried", "ready", "none"}
    /\ DOMAIN parsers \subseteq Languages
    /\ \A l \in DOMAIN parsers : parsers[l] \in {"ready", "none"}

\* A verbatim copy has the full similarity with both engines, whichever parser or model is
\* missing, fails to load or raises, however short it is, an empty source included: that it
\* is flagged does not depend on the worker that the job is given to.  Only a text whose
\* vector is zero is not found to be like its own copy, with the model alone.
CopiesScoreFull ==
    \A j \in DOMAIN jobs : \A n \in DOMAIN jobs[j].pool :
        jobs[j].pool[n] = jobs[j].source =>
            /\ n \in DOMAIN structural[j] => structural[j][n] = Full
            /\ n \in DOMAIN semantic[j] /\ jobs[j].source.chars \notin Vanishing
                  => semantic[j][n] = Full
=============================================================================
