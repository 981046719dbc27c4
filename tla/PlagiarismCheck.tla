--------------------------- MODULE PlagiarismCheck ---------------------------
(***************************************************************************)
(* A submission compared with a pool of others: detect_plagiarism, and     *)
(* CheckPlagiarism, which answers a client with its own threshold.         *)
(*                                                                         *)
(* Scores are shown rounded to four digits: Scale steps from 0 to 1.  The  *)
(* similarities have one digit more and the weights are tenths, so that    *)
(* the combined score is exact in 1/100 of a step.  How the two engines    *)
(* find a similarity is left open.                                         *)
(***************************************************************************)
EXTENDS Integers, Sequences, FiniteSetsExt, SequencesExt

CONSTANTS
    Checks,           \* the requests: [pool, threshold], 0 when the client names none
    AstWeight,        \* plagiarism_ast_weight, in tenths
    EmbeddingWeight,  \* plagiarism_embedding_weight, in tenths
    Threshold,        \* plagiarism_threshold, in steps
    Scale             \* the steps that scores are rounded to: 10^4

\* What the engines say of a submission of the pool.
Submissions == [ast : 0 .. 10 * Scale, embedding : 0 .. 10 * Scale]

\* Thresholds of up to four digits: with a longer one, rounding down could take a match
\* below the threshold it reaches.
ASSUME CheckAssumption ==
    /\ \A k \in Checks : k \in [pool : Seq(Submissions), threshold : 0 .. Scale]
    /\ AstWeight \in Nat /\ EmbeddingWeight \in Nat
    /\ AstWeight + EmbeddingWeight = 10
    /\ Scale \in Nat \ {0}
    /\ Threshold \in 1 .. Scale

VARIABLES
    check,      \* the request
    matches,    \* result.matches, so far
    highest,    \* highest_score, so far
    flagged,    \* result.flagged
    response,   \* what the servicer answers
    checkStage  \* idle, comparing, concluded or answered

checkVars == <<check, matches, highest, flagged, response, checkStage>>

NoCheck == [pool |-> <<>>, threshold |-> 0]
NoResponse == [score |-> 0, cited |-> 0, plagiarism |-> FALSE]

CheckIdle ==
    /\ check = NoCheck /\ matches = <<>> /\ highest = 0 /\ flagged = FALSE
    /\ response = NoResponse /\ checkStage = "idle"

CheckInit ==
    /\ check \in Checks
    /\ matches = <<>>
    /\ highest = 0
    /\ flagged = FALSE
    /\ response = NoResponse
    /\ checkStage = "comparing"

\* Mutated form of Combined: the sum of the two, without weights.
CombinedUnweighted(c) == 10 * (c.ast + c.embedding)

\* The weighted sum, in 1/100 of a step.
Combined(c) == AstWeight * c.ast + EmbeddingWeight * c.embedding

\* x to the nearest step; the float decides in the middle.
Round4(x) == {r \in {x \div 100, x \div 100 + 1} : 2 * x - 200 * r \in -100 .. 100}

Compare ==
    /\ checkStage = "comparing"
    /\ Len(matches) < Len(check.pool)
    /\ LET x == Combined(check.pool[Len(matches) + 1])
       IN  \E r \in Round4(x) :
              /\ matches' = Append(matches, [score |-> r, plagiarism |-> x >= 100 * Threshold])
              /\ highest' = Max({highest, r})
    /\ UNCHANGED <<check, flagged, response, checkStage>>

\* Mutated form of Conclude: the threshold itself is not enough.
ConcludeAbove ==
    /\ checkStage = "comparing"
    /\ Len(matches) = Len(check.pool)
    /\ flagged' = (highest > Threshold)
    /\ checkStage' = "concluded"
    /\ UNCHANGED <<check, matches, highest, response>>

\* The result, as a job publishes it.
Conclude ==
    /\ checkStage = "comparing"
    /\ Len(matches) = Len(check.pool)
    /\ flagged' = (highest >= Threshold)
    /\ checkStage' = "concluded"
    /\ UNCHANGED <<check, matches, highest, response>>

\* Mutated form of TopMatch: the last match of the list.
TopMatchLast == Len(matches)

\* The first of the matches with the highest score, 0 when there is none.
TopMatch == SelectInSeq(matches, LAMBDA m : \A n \in DOMAIN matches : m.score >= matches[n].score)

\* The answer of the servicer: the client's threshold counts if it names one.
Respond ==
    /\ checkStage = "concluded"
    /\ checkStage' = "answered"
    /\ response' = [score |-> highest, cited |-> TopMatch,
                    plagiarism |-> IF check.threshold > 0 THEN highest >= check.threshold
                                                      ELSE flagged]
    /\ UNCHANGED <<check, matches, highest, flagged>>

CheckNext == Compare \/ Conclude \/ Respond

CheckSpec == CheckInit /\ [][CheckNext]_checkVars
-----------------------------------------------------------------------------
(* Properties *)

\* Scores are in [0, 1], as the protocol says, and the response cites a submission of the
\* pool, none when there is none.
CheckTypeOK ==
    /\ check \in Checks \/ check = NoCheck
    /\ matches \in Seq([score : 0 .. Scale, plagiarism : BOOLEAN])
    /\ Len(matches) <= Len(check.pool)
    /\ highest \in 0 .. Scale
    /\ flagged \in BOOLEAN
    /\ response \in [score : 0 .. Scale, cited : 0 .. Len(matches), plagiarism : BOOLEAN]
    /\ checkStage \in {"idle", "comparing", "concluded", "answered"}

\* Each match carries the rounded score and the verdict of its own submission.
Rounded ==
    \A n \in DOMAIN matches :
        /\ matches[n].score \in Round4(Combined(check.pool[n]))
        /\ matches[n].plagiarism <=> Combined(check.pool[n]) >= 100 * Threshold

\* What the fold over the pool has kept: the inductive strengthening of the two
\* properties below (PlagiarismCheckProofs).
HighestInv ==
    /\ Rounded
    /\ IF matches = <<>> THEN highest = 0
       ELSE \E first \in DOMAIN matches :
               /\ matches[first].score = highest
               /\ \A n \in DOMAIN matches : matches[n].score <= highest
               /\ \A n \in 1 .. first - 1 : matches[n].score < highest
    /\ checkStage \in {"concluded", "answered"} =>
          Len(matches) = Len(check.pool) /\ flagged = (highest >= Threshold)
    /\ checkStage = "answered" =>
          response = [score |-> highest, cited |-> TopMatch,
                      plagiarism |-> IF check.threshold > 0 THEN highest >= check.threshold
                                                            ELSE flagged]

\* What the backend is told: a submission with a match that is plagiarism is flagged,
\* although one is decided on the exact score and the other on the rounded ones; and one
\* that is flagged has a match no further from the threshold than rounding goes.
FlagCoversPlagiarism ==
    checkStage \in {"concluded", "answered"} =>
        /\ (\E n \in DOMAIN matches : matches[n].plagiarism) => flagged
        /\ flagged => \E n \in DOMAIN matches :
                          Combined(check.pool[n]) >= 100 * Threshold - 50

\* What a client is told: a score above the threshold that applies, his own or else the
\* service's, is a verdict of plagiarism; and such a verdict is never given below it, and
\* names a submission of the pool that has this very score, which no other submission
\* exceeds by more than rounding hides.  Where the repository does not agree with itself
\* nothing is asked: the docstring (plagiarism_detector.py:8) has a score equal to the
\* threshold innocent and the code does not; the protocol (skilluv_ai.proto:253) has an
\* innocent answer name nobody and the servicer names the closest one.
VerdictCitesItsMatch ==
    checkStage = "answered" =>
        LET bound == IF check.threshold > 0 THEN check.threshold ELSE Threshold
        IN  /\ response.score > bound => response.plagiarism
            /\ response.plagiarism =>
                  /\ response.score >= bound
                  /\ response.cited \in DOMAIN matches
                  /\ matches[response.cited].score = response.score
                  /\ \A n \in DOMAIN check.pool :
                        Combined(check.pool[response.cited]) + 100 >= Combined(check.pool[n])
=============================================================================
