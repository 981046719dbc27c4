------------------------ MODULE PlagiarismCheckProofs ------------------------
(***************************************************************************)
(* The verdicts of PlagiarismCheck agree with the scores it shows, for any *)
(* requests, weights and thresholds of up to four digits; and a verbatim   *)
(* copy is caught, whatever the engines of SimilarityEngines have to do    *)
(* without.                                                                *)
(***************************************************************************)
EXTENDS PlagiarismCheck, SimilarityEngines, FiniteSetTheorems, TLAPS

\* The larger of two numbers.
LEMMA MaxOfTwo ==
    ASSUME NEW a \in Int, NEW b \in Int
    PROVE  /\ Max({a, b}) \in {a, b}
           /\ Max({a, b}) >= a
           /\ Max({a, b}) >= b
<1>1. \E x \in {a, b} : \A y \in {a, b} : x >= y
  <2>1. CASE a >= b
    BY <2>1
  <2>2. CASE b >= a
    BY <2>2
  <2> QED
    BY <2>1, <2>2
<1> QED
  BY <1>1 DEF Max

\* The weighted sum stays in [0, 1].
LEMMA CombinedInRange ==
    ASSUME NEW c \in Submissions
    PROVE  Combined(c) \in 0 .. 100 * Scale
<1>1. /\ c.ast \in Int /\ 0 <= c.ast /\ c.ast <= 10 * Scale
      /\ c.embedding \in Int /\ 0 <= c.embedding /\ c.embedding <= 10 * Scale
  BY CheckAssumption DEF Submissions
<1>2. AstWeight \in 0 .. 10 /\ EmbeddingWeight = 10 - AstWeight
  BY CheckAssumption
<1>3. Scale \in Nat
  BY CheckAssumption
<1>4. AstWeight * c.ast + (10 - AstWeight) * c.embedding \in 0 .. 100 * Scale
  <2>1. \A w \in 0 .. 10 : w \in {0, 1, 2, 3, 4, 5, 6, 7, 8, 9, 10}
    OBVIOUS
  <2>2. \A w \in {0, 1, 2, 3, 4, 5, 6, 7, 8, 9, 10} :
            w * c.ast + (10 - w) * c.embedding \in 0 .. 100 * Scale
    BY <1>1, <1>3
  <2> QED
    BY <1>2, <2>1, <2>2
<1> QED
  BY <1>2, <1>4 DEF Combined

\* Rounding moves a score by half a step at most, and keeps it in [0, 1].
LEMMA RoundingIsNear ==
    ASSUME NEW x \in 0 .. 100 * Scale, NEW r \in Round4(x)
    PROVE  /\ r \in 0 .. Scale
           /\ x - 50 <= 100 * r
           /\ 100 * r <= x + 50
<1>1. Scale \in Nat
  BY CheckAssumption
<1>2. x \div 100 \in Int
  BY <1>1
<1>3. r \in Int /\ -100 <= 2 * x - 200 * r /\ 2 * x - 200 * r <= 100
  BY <1>1, <1>2 DEF Round4
<1> QED
  BY <1>1, <1>3

\* No threshold of four digits lies between a score and its rounding.
LEMMA RoundingKeepsVerdicts ==
    ASSUME NEW x \in 0 .. 100 * Scale, NEW r \in Round4(x), x >= 100 * Threshold
    PROVE  r >= Threshold
<1>1. r \in 0 .. Scale /\ x - 50 <= 100 * r
  BY RoundingIsNear
<1>2. Scale \in Nat /\ Threshold \in 1 .. Scale
  BY CheckAssumption
<1> QED
  BY <1>1, <1>2

-----------------------------------------------------------------------------
(* Types. *)

\* A request is one of Checks, or none while another service has the job.
LEMMA CheckIsTyped ==
    ASSUME check \in Checks \/ check = NoCheck
    PROVE  check.pool \in Seq(Submissions) /\ check.threshold \in 0 .. Scale
<1>1. CASE check \in Checks
  <2>1. check \in [pool : Seq(Submissions), threshold : 0 .. Scale]
    BY <1>1, CheckAssumption
  <2> QED
    BY <2>1
<1>2. CASE check = NoCheck
  <2>1. check.pool = <<>> /\ check.threshold = 0
    BY <1>2 DEF NoCheck
  <2>2. 0 \in 0 .. Scale
    BY CheckAssumption
  <2> QED
    BY <2>1, <2>2
<1> QED
  BY <1>1, <1>2

Match == [score : 0 .. Scale, plagiarism : BOOLEAN]

CheckInv == CheckTypeOK /\ HighestInv

\* Before the first comparison there is nothing to agree on.
LEMMA InvInit == CheckInit \/ CheckIdle => CheckInv
<1> SUFFICES ASSUME CheckInit \/ CheckIdle PROVE CheckInv
  OBVIOUS
<1>1. /\ check \in Checks \/ check = NoCheck
      /\ matches = <<>> /\ highest = 0 /\ flagged = FALSE
      /\ response = NoResponse /\ checkStage \in {"idle", "comparing"}
  BY DEF CheckInit, CheckIdle
<1>2. 0 \in 0 .. Scale
  BY CheckAssumption
<1>3. check.pool \in Seq(Submissions)
  BY <1>1, CheckIsTyped
<1>4. matches \in Seq(Match) /\ Len(matches) = 0 /\ DOMAIN matches = {}
  BY <1>1
<1>5. response \in [score : 0 .. Scale, cited : 0 .. Len(matches), plagiarism : BOOLEAN]
  BY <1>1, <1>2, <1>4 DEF NoResponse
<1>6. CheckTypeOK
  <2>1. Len(check.pool) \in Nat
    BY <1>3
  <2>2. flagged \in BOOLEAN /\ checkStage \in {"idle", "comparing", "concluded", "answered"}
    BY <1>1
  <2>3. Len(matches) <= Len(check.pool)
    BY <1>4, <2>1
  <2>4. matches \in Seq([score : 0 .. Scale, plagiarism : BOOLEAN])
    BY <1>4 DEF Match
  <2> QED
    BY <1>1, <1>2, <1>5, <2>2, <2>3, <2>4 DEF CheckTypeOK
<1>7. HighestInv
  BY <1>1, <1>4 DEF HighestInv, Rounded
<1> QED
  BY <1>1, <1>2, <1>6, <1>7 DEF CheckInv

-----------------------------------------------------------------------------
(* Steps. *)

\* The first of the highest scores is the one that is cited.
LEMMA TopMatchIsFirst ==
    ASSUME CheckInv, matches # <<>>
    PROVE  /\ TopMatch \in DOMAIN matches
           /\ matches[TopMatch].score = highest
<1> DEFINE I == {i \in 1 .. Len(matches) :
                    \A n \in DOMAIN matches : matches[i].score >= matches[n].score}
<1>1. matches \in Seq(Match) /\ highest \in Int
  BY CheckAssumption DEF CheckInv, CheckTypeOK, Match
<1>2. DOMAIN matches = 1 .. Len(matches) /\ Len(matches) \in Nat
  BY <1>1
<1>3. \A n \in DOMAIN matches : matches[n].score \in Int
  <2> SUFFICES ASSUME NEW n \in DOMAIN matches PROVE matches[n].score \in Int
    OBVIOUS
  <2>1. matches[n] \in Match
    BY <1>1
  <2> QED
    BY <2>1, CheckAssumption DEF Match
<1>4. PICK first \in DOMAIN matches :
            /\ matches[first].score = highest
            /\ \A n \in DOMAIN matches : matches[n].score <= highest
            /\ \A n \in 1 .. first - 1 : matches[n].score < highest
  BY DEF CheckInv, HighestInv
<1>5. first \in I
  BY <1>1, <1>2, <1>3, <1>4
<1>6. \A i \in I : first <= i
  <2> SUFFICES ASSUME NEW i \in I, i < first PROVE FALSE
    BY <1>2
  <2>1. matches[i].score < highest
    BY <1>2, <1>4
  <2>2. matches[i].score >= highest
    BY <1>4
  <2> QED
    BY <1>1, <1>2, <1>3, <2>1, <2>2
<1>7. Min(I) = first
  <2>1. Min(I) \in I /\ \A i \in I : Min(I) <= i
    BY <1>5, <1>6 DEF Min
  <2> QED
    BY <1>2, <1>5, <1>6, <2>1
<1>8. TopMatch = Min(I)
  BY <1>5 DEF TopMatch, SelectInSeq
<1> QED
  BY <1>4, <1>7, <1>8

\* One more submission: its score is rounded, and is the new highest or is not.
LEMMA CompareKeeps == CheckInv /\ Compare => CheckInv'
<1> SUFFICES ASSUME CheckInv, Compare PROVE CheckInv'
  OBVIOUS
<1> DEFINE k == Len(matches) + 1
           x == Combined(check.pool[k])
<1>1. /\ checkStage = "comparing" /\ Len(matches) < Len(check.pool)
      /\ UNCHANGED <<check, flagged, response, checkStage>>
  BY DEF Compare
<1>2. PICK r \in Round4(x) :
            /\ matches' = Append(matches, [score |-> r, plagiarism |-> x >= 100 * Threshold])
            /\ highest' = Max({highest, r})
  BY DEF Compare
<1>3. /\ matches \in Seq(Match)
      /\ check.pool \in Seq(Submissions)
      /\ response \in [score : 0 .. Scale, cited : 0 .. Len(matches), plagiarism : BOOLEAN]
      /\ highest \in 0 .. Scale
  BY CheckIsTyped DEF CheckInv, CheckTypeOK, Match
<1>4. Len(matches) \in Nat /\ Len(check.pool) \in Nat /\ k \in 1 .. Len(check.pool)
  BY <1>1, <1>3
<1>5. x \in 0 .. 100 * Scale
  BY <1>3, <1>4, CombinedInRange
<1>6. r \in 0 .. Scale
  BY <1>5, RoundingIsNear
<1>7. Scale \in Nat /\ Threshold \in Int
  BY CheckAssumption
<1>8. highest' \in 0 .. Scale /\ highest' \in {highest, r} /\ highest' >= highest /\ highest' >= r
  <2>1. highest \in Int /\ r \in Int
    BY <1>3, <1>6, <1>7
  <2>2. Max({highest, r}) \in {highest, r} /\ Max({highest, r}) >= highest /\ Max({highest, r}) >= r
    BY <2>1, MaxOfTwo
  <2> QED
    BY <1>2, <1>3, <1>6, <2>2
<1> DEFINE new == [score |-> r, plagiarism |-> x >= 100 * Threshold]
<1>9. new \in Match /\ new.score = r /\ new.plagiarism = (x >= 100 * Threshold)
  BY <1>5, <1>6, <1>7 DEF Match
<1>10. matches' \in Seq(Match) /\ Len(matches') = k
  BY <1>2, <1>3, <1>9
<1>11. \A n \in 1 .. Len(matches) : matches'[n] = matches[n]
  BY <1>2, <1>3, <1>9
<1>12. matches'[k] = new /\ DOMAIN matches' = 1 .. k /\ DOMAIN matches = 1 .. Len(matches)
  BY <1>2, <1>3, <1>4, <1>9, <1>10
<1>13. CheckTypeOK'
  <2>1. response' \in [score : 0 .. Scale, cited : 0 .. Len(matches'), plagiarism : BOOLEAN]
    BY <1>1, <1>3, <1>4, <1>10
  <2>2. Len(matches') <= Len(check'.pool)
    BY <1>1, <1>4, <1>10
  <2>3. matches' \in Seq([score : 0 .. Scale, plagiarism : BOOLEAN])
    BY <1>10 DEF Match
  <2>4. /\ check' \in Checks \/ check' = NoCheck
        /\ flagged' \in BOOLEAN
        /\ checkStage' \in {"idle", "comparing", "concluded", "answered"}
    BY <1>1 DEF CheckInv, CheckTypeOK
  <2> QED
    BY <1>8, <2>1, <2>2, <2>3, <2>4 DEF CheckTypeOK, NoCheck
<1>14. Rounded'
  <2> SUFFICES ASSUME NEW n \in 1 .. k
               PROVE  /\ matches'[n].score \in Round4(Combined(check.pool[n]))
                      /\ matches'[n].plagiarism <=> Combined(check.pool[n]) >= 100 * Threshold
    BY <1>1, <1>12 DEF Rounded, Round4, Combined
  <2>1. CASE n = k
    BY <1>9, <1>12, <2>1
  <2>2. CASE n \in 1 .. Len(matches)
    BY <1>11, <1>12, <2>2 DEF CheckInv, HighestInv, Rounded
  <2> QED
    BY <1>4, <2>1, <2>2
<1>15. \E first \in 1 .. k :
            /\ matches'[first].score = highest'
            /\ \A n \in 1 .. k : matches'[n].score <= highest'
            /\ \A n \in 1 .. first - 1 : matches'[n].score < highest'
  <2>1. CASE matches = <<>>
    <3>1. k = 1 /\ highest = 0
      BY <2>1 DEF CheckInv, HighestInv
    <3>2. highest' = r
      BY <1>6, <1>7, <1>8, <3>1
    <3> QED
      BY <1>6, <1>7, <1>9, <1>12, <3>1, <3>2
  <2>2. CASE matches # <<>>
    <3>1. PICK first \in 1 .. Len(matches) :
                /\ matches[first].score = highest
                /\ \A n \in 1 .. Len(matches) : matches[n].score <= highest
                /\ \A n \in 1 .. first - 1 : matches[n].score < highest
      BY <1>12, <2>2 DEF CheckInv, HighestInv
    <3>2. \A n \in 1 .. Len(matches) : matches'[n].score \in Int /\ matches'[n].score <= highest
      <4> SUFFICES ASSUME NEW n \in 1 .. Len(matches)
                   PROVE  matches'[n].score \in Int /\ matches'[n].score <= highest
        OBVIOUS
      <4>1. matches[n] \in Match
        BY <1>3
      <4> QED
        BY <1>7, <1>11, <3>1, <4>1 DEF Match
    <3>3. \A n \in 1 .. k : n = k \/ n \in 1 .. Len(matches)
      BY <1>4
    <3>4. \A n \in 1 .. k : matches'[n].score <= highest'
      BY <1>3, <1>6, <1>7, <1>8, <1>9, <1>12, <3>2, <3>3
    <3>5. CASE r > highest
      <4>1. highest' = r
        BY <1>3, <1>6, <1>7, <1>8, <3>5
      <4>2. \A n \in 1 .. k - 1 : matches'[n].score < highest'
        BY <1>3, <1>4, <1>6, <1>7, <3>2, <3>5, <4>1
      <4> QED
        BY <1>4, <1>9, <1>12, <3>4, <4>1, <4>2
    <3>6. CASE r <= highest
      <4>1. highest' = highest
        BY <1>3, <1>6, <1>7, <1>8, <3>6
      <4>2. first \in 1 .. k /\ \A n \in 1 .. first - 1 : n \in 1 .. Len(matches)
        BY <1>4
      <4>3. \A n \in 1 .. first - 1 : matches'[n].score < highest'
        BY <1>11, <3>1, <4>1, <4>2
      <4>4. matches'[first].score = highest'
        BY <1>11, <3>1, <4>1
      <4>5. first \in 1 .. k
        BY <4>2
      <4> QED
        BY <3>4, <4>3, <4>4, <4>5, Zenon
    <3>7. r > highest \/ r <= highest
      BY <1>3, <1>6, <1>7
    <3> QED
      BY <3>5, <3>6, <3>7, Zenon
  <2> QED
    BY <2>1, <2>2
<1>16. matches' # <<>>
  BY <1>4, <1>10
<1>17. HighestInv'
  BY <1>1, <1>12, <1>14, <1>15, <1>16 DEF HighestInv
<1> QED
  BY <1>8, <1>13, <1>17 DEF CheckInv

\* The flag is decided on the highest of the rounded scores.
LEMMA ConcludeKeeps == CheckInv /\ Conclude => CheckInv'
<1> SUFFICES ASSUME CheckInv, Conclude PROVE CheckInv'
  OBVIOUS
<1>1. /\ checkStage = "comparing" /\ Len(matches) = Len(check.pool)
      /\ flagged' = (highest >= Threshold) /\ checkStage' = "concluded"
      /\ UNCHANGED <<check, matches, highest, response>>
  BY DEF Conclude
<1>2. CheckTypeOK'
  BY <1>1 DEF CheckInv, CheckTypeOK, NoCheck
<1>3. HighestInv'
  <2>1. Rounded'
    BY <1>1 DEF CheckInv, HighestInv, Rounded, Round4, Combined
  <2> QED
    BY <1>1, <2>1 DEF CheckInv, HighestInv
<1> QED
  BY <1>1, <1>2, <1>3 DEF CheckInv

\* The answer cites the first match with the highest score.
LEMMA RespondKeeps == CheckInv /\ Respond => CheckInv'
<1> SUFFICES ASSUME CheckInv, Respond PROVE CheckInv'
  OBVIOUS
<1>1. /\ checkStage = "concluded" /\ checkStage' = "answered"
      /\ response' = [score |-> highest, cited |-> TopMatch,
                      plagiarism |-> IF check.threshold > 0 THEN highest >= check.threshold
                                                            ELSE flagged]
      /\ UNCHANGED <<check, matches, highest, flagged>>
  BY DEF Respond
<1>2. TopMatch' = TopMatch
  BY <1>1 DEF TopMatch, SelectInSeq
<1>3. TopMatch \in 0 .. Len(matches)
  <2>1. matches \in Seq(Match)
    BY DEF CheckInv, CheckTypeOK, Match
  <2>2. CASE matches = <<>>
    <3>1. TopMatch = 0
      BY <2>2 DEF TopMatch, SelectInSeq
    <3> QED
      BY <2>1, <3>1
  <2>3. CASE matches # <<>>
    BY <2>1, <2>3, TopMatchIsFirst
  <2> QED
    BY <2>2, <2>3
<1>4. CheckTypeOK'
  <2>1. (IF check.threshold > 0 THEN highest >= check.threshold ELSE flagged) \in BOOLEAN
    <3>1. flagged \in BOOLEAN
      BY DEF CheckInv, CheckTypeOK
    <3>2. CASE check.threshold > 0
      <4>1. (highest >= check.threshold) \in BOOLEAN
        OBVIOUS
      <4> QED
        BY <3>2, <4>1, Zenon
    <3>3. CASE ~(check.threshold > 0)
      BY <3>1, <3>3, Zenon
    <3> QED
      BY <3>2, <3>3, Zenon
  <2>2. response' \in [score : 0 .. Scale, cited : 0 .. Len(matches), plagiarism : BOOLEAN]
    BY <1>1, <1>3, <2>1 DEF CheckInv, CheckTypeOK
  <2> QED
    BY <1>1, <2>2 DEF CheckInv, CheckTypeOK, NoCheck
<1>5. HighestInv'
  <2>1. Rounded'
    BY <1>1 DEF CheckInv, HighestInv, Rounded, Round4, Combined
  <2> QED
    BY <1>1, <1>2, <2>1 DEF CheckInv, HighestInv
<1> QED
  BY <1>1, <1>4, <1>5 DEF CheckInv

\* A step of the check keeps the strengthening.
LEMMA CheckStepInv == CheckInv /\ [CheckNext]_checkVars => CheckInv'
<1> SUFFICES ASSUME CheckInv, [CheckNext]_checkVars PROVE CheckInv'
  OBVIOUS
<1>1. CASE Compare
  BY <1>1, CompareKeeps
<1>2. CASE Conclude
  BY <1>2, ConcludeKeeps
<1>3. CASE Respond
  BY <1>3, RespondKeeps
<1>4. CASE UNCHANGED checkVars
  <2>1. CheckTypeOK'
    BY <1>4 DEF CheckInv, CheckTypeOK, NoCheck, checkVars
  <2>2. Rounded'
    BY <1>4 DEF CheckInv, HighestInv, Rounded, Round4, Combined, checkVars
  <2>3. TopMatch' = TopMatch
    BY <1>4 DEF TopMatch, SelectInSeq, checkVars
  <2>4. HighestInv'
    BY <1>4, <2>2, <2>3 DEF CheckInv, HighestInv, checkVars
  <2> QED
    BY <1>4, <2>1, <2>4 DEF CheckInv, checkVars
<1> QED
  BY <1>1, <1>2, <1>3, <1>4 DEF CheckNext

\* Every reachable state satisfies the strengthening.
THEOREM CheckInvariant == CheckSpec => []CheckInv
<1> QED
  BY CheckStepInv, InvInit, PTL DEF CheckSpec

\* Scores are in [0, 1] and the response cites a submission of the pool or none.
THEOREM TypeCorrect == CheckSpec => []CheckTypeOK
<1>1. CheckInv => CheckTypeOK
  BY DEF CheckInv
<1> QED
  BY CheckInvariant, <1>1, PTL

-----------------------------------------------------------------------------
(* What the backend and the client are told. *)

\* A match, its submission and their scores.
LEMMA MatchScores ==
    ASSUME CheckInv, NEW n \in DOMAIN matches
    PROVE  /\ n \in DOMAIN check.pool
           /\ Combined(check.pool[n]) \in 0 .. 100 * Scale
           /\ matches[n].score \in Round4(Combined(check.pool[n]))
           /\ matches[n].score \in 0 .. Scale
<1>1. matches \in Seq(Match) /\ check.pool \in Seq(Submissions) /\ Len(matches) <= Len(check.pool)
  BY CheckIsTyped DEF CheckInv, CheckTypeOK, Match
<1>2. n \in 1 .. Len(check.pool)
  BY <1>1
<1>3. check.pool[n] \in Submissions
  BY <1>1, <1>2
<1>4. Combined(check.pool[n]) \in 0 .. 100 * Scale
  BY <1>3, CombinedInRange
<1>5. matches[n].score \in Round4(Combined(check.pool[n]))
  BY DEF CheckInv, HighestInv, Rounded
<1>6. matches[n].score \in 0 .. Scale
  BY <1>4, <1>5, RoundingIsNear
<1> QED
  BY <1>1, <1>2, <1>4, <1>5, <1>6

\* The two comparisons agree but for rounding.
LEMMA FlagFollows == CheckInv => FlagCoversPlagiarism
<1> SUFFICES ASSUME CheckInv, checkStage \in {"concluded", "answered"}
             PROVE  /\ (\E n \in DOMAIN matches : matches[n].plagiarism) => flagged
                    /\ flagged => \E n \in DOMAIN matches :
                                      Combined(check.pool[n]) >= 100 * Threshold - 50
  BY DEF FlagCoversPlagiarism
<1>1. highest \in 0 .. Scale /\ flagged = (highest >= Threshold)
  BY DEF CheckInv, CheckTypeOK, HighestInv
<1>2. Scale \in Nat /\ Threshold \in 1 .. Scale
  BY CheckAssumption
<1>3. ASSUME NEW n \in DOMAIN matches, matches[n].plagiarism PROVE flagged
  <2>1. Combined(check.pool[n]) >= 100 * Threshold
    BY <1>3 DEF CheckInv, HighestInv, Rounded
  <2>2. matches[n].score >= Threshold
    BY <2>1, MatchScores, RoundingKeepsVerdicts
  <2>3. matches # <<>> /\ matches[n].score <= highest
    BY DEF CheckInv, HighestInv
  <2>4. highest >= Threshold
    BY <1>1, <1>2, <2>2, <2>3, MatchScores
  <2> QED
    BY <1>1, <2>4, Zenon
<1>4. ASSUME flagged
      PROVE  \E n \in DOMAIN matches : Combined(check.pool[n]) >= 100 * Threshold - 50
  <2>0. highest >= Threshold
    BY <1>1, <1>4, Zenon
  <2>1. highest >= Threshold /\ highest # 0
    BY <1>1, <1>2, <2>0
  <2>2. PICK n \in DOMAIN matches : matches[n].score = highest
    BY <2>1 DEF CheckInv, HighestInv
  <2>3. 100 * highest <= Combined(check.pool[n]) + 50
    BY <2>2, MatchScores, RoundingIsNear
  <2>4. Combined(check.pool[n]) \in Int
    BY <1>2, MatchScores
  <2> QED
    BY <1>1, <1>2, <2>1, <2>3, <2>4
<1> QED
  BY <1>3, <1>4

\* A submission with a match that is plagiarism is flagged, and one that is flagged has a
\* match at the threshold up to rounding: the two comparisons of plagiarism_detector.py,
\* one exact and one rounded, cannot be told apart by more than that.
THEOREM FlagAlwaysCovers == CheckSpec => []FlagCoversPlagiarism
<1> QED
  BY CheckInvariant, FlagFollows, PTL

\* The response is that of the first of the highest scores.
LEMMA VerdictFollows == CheckInv => VerdictCitesItsMatch
<1> SUFFICES ASSUME CheckInv, checkStage = "answered" PROVE VerdictCitesItsMatch
  BY DEF VerdictCitesItsMatch
<1> DEFINE bound == IF check.threshold > 0 THEN check.threshold ELSE Threshold
<1>1. /\ response = [score |-> highest, cited |-> TopMatch,
                     plagiarism |-> IF check.threshold > 0 THEN highest >= check.threshold
                                                           ELSE flagged]
      /\ Len(matches) = Len(check.pool)
      /\ flagged = (highest >= Threshold)
  BY DEF CheckInv, HighestInv
<1>2. matches \in Seq(Match) /\ check.pool \in Seq(Submissions)
  BY CheckIsTyped DEF CheckInv, CheckTypeOK, Match
<1>3. response.plagiarism <=> response.score >= bound
  BY <1>1
<1>4. bound \in Nat \ {0} /\ response.score \in Nat
  <2>1. check.threshold \in Nat /\ Threshold \in Nat \ {0} /\ highest \in Nat
    <3>1. check.threshold \in 0 .. Scale
      BY CheckIsTyped DEF CheckInv, CheckTypeOK
    <3>2. highest \in 0 .. Scale
      BY DEF CheckInv, CheckTypeOK
    <3> QED
      BY <3>1, <3>2, CheckAssumption
  <2>2. response.score = highest
    BY <1>1
  <2> QED
    BY <2>1, <2>2
<1>5. response.score > bound => response.plagiarism
  <2> HIDE DEF bound
  <2>1. response.score > bound => response.score >= bound
    BY <1>4
  <2> QED
    BY <1>3, <2>1, Zenon
<1>6. ASSUME response.plagiarism
      PROVE  /\ response.score >= bound
             /\ response.cited \in DOMAIN matches
             /\ matches[response.cited].score = response.score
             /\ \A n \in DOMAIN check.pool :
                   Combined(check.pool[response.cited]) + 100 >= Combined(check.pool[n])
  <2>0. response.score >= bound
    BY <1>3, <1>6, Zenon
  <2>1. matches # <<>> /\ DOMAIN matches = DOMAIN check.pool
    <3>1. response.score # 0
      BY <1>4, <2>0
    <3>2. highest # 0
      BY <1>1, <3>1
    <3> QED
      BY <1>1, <1>2, <3>2 DEF CheckInv, HighestInv
  <2>2. TopMatch \in DOMAIN matches /\ matches[TopMatch].score = highest
    BY <2>1, TopMatchIsFirst
  <2>3. ASSUME NEW n \in DOMAIN check.pool
        PROVE  Combined(check.pool[TopMatch]) + 100 >= Combined(check.pool[n])
    <3>1. 100 * highest <= Combined(check.pool[TopMatch]) + 50
      BY <2>2, MatchScores, RoundingIsNear
    <3>2. Combined(check.pool[n]) - 50 <= 100 * matches[n].score
      BY <2>1, MatchScores, RoundingIsNear
    <3>3. matches[n].score <= highest
      BY <2>1 DEF CheckInv, HighestInv
    <3>4. /\ matches[n].score \in Int /\ highest \in Int
          /\ Combined(check.pool[n]) \in Int /\ Combined(check.pool[TopMatch]) \in Int
      BY <2>1, <2>2, MatchScores, CheckAssumption DEF CheckInv
    <3> QED
      BY <3>1, <3>2, <3>3, <3>4
  <2>4. response.cited = TopMatch /\ response.score = highest
    BY <1>1
  <2> QED
    BY <2>0, <2>2, <2>3, <2>4
<1> QED
  BY <1>5, <1>6 DEF VerdictCitesItsMatch

\* A client is told of plagiarism whenever the score is above the threshold that applies and
\* never when it is below, and then of a submission in the pool that has this score and that
\* no other exceeds by more than rounding hides.
THEOREM VerdictsCiteTheirMatch == CheckSpec => []VerdictCitesItsMatch
<1> QED
  BY CheckInvariant, VerdictFollows, PTL

\* The two engines together are what PlagiarismCheck needs to catch a verbatim copy: with a
\* submission of full similarity in the pool, the verdict is plagiarism at the score of 1,
\* under the service's threshold and under any of a client's; at a threshold of 1 because the
\* code, unlike its docstring, counts a score that is equal to it.
THEOREM VerbatimCopyIsCaught ==
    CheckSpec => [](checkStage = "answered"
                    /\ (\E n \in DOMAIN check.pool :
                           check.pool[n] = [ast |-> 10 * Scale, embedding |-> 10 * Scale])
                      => flagged /\ response.score = Scale /\ response.plagiarism)
<1> DEFINE Copied == \E n \in DOMAIN check.pool :
                        check.pool[n] = [ast |-> 10 * Scale, embedding |-> 10 * Scale]
<1>1. CheckInv /\ checkStage = "answered" /\ Copied
        => flagged /\ response.score = Scale /\ response.plagiarism
  <2> SUFFICES ASSUME CheckInv, checkStage = "answered", Copied
               PROVE  flagged /\ response.score = Scale /\ response.plagiarism
    OBVIOUS
  <2>1. PICK n \in DOMAIN check.pool :
               check.pool[n] = [ast |-> 10 * Scale, embedding |-> 10 * Scale]
    OBVIOUS
  <2>2. matches \in Seq(Match) /\ check.pool \in Seq(Submissions) /\ check.threshold \in 0 .. Scale
    BY CheckIsTyped DEF CheckInv, CheckTypeOK, Match
  <2>3. /\ response = [score |-> highest, cited |-> TopMatch,
                       plagiarism |-> IF check.threshold > 0 THEN highest >= check.threshold
                                                             ELSE flagged]
        /\ Len(matches) = Len(check.pool)
        /\ flagged = (highest >= Threshold)
    BY DEF CheckInv, HighestInv
  <2>4. n \in DOMAIN matches
    BY <2>2, <2>3
  <2>5. Scale \in Nat /\ Threshold \in 1 .. Scale
    BY CheckAssumption
  <2>6. Combined(check.pool[n]) = 100 * Scale
    <3>1. AstWeight \in Nat /\ EmbeddingWeight = 10 - AstWeight
      BY CheckAssumption
    <3>2. AstWeight * (10 * Scale) + (10 - AstWeight) * (10 * Scale) = 100 * Scale
      BY <2>5, <3>1
    <3> QED
      BY <2>1, <3>1, <3>2 DEF Combined
  <2>7. matches[n].score \in Round4(100 * Scale)
    BY <2>4, <2>6 DEF CheckInv, HighestInv, Rounded
  <2>8. matches[n].score = Scale
    <3>1. 100 * Scale \in 0 .. 100 * Scale
      BY <2>5
    <3>2. matches[n].score \in 0 .. Scale /\ 100 * Scale - 50 <= 100 * matches[n].score
      BY <2>7, <3>1, RoundingIsNear
    <3> QED
      BY <2>5, <3>2
  <2>9. matches[n].score <= highest /\ highest \in 0 .. Scale
    BY <2>4 DEF CheckInv, CheckTypeOK, HighestInv
  <2>10. highest = Scale
    BY <2>5, <2>8, <2>9
  <2>11. highest >= Threshold
    BY <2>5, <2>10
  <2>12. flagged
    BY <2>3, <2>11
  <2>13. response.score = highest
         /\ response.plagiarism = IF check.threshold > 0 THEN highest >= check.threshold
                                                         ELSE flagged
    BY <2>3
  <2>14. highest >= check.threshold
    BY <2>2, <2>5, <2>10
  <2>15. response.plagiarism
    BY <2>12, <2>13, <2>14
  <2> QED
    BY <2>10, <2>12, <2>13, <2>15
<1> QED
  BY CheckInvariant, <1>1, PTL
-----------------------------------------------------------------------------
(* The engines below. *)

\* Whole parts: all of it, and never more than all of it.
LEMMA ShareOfFull ==
    ASSUME NEW k \in Nat \ {0}, NEW c \in 0 .. k
    PROVE  /\ (Full * c) \div k \in 0 .. Full
           /\ (Full * k) \div k = Full
<1>1. Full \in Nat
  BY EnginesAssumption
<1> QED
  BY <1>1

\* A sequence has finitely many runs.
LEMMA GramsAreFinite ==
    ASSUME NEW s \in Seq(STRING), NEW n \in Nat
    PROVE  IsFiniteSet(Grams(s, n))
<1> DEFINE starts == 1 .. Len(s) - n + 1
           f == [i \in starts |-> SubSeq(s, i, i + n - 1)]
<1>1. IsFiniteSet(starts)
  BY FS_Interval
<1>2. f \in Surjection(starts, Grams(s, n))
  BY DEF Surjection, Grams
<1> QED
  BY <1>1, <1>2, FS_Surjection

\* Any two sequences overlap by a share of Full.
LEMMA OverlapInRange ==
    ASSUME NEW s \in Seq(STRING), NEW t \in Seq(STRING), NEW n \in Nat
    PROVE  Overlap(s, t, n) \in 0 .. Full
<1> DEFINE both == Grams(s, n) \cap Grams(t, n)
           all == Grams(s, n) \cup Grams(t, n)
<1>1. IsFiniteSet(Grams(s, n)) /\ IsFiniteSet(Grams(t, n))
  BY GramsAreFinite
<1>2. IsFiniteSet(all)
  BY <1>1, FS_Union
<1>3. IsFiniteSet(both) /\ Cardinality(both) <= Cardinality(all)
  <2>1. both \in SUBSET all
    OBVIOUS
  <2> QED
    BY <1>2, <2>1, FS_Subset
<1>4. Cardinality(all) \in Nat /\ Cardinality(both) \in Nat
  BY <1>2, <1>3, FS_CardinalityType
<1>5. CASE all = {}
  BY <1>5, EnginesAssumption DEF Overlap
<1>6. CASE all # {}
  <2>1. Cardinality(all) # 0
    BY <1>2, <1>6, FS_EmptySet
  <2> HIDE DEF both, all
  <2>2. Cardinality(all) \in Nat \ {0} /\ Cardinality(both) \in 0 .. Cardinality(all)
    BY <1>3, <1>4, <2>1
  <2>3. (Full * Cardinality(both)) \div Cardinality(all) \in 0 .. Full
    BY <2>2, ShareOfFull
  <2> QED
    BY <1>6, <2>3 DEF Overlap, both, all
<1> QED
  BY <1>5, <1>6

\* A sequence has all of its runs in common with itself, if it has none, too.
LEMMA OverlapOfCopy ==
    ASSUME NEW s \in Seq(STRING), NEW n \in Nat
    PROVE  Overlap(s, s, n) = Full
<1> DEFINE all == Grams(s, n)
<1>1. IsFiniteSet(all) /\ Cardinality(all) \in Nat
  BY GramsAreFinite, FS_CardinalityType
<1>2. all \cup all = all /\ all \cap all = all
  OBVIOUS
<1>3. CASE all = {}
  BY <1>3 DEF Overlap
<1>4. CASE all # {}
  <2>1. Cardinality(all) # 0
    BY <1>1, <1>4, FS_EmptySet
  <2>2. (Full * Cardinality(all)) \div Cardinality(all) = Full
    BY <1>1, <2>1, ShareOfFull
  <2> HIDE DEF all
  <2>3. IF all \cup all = {} THEN TRUE
        ELSE (Full * Cardinality(all \cap all)) \div Cardinality(all \cup all) = Full
    BY <1>2, <2>2
  <2> QED
    BY <1>2, <1>4, <2>3 DEF Overlap, all
<1> QED
  BY <1>3, <1>4
-----------------------------------------------------------------------------
(* Each step keeps the similarities in place. *)

EnginesInv ==
    /\ \A j \in DOMAIN jobs : jobs[j].source \in Sources /\ jobs[j].pool \in Seq(Sources)
    /\ EnginesTypeOK
    /\ CopiesScoreFull

\* The pair that a job looks at next.
LEMMA PairIsTyped ==
    ASSUME EnginesInv, NEW j \in DOMAIN jobs, Turn(j)
    PROVE  /\ Source(j) \in Sources
           /\ Other(j, semantic) \in Sources
           /\ Len(semantic[j]) + 1 \in DOMAIN jobs[j].pool
<1>1. jobs[j].source \in Sources /\ jobs[j].pool \in Seq(Sources)
  BY DEF EnginesInv
<1>2. semantic[j] \in Seq(0 .. Full) /\ Len(semantic[j]) < Len(jobs[j].pool)
  BY DEF EnginesInv, EnginesTypeOK, Turn, Unfinished
<1>3. Len(semantic[j]) + 1 \in 1 .. Len(jobs[j].pool)
  BY <1>1, <1>2
<1> QED
  BY <1>1, <1>3 DEF Source, Other

\* A new similarity at the end of a sequence, the full one for a copy, keeps those of copies.
LEMMA AppendKeepsCopies ==
    ASSUME NEW seen \in BOOLEAN, NEW pool \in Seq(Sources), NEW source, NEW found \in Seq(0 .. Full),
           NEW x \in 0 .. Full, Len(found) < Len(pool),
           \A n \in DOMAIN pool : pool[n] = source /\ n \in DOMAIN found /\ seen => found[n] = Full,
           pool[Len(found) + 1] = source /\ seen => x = Full
    PROVE  /\ Append(found, x) \in Seq(0 .. Full)
           /\ Len(Append(found, x)) = Len(found) + 1
           /\ \A n \in DOMAIN pool :
                 pool[n] = source /\ n \in DOMAIN Append(found, x) /\ seen
                    => Append(found, x)[n] = Full
  OBVIOUS

\* A language is remembered only when the table has it.
LEMMA ParsersAreTyped ==
    ASSUME EnginesInv, NEW j \in DOMAIN jobs, CompareTrees(j)
    PROVE  /\ DOMAIN parsers' \subseteq Languages
           /\ \A l \in DOMAIN parsers' : parsers'[l] \in {"ready", "none"}
<1> DEFINE language == jobs[j].language
<1>1. PICK p \in ParserOf(language) : RememberParser(language, p)
  BY DEF CompareTrees
<1>2. DOMAIN parsers \subseteq Languages /\ \A l \in DOMAIN parsers : parsers[l] \in {"ready", "none"}
  BY DEF EnginesInv, EnginesTypeOK
<1>3. p \in {"ready", "none"}
  BY <1>1, <1>2 DEF ParserOf
<1> HIDE DEF language
<1>4. CASE language \notin Languages
  BY <1>1, <1>2, <1>4 DEF RememberParser
<1>5. CASE language \in Languages
  BY <1>1, <1>2, <1>3, <1>5 DEF RememberParser
<1> QED
  BY <1>4, <1>5

\* An engine has looked at one more pair.
LEMMA CompareTreesKeeps == ASSUME EnginesInv, NEW j \in DOMAIN jobs, CompareTrees(j) PROVE EnginesInv'
<1>1. /\ Turn(j) /\ Len(structural[j]) = Len(semantic[j])
      /\ UNCHANGED <<jobs, embedder, semantic>>
  BY DEF CompareTrees
<1>2. /\ Source(j) \in Sources /\ Other(j, semantic) \in Sources
      /\ jobs[j].pool \in Seq(Sources) /\ Len(semantic[j]) < Len(jobs[j].pool)
  BY <1>1, PairIsTyped DEF EnginesInv, Turn, Unfinished
<1>3. structural \in [DOMAIN jobs -> Seq(0 .. Full)] /\ semantic \in [DOMAIN jobs -> Seq(0 .. Full)]
  BY DEF EnginesInv, EnginesTypeOK
<1>4. Other(j, structural) = Other(j, semantic)
  BY <1>1 DEF Other
<1>5. PICK x : /\ structural' = [structural EXCEPT ![j] = Append(@, x)]
               /\ \/ x = Overlap(Source(j).words, Other(j, structural).words, 2)
                  \/ x = Overlap(Source(j).tree, Other(j, structural).tree, 2)
  BY DEF CompareTrees
<1>6. x \in 0 .. Full
  BY <1>2, <1>4, <1>5, OverlapInRange DEF Sources
<1>7. jobs[j].pool[Len(structural[j]) + 1] = jobs[j].source => x = Full
  BY <1>2, <1>4, <1>5, OverlapOfCopy DEF Sources, Source, Other
<1>8. /\ structural'[j] \in Seq(0 .. Full)
      /\ Len(structural'[j]) = Len(structural[j]) + 1
      /\ \A n \in DOMAIN jobs[j].pool :
            jobs[j].pool[n] = jobs[j].source /\ n \in DOMAIN structural'[j]
                => structural'[j][n] = Full
  <2>1. structural'[j] = Append(structural[j], x)
    BY <1>3, <1>5
  <2>2. structural[j] \in Seq(0 .. Full) /\ Len(structural[j]) < Len(jobs[j].pool)
    BY <1>1, <1>2, <1>3
  <2>3. \A n \in DOMAIN jobs[j].pool :
            jobs[j].pool[n] = jobs[j].source /\ n \in DOMAIN structural[j]
                => structural[j][n] = Full
    BY DEF EnginesInv, CopiesScoreFull
  <2> QED
    BY <1>2, <1>6, <1>7, <2>1, <2>2, <2>3, AppendKeepsCopies
<1>9. \A i \in DOMAIN jobs : i # j => structural'[i] = structural[i]
  BY <1>3, <1>5
<1>10. structural' \in [DOMAIN jobs -> Seq(0 .. Full)]
  BY <1>3, <1>5, <1>8
<1>11. EnginesTypeOK'
  <2>1. ASSUME NEW i \in DOMAIN jobs
        PROVE  /\ Len(semantic[i]) <= Len(structural'[i])
               /\ Len(structural'[i]) <= Len(jobs[i].pool)
               /\ Len(structural'[i]) <= Len(semantic[i]) + 1
    <3>1. CASE i = j
      <4>1. Len(semantic[j]) \in Nat /\ Len(jobs[j].pool) \in Nat
        BY <1>2, <1>3
      <4> QED
        BY <1>1, <1>2, <1>8, <3>1, <4>1
    <3>2. CASE i # j
      BY <1>9, <3>2 DEF EnginesInv, EnginesTypeOK
    <3> QED
      BY <3>1, <3>2
  <2>2. DOMAIN parsers' \subseteq Languages /\ \A l \in DOMAIN parsers' : parsers'[l] \in {"ready", "none"}
    BY ParsersAreTyped
  <2> QED
    BY <1>1, <1>3, <1>10, <2>1, <2>2 DEF EnginesInv, EnginesTypeOK
<1>12. CopiesScoreFull'
  BY <1>1, <1>8, <1>9 DEF EnginesInv, CopiesScoreFull
<1> QED
  BY <1>1, <1>11, <1>12 DEF EnginesInv

\* A cosine that is cut off below is in range; equal texts have the full one, or vanish.
LEMMA CosineInRange ==
    ASSUME NEW s, NEW t, NEW x \in Cosine(s, t)
    PROVE  x \in 0 .. Full /\ (s = t /\ s \notin Vanishing => x = Full)
<1>1. Full \in Nat /\ Cosines \subseteq -Full .. Full
  BY EnginesAssumption
<1>0. CASE s \in Vanishing \/ t \in Vanishing
  <2>1. x = 0
    BY <1>0 DEF Cosine
  <2> QED
    BY <1>0, <1>1, <2>1
<1>2. CASE ~(s \in Vanishing \/ t \in Vanishing) /\ s = t
  BY <1>1, <1>2 DEF Cosine
<1>3. CASE ~(s \in Vanishing \/ t \in Vanishing) /\ s # t
  <2>1. PICK c \in Cosines : x = Max({0, c})
    BY <1>3 DEF Cosine
  <2>2. c \in Int /\ c <= Full
    BY <1>1
  <2>3. 0 \in Int /\ c \in Int
    BY <2>2
  <2>4. Max({0, c}) \in {0, c} /\ Max({0, c}) >= 0
    BY <2>3, MaxOfTwo
  <2>5. x \in 0 .. Full
    BY <1>1, <2>1, <2>2, <2>4
  <2> QED
    BY <1>3, <2>5
<1> QED
  BY <1>0, <1>2, <1>3

LEMMA CompareMeaningsKeeps ==
    ASSUME EnginesInv, NEW j \in DOMAIN jobs, CompareMeanings(j) PROVE EnginesInv'
<1>1. /\ Turn(j) /\ Len(structural[j]) > Len(semantic[j])
      /\ UNCHANGED <<jobs, parsers, structural>>
  BY DEF CompareMeanings
<1>2. /\ Source(j) \in Sources /\ Other(j, semantic) \in Sources
      /\ jobs[j].pool \in Seq(Sources) /\ Len(semantic[j]) < Len(jobs[j].pool)
  BY <1>1, PairIsTyped DEF EnginesInv, Turn, Unfinished
<1>3. structural \in [DOMAIN jobs -> Seq(0 .. Full)] /\ semantic \in [DOMAIN jobs -> Seq(0 .. Full)]
  BY DEF EnginesInv, EnginesTypeOK
<1>4. PICK x : /\ semantic' = [semantic EXCEPT ![j] = Append(@, x)]
               /\ \/ x = Overlap(Source(j).chars, Other(j, semantic).chars, 3)
                  \/ x \in Cosine(Source(j).chars, Other(j, semantic).chars)
  BY DEF CompareMeanings
<1>5. embedder' \in {"untried", "ready", "none"}
  BY DEF CompareMeanings, EnginesInv, EnginesTypeOK
<1>6. x \in 0 .. Full
  BY <1>2, <1>4, OverlapInRange, CosineInRange DEF Sources
<1> DEFINE seen == jobs[j].source.chars \notin Vanishing
<1>7. jobs[j].pool[Len(semantic[j]) + 1] = jobs[j].source /\ seen => x = Full
  BY <1>2, <1>4, OverlapOfCopy, CosineInRange DEF Sources, Source, Other
<1>8. /\ semantic'[j] \in Seq(0 .. Full)
      /\ Len(semantic'[j]) = Len(semantic[j]) + 1
      /\ \A n \in DOMAIN jobs[j].pool :
            jobs[j].pool[n] = jobs[j].source /\ n \in DOMAIN semantic'[j] /\ seen
                => semantic'[j][n] = Full
  <2>1. semantic'[j] = Append(semantic[j], x)
    BY <1>3, <1>4
  <2>2. semantic[j] \in Seq(0 .. Full)
    BY <1>3
  <2>3. \A n \in DOMAIN jobs[j].pool :
            jobs[j].pool[n] = jobs[j].source /\ n \in DOMAIN semantic[j] /\ seen
                => semantic[j][n] = Full
    BY DEF EnginesInv, CopiesScoreFull
  <2> QED
    BY <1>2, <1>6, <1>7, <2>1, <2>2, <2>3, AppendKeepsCopies
<1>9. \A i \in DOMAIN jobs : i # j => semantic'[i] = semantic[i]
  BY <1>3, <1>4
<1>10. semantic' \in [DOMAIN jobs -> Seq(0 .. Full)]
  BY <1>3, <1>4, <1>8
<1>11. EnginesTypeOK'
  <2>1. ASSUME NEW i \in DOMAIN jobs
        PROVE  /\ Len(semantic'[i]) <= Len(structural[i])
               /\ Len(structural[i]) <= Len(jobs[i].pool)
               /\ Len(structural[i]) <= Len(semantic'[i]) + 1
    <3>1. Len(semantic[i]) \in Nat /\ Len(structural[i]) \in Nat
      BY <1>3
    <3>2. /\ Len(structural[i]) <= Len(jobs[i].pool)
          /\ Len(structural[i]) <= Len(semantic[i]) + 1
          /\ Len(semantic[i]) <= Len(structural[i])
      BY DEF EnginesInv, EnginesTypeOK
    <3>3. CASE i = j
      BY <1>1, <1>8, <3>1, <3>2, <3>3
    <3>4. CASE i # j
      BY <1>9, <3>2, <3>4
    <3> QED
      BY <3>3, <3>4
  <2> QED
    BY <1>1, <1>3, <1>5, <1>10, <2>1 DEF EnginesInv, EnginesTypeOK
<1>12. CopiesScoreFull'
  BY <1>1, <1>8, <1>9 DEF EnginesInv, CopiesScoreFull
<1> QED
  BY <1>1, <1>11, <1>12 DEF EnginesInv

\* A comparison keeps the similarities in range, and those of copies full.
LEMMA EnginesStepInv == EnginesInv /\ [EnginesNext]_engineVars => EnginesInv'
<1> SUFFICES ASSUME EnginesInv, [EnginesNext]_engineVars PROVE EnginesInv'
  OBVIOUS
<1>1. ASSUME NEW j \in DOMAIN jobs, CompareTrees(j) PROVE EnginesInv'
  BY <1>1, CompareTreesKeeps
<1>2. ASSUME NEW j \in DOMAIN jobs, CompareMeanings(j) PROVE EnginesInv'
  BY <1>2, CompareMeaningsKeeps
<1>3. CASE UNCHANGED engineVars
  BY <1>3 DEF engineVars, EnginesInv, EnginesTypeOK, CopiesScoreFull
<1> QED
  BY <1>1, <1>2, <1>3 DEF EnginesNext

\* Nothing has been compared at first.
LEMMA EnginesInitInv == EnginesInit \/ EnginesIdle => EnginesInv
<1> SUFFICES ASSUME EnginesInit \/ EnginesIdle PROVE EnginesInv
  OBVIOUS
<1>1. /\ embedder = "untried" /\ DOMAIN parsers = {}
      /\ structural = [j \in DOMAIN jobs |-> <<>>]
      /\ semantic = [j \in DOMAIN jobs |-> <<>>]
      /\ jobs \in Jobs \/ jobs = <<>>
  <2>1. CASE EnginesInit
    BY <2>1 DEF EnginesInit
  <2>2. CASE EnginesIdle
    <3>1. <<>> = [j \in DOMAIN <<>> |-> <<>>]
      OBVIOUS
    <3> QED
      BY <2>2, <3>1 DEF EnginesIdle
  <2> QED
    BY <2>1, <2>2
<1>2. \A j \in DOMAIN jobs : jobs[j].source \in Sources /\ jobs[j].pool \in Seq(Sources)
  <2>1. CASE jobs \in Jobs
    BY <2>1, EnginesAssumption
  <2>2. CASE jobs = <<>>
    BY <2>2
  <2> QED
    BY <1>1, <2>1, <2>2
<1>3. EnginesTypeOK
  <2>1. <<>> \in Seq(0 .. Full) /\ Len(<<>>) = 0
    OBVIOUS
  <2>2. \A j \in DOMAIN jobs : 0 <= Len(jobs[j].pool)
    BY <1>2
  <2> QED
    BY <1>1, <2>1, <2>2 DEF EnginesTypeOK
<1>4. CopiesScoreFull
  BY <1>1 DEF CopiesScoreFull
<1> QED
  BY <1>2, <1>3, <1>4 DEF EnginesInv

\* Both engines give a verbatim copy the full similarity, whatever is missing or raises: for
\* any sources, languages and vectors, zero ones excepted.
THEOREM CopiesAlwaysScoreFull == EnginesSpec => []CopiesScoreFull
<1>1. EnginesInv => CopiesScoreFull
  BY DEF EnginesInv
<1> QED
  BY EnginesInitInv, EnginesStepInv, <1>1, PTL DEF EnginesSpec
=============================================================================
