---------------------------- MODULE RankedBatch ----------------------------
(***************************************************************************)
(* The four services that score a batch and rank it: hidden gems, churn,   *)
(* recommended challenges and matched talents.  One step scores one item   *)
(* of the batch; a last one sorts what was kept and cuts it.               *)
(*                                                                         *)
(* Scores are integers: 1/10000 for gems, 1/100 for churn and challenges,  *)
(* 1/10000 of a point for talents.  Floats add noise far below these       *)
(* units; the code rounds it away before it compares, except for           *)
(* challenges, whose ties may come in any order.                           *)
(***************************************************************************)
EXTENDS Integers, Sequences, FiniteSets, FiniteSetsExt, Functions

CONSTANT Batches  \* the payloads: [kind, items, asked, top]

\* What the backend sends.  Counts and days are never negative; trust is in hundredths, and
\* similarity, in tenths, is what the embeddings say of a profile.  A list whose entries the
\* services only look up is a set; where they count them it is a list, and an entry listed
\* twice counts twice.  A criterion that is absent is empty or "".
TalentStats ==
    [active : BOOLEAN, idle : Nat, signup : Nat, fragments : Nat, streak : Nat, avg : Nat,
     challenges : Nat, followers : Nat]

UserProfileSnapshot ==
    [domain : STRING, title : STRING, weak : SUBSET STRING, strong : SUBSET STRING,
     completed : SUBSET STRING]

CandidateChallenge ==
    [id : STRING, domain : STRING, difficulty : Int, skills : Seq(STRING), completions : Nat]

TalentSnapshot ==
    [domains : SUBSET STRING, fragments : Nat, title : STRING, country : STRING,
     languages : SUBSET STRING, trust : 0 .. 100, similarity : 0 .. 10]

MatchCriteria ==
    [domains : Seq(STRING), fragments : Int, title : STRING, country : STRING,
     languages : Seq(STRING), described : BOOLEAN]

ASSUME BatchesAssumption ==
    \A b \in Batches :
        /\ b.top \in Nat
        /\ \/ b.kind = "gems" /\ b.items \in Seq(TalentStats)
           \/ b.kind = "churn" /\ b.items \in Seq(TalentStats) /\ b.asked \in Int
           \/ /\ b.kind = "recommend"
              /\ b.items \in Seq(CandidateChallenge) /\ b.asked \in UserProfileSnapshot
           \/ b.kind = "match" /\ b.items \in Seq(TalentSnapshot) /\ b.asked \in MatchCriteria

VARIABLES
    batch,      \* the payload of the job
    at,         \* how many of its items have been looked at
    scored,     \* those that were kept: <<[item, score], ...>>
    ranking,    \* the list in the service's result
    rankStage   \* idle, scoring, asking (for reasons), done or failed

rankVars == <<batch, at, scored, ranking, rankStage>>

\* The points of the highest tier that x reaches: an if/elif chain over <<minimum, points>>.
Tier(x, tiers) == Max({0} \cup {tier[2] : tier \in {u \in tiers : x >= u[1]}})

\* How many entries of a list are in a set.
Hits(list, set) == Cardinality({i \in DOMAIN list : list[i] \in set})

-----------------------------------------------------------------------------
(* Hidden gems. *)

GemPoints(t) ==
    Tier(t.fragments, {<<3 * t.signup + 1, 30>>, <<t.signup + 1, 15>>})
    + Tier(t.streak, {<<30, 20>>, <<7, 10>>})
    + Tier(t.avg, {<<85, 20>>, <<70, 10>>})
    + Tier(t.challenges, {<<15, 15>>, <<5, 7>>})

\* Mutated form of Exposure: the discounts for the well known are swapped.
ExposureSwapped(t) == IF t.followers > 500 THEN 75 ELSE IF t.followers > 100 THEN 50 ELSE 110

\* What being known takes off, in percent.
Exposure(t) == IF t.followers > 500 THEN 50 ELSE IF t.followers > 100 THEN 75 ELSE 110

\* A score of 1.0, and the least that makes a gem.
TopGem == 10000
GemThreshold == 3500

GemScore(t) ==
    IF ~t.active \/ t.signup < 14 THEN 0 ELSE Min({TopGem, GemPoints(t) * Exposure(t)})

-----------------------------------------------------------------------------
(* Churn. *)

InactivityRisk(t, horizon) ==
    IF t.idle >= horizon THEN 45 ELSE Tier(t.idle, {<<Max({3, horizon \div 2}), 25>>, <<2, 8>>})

StreakRisk(t) ==
    IF t.streak = 0 /\ t.signup > 14 THEN 15 ELSE IF t.streak < 3 THEN 6 ELSE 0

\* Mutated form of ChurnRisk: the sum of the signals is not capped.
ChurnRiskUncapped(t, horizon) ==
    InactivityRisk(t, horizon) + StreakRisk(t)
    + (IF t.challenges = 0 THEN 20 ELSE IF t.challenges <= 2 THEN 8 ELSE 0)
    + (IF 0 < t.avg /\ t.avg < 50 THEN 15 ELSE 0)
    + (IF t.signup < 30 /\ t.fragments < 20 THEN 15 ELSE 0)

ChurnRisk(t, horizon) ==
    IF ~t.active THEN 100
    ELSE Min({100, InactivityRisk(t, horizon) + StreakRisk(t)
                   + (IF t.challenges = 0 THEN 20 ELSE IF t.challenges <= 2 THEN 8 ELSE 0)
                   + (IF 0 < t.avg /\ t.avg < 50 THEN 15 ELSE 0)
                   + (IF t.signup < 30 /\ t.fragments < 20 THEN 15 ELSE 0)})

-----------------------------------------------------------------------------
(* Recommendations. *)

Levels == [Apprenti |-> 1, Artisan |-> 2, Maitre |-> 3, Legende |-> 4]
Level(u) == IF u.title \in DOMAIN Levels THEN Levels[u.title] ELSE 1

\* One level around the user's; difficulties go from 1 to 5.
InWindow(u, c) == Max({1, Level(u) - 1}) <= c.difficulty /\ c.difficulty <= Min({5, Level(u) + 1})

BaseScore(u, c) ==
    IF c.id \in u.completed THEN 0
    ELSE Min({100, (IF c.domain = u.domain THEN 35 ELSE 0)
                   + (IF InWindow(u, c) THEN 25 ELSE 5)
                   + Min({20, 10 * Hits(c.skills, u.weak)})
                   + Min({10, 5 * Hits(c.skills, u.strong)})
                   + (IF c.completions > 500 THEN 10 ELSE IF c.completions > 50 THEN 5 ELSE 0)})

-----------------------------------------------------------------------------
(* Matching. *)

Titles == [Apprenti |-> 0, Artisan |-> 1, Maitre |-> 2, Legende |-> 3]
Rank(title, unknown) == IF title \in DOMAIN Titles THEN Titles[title] ELSE unknown

PassesFilters(t, q) ==
    /\ q.domains = <<>> \/ Range(q.domains) \cap t.domains # {}
    /\ q.fragments > 0 => t.fragments >= q.fragments
    /\ q.title # "" => Rank(t.title, -1) >= Rank(q.title, 0)
    /\ q.country # "" => t.country = q.country

\* The share of what is asked that a talent has; all of it when nothing is asked.
Share(points, asked, has) ==
    IF asked = <<>> THEN points ELSE (points * Hits(asked, has)) \div Len(asked)

\* What each part is worth, in 1/30000 of a point, where thirds and the fractions of the
\* inputs are exact: all the domains, the fragments and the languages, then one rank of the
\* title, one hundredth of trust and one tenth of similarity.  The three quotients are
\* rounded down to this unit, so that a sum may be less than three of it too small.
DomainPoints == 750000
FragmentPoints == 750000
LanguagePoints == 450000
TitlePoints == 200000
TrustPoints == 4500
SemanticPoints == 45000

FragmentCap(q) == Max({2 * q.fragments, 5000})

RawRelevance(t, q) ==
    Share(DomainPoints, q.domains, t.domains)
    + (FragmentPoints * Min({t.fragments, FragmentCap(q)})) \div FragmentCap(q)
    + TitlePoints * Rank(t.title, 0)
    + Share(LanguagePoints, q.languages, t.languages)
    + TrustPoints * t.trust
    + (IF q.described THEN SemanticPoints * t.similarity ELSE 0)

\* Rounded to four digits.
Relevance(t, q) == (RawRelevance(t, q) + 1) \div 3

-----------------------------------------------------------------------------
(* The job. *)

Score(b, t) ==
    CASE b.kind = "gems"      -> GemScore(t)
      [] b.kind = "churn"     -> ChurnRisk(t, b.asked)
      [] b.kind = "recommend" -> BaseScore(b.asked, t)
      [] b.kind = "match"     -> Relevance(t, b.asked)

Keeps(b, t) ==
    CASE b.kind = "gems"      -> GemScore(t) >= GemThreshold
      [] b.kind = "churn"     -> TRUE
      [] b.kind = "recommend" -> BaseScore(b.asked, t) > 0
      [] b.kind = "match"     -> PassesFilters(t, b.asked)

\* How many entries the result has room for; two of the services return them all.
Top(b) == IF b.kind \in {"gems", "recommend"} THEN b.top ELSE Len(b.items)

NoBatch == [kind |-> "none", items |-> <<>>, asked |-> 0, top |-> 0]

RankIdle == batch = NoBatch /\ at = 0 /\ scored = <<>> /\ ranking = <<>> /\ rankStage = "idle"

RankInit ==
    /\ batch \in Batches
    /\ at = 0
    /\ scored = <<>>
    /\ ranking = <<>>
    /\ rankStage = "scoring"

ScoreItem ==
    /\ rankStage = "scoring"
    /\ at < Len(batch.items)
    /\ at' = at + 1
    /\ LET t == batch.items[at + 1]
       IN  scored' = IF Keeps(batch, t)
                     THEN Append(scored, [item |-> at + 1, score |-> Score(batch, t)])
                     ELSE scored
    /\ UNCHANGED <<batch, ranking, rankStage>>

\* The orders a descending sort may leave entries in: it is stable, but the float
\* noise of challenge scores decides between equal ones.
Sorted(entries, stable) ==
    {[p \in 1 .. Len(entries) |-> entries[order[p]]] : order \in
        {o \in Bijection(1 .. Len(entries), 1 .. Len(entries)) :
            \A p, q \in 1 .. Len(entries) : p < q =>
                \/ entries[o[p]].score > entries[o[q]].score
                \/ entries[o[p]].score = entries[o[q]].score /\ (stable => o[p] < o[q])}}

FirstOf(entries, n) == SubSeq(entries, 1, Min({n, Len(entries)}))

\* Mutated form of Ranked: the batch is cut before it is sorted.
RankedCutFirst(b, entries) == Sorted(FirstOf(entries, Top(b)), b.kind # "recommend")

\* The rankings the service may return.
Ranked(b, entries) == {FirstOf(s, Top(b)) : s \in Sorted(entries, b.kind # "recommend")}

\* Sorted and cut; a recommendation with candidates goes on to ask the model for reasons.
RankItems ==
    /\ rankStage = "scoring"
    /\ at = Len(batch.items)
    /\ ranking' \in Ranked(batch, scored)
    /\ rankStage' = IF batch.kind = "recommend" /\ scored # <<>> THEN "asking" ELSE "done"
    /\ UNCHANGED <<batch, at, scored>>

\* Reasons, or none for an API error or an answer that is not JSON: the ranking stands.
Reasons ==
    /\ rankStage = "asking"
    /\ rankStage' = "done"
    /\ UNCHANGED <<batch, at, scored, ranking>>

\* Any other exception of the client or of the answer's shape: the job fails.
ReasonsRaise ==
    /\ rankStage = "asking"
    /\ rankStage' = "failed"
    /\ UNCHANGED <<batch, at, scored, ranking>>

RankNext == ScoreItem \/ RankItems \/ Reasons \/ ReasonsRaise

RankSpec == RankInit /\ [][RankNext]_rankVars
-----------------------------------------------------------------------------
(* Properties *)

HighestRelevance == 1150000

Highest(b) ==
    CASE b.kind = "gems" -> TopGem [] b.kind = "match" -> HighestRelevance [] OTHER -> 100

\* The bounds the result models declare (ge = 0, le = 1), the scale of relevance with its
\* semantic bonus, and a ranking only of what has been scored.
RankTypeOK ==
    /\ batch \in Batches \/ batch = NoBatch
    /\ at \in 0 .. Len(batch.items)
    /\ rankStage \in {"idle", "scoring", "asking", "done", "failed"}
    /\ scored \in Seq([item : 1 .. at,
                      score : 0 .. Highest(batch)])
    /\ Range(ranking) \subseteq Range(scored)

\* The result has its entries in order, none twice, and leaves out nothing that was kept
\* and belongs before one of them; it is shorter than top_n only when all are in it.
RankingIsComplete ==
    rankStage \in {"asking", "done"} =>
        /\ Len(ranking) = Min({Top(batch), Len(scored)})
        /\ \A p, q \in DOMAIN ranking : p < q =>
              ranking[p].item # ranking[q].item /\ ranking[p].score >= ranking[q].score
        /\ \A left \in Range(scored) \ Range(ranking), shown \in Range(ranking) :
              left.score <= shown.score

\* more has each entry of less, and as often.
Covers(more, less) ==
    \E f \in Injection(DOMAIN less, DOMAIN more) : \A i \in DOMAIN less : more[f[i]] = less[i]

\* a deserves its place as much as c does, in everything the service looks at.
Deserves(b, a, c) ==
    CASE b.kind = "gems" ->
            /\ a.active
            /\ a.signup = c.signup
            /\ a.fragments >= c.fragments
            /\ a.streak >= c.streak
            /\ a.avg >= c.avg
            /\ a.challenges >= c.challenges
            /\ a.followers <= c.followers
      [] b.kind = "churn" ->
            \/ ~a.active
            \/ /\ c.active
               /\ a.idle >= c.idle
               /\ a.streak <= c.streak
               /\ a.challenges <= c.challenges
               /\ <<a.avg, a.signup, a.fragments>> = <<c.avg, c.signup, c.fragments>>
      [] b.kind = "recommend" ->
            /\ a.id \notin b.asked.completed
            /\ c.domain = b.asked.domain => a.domain = b.asked.domain
            /\ a.difficulty = c.difficulty
            /\ Covers(a.skills, c.skills)
            /\ a.completions >= c.completions
      [] b.kind = "match" ->
            /\ c.domains \subseteq a.domains
            /\ a.fragments >= c.fragments
            /\ Rank(a.title, -1) >= Rank(c.title, -1)
            /\ a.country = c.country
            /\ c.languages \subseteq a.languages
            /\ a.trust >= c.trust
            /\ a.similarity >= c.similarity

\* Whatever the weights, tiers, discounts and filters add up to: who deserves a place as
\* much as somebody in the result is there before him, or has the same score.
BetterNeverBehind ==
    rankStage = "done" =>
        \A i \in DOMAIN batch.items, p \in DOMAIN ranking :
            Deserves(batch, batch.items[i], batch.items[ranking[p].item]) =>
                \/ \E q \in 1 .. p : ranking[q].item = i
                \/ \E e \in Range(scored) : e = [item |-> i, score |-> ranking[p].score]

\* The inductive strengthening of all three: what is scored so far is what the service keeps
\* of the items it has looked at, in their order and with their scores.
RankInv ==
    /\ RankTypeOK
    /\ \A p, q \in DOMAIN scored : p < q => scored[p].item < scored[q].item
    /\ \A i \in 1 .. at :
          LET t == batch.items[i]
          IN  Keeps(batch, t) => [item |-> i, score |-> Score(batch, t)] \in Range(scored)
    /\ \A e \in Range(scored) :
          LET t == batch.items[e.item]
          IN  Keeps(batch, t) /\ e.score = Score(batch, t)
    /\ rankStage \in {"asking", "done"} =>
          at = Len(batch.items) /\ ranking \in Ranked(batch, scored)
=============================================================================
