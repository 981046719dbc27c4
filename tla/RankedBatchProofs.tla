-------------------------- MODULE RankedBatchProofs --------------------------
(***************************************************************************)
(* Proofs about RankedBatch, for any payloads that the backend may send:   *)
(* scores stay in their bounds, a ranking has its entries in order and     *)
(* leaves out none that belongs there, and nobody is behind whom he beats  *)
(* in all that the service looks at.                                       *)
(***************************************************************************)
EXTENDS RankedBatch, FiniteSetTheorems, TLAPS

-----------------------------------------------------------------------------
(* Minima, maxima, divisions and shares *)

(* The largest of a set, when it has one. *)
LEMMA MaxIs ==
    ASSUME NEW S \in SUBSET Int, NEW m \in S, \A x \in S : m >= x
    PROVE  Max(S) = m
<1>1. Max(S) \in S /\ \A x \in S : Max(S) >= x
  BY DEF Max
<1>2. Max(S) >= m /\ m >= Max(S) /\ Max(S) \in Int /\ m \in Int
  BY <1>1
<1>3. QED
  BY <1>2

LEMMA SmallerIs ==
    ASSUME NEW a \in Int, NEW b \in Int
    PROVE  Min({a, b}) = IF a <= b THEN a ELSE b
<1>1. \E x \in {a, b} : \A y \in {a, b} : x <= y
  <2>1. CASE a <= b
    BY <2>1
  <2>2. CASE b <= a
    BY <2>2
  <2>3. QED
    BY <2>1, <2>2
<1>2. Min({a, b}) \in {a, b} /\ \A y \in {a, b} : Min({a, b}) <= y
  BY <1>1 DEF Min
<1>3. QED
  BY <1>2

LEMMA ProductIsNat == \A a, b \in Nat : a * b \in Nat
OBVIOUS

(* What is capped stays in the order it had, and so does a weighted count. *)
LEMMA Capped ==
    \A cap, n \in Nat : /\ Min({cap, n}) \in 0 .. cap
                        /\ \A m \in Nat : n <= m => Min({cap, n}) <= Min({cap, m})
<1>1. \A cap, n \in Nat : Min({cap, n}) = IF cap <= n THEN cap ELSE n
  BY SmallerIs
<1>2. QED
  BY <1>1

LEMMA CappedCount ==
    \A cap, weight, n \in Nat :
        /\ Min({cap, weight * n}) \in 0 .. cap
        /\ \A m \in Nat : n <= m => Min({cap, weight * n}) <= Min({cap, weight * m})
<1> SUFFICES ASSUME NEW cap \in Nat, NEW weight \in Nat, NEW n \in Nat, NEW m \in Nat
             PROVE  /\ Min({cap, weight * n}) \in 0 .. cap
                    /\ n <= m => Min({cap, weight * n}) <= Min({cap, weight * m})
  OBVIOUS
<1> DEFINE x == weight * n
           y == weight * m
<1>1. x \in Nat /\ y \in Nat /\ (n <= m => x <= y)
  BY ProductIsNat
<1> HIDE DEF x, y
<1>2. QED
  BY <1>1, Capped DEF x, y

LEMMA LargerIs ==
    ASSUME NEW a \in Int, NEW b \in Int
    PROVE  Max({a, b}) = IF a >= b THEN a ELSE b
<1>1. CASE a >= b
  BY <1>1, MaxIs
<1>2. CASE ~(a >= b)
  BY <1>2, MaxIs
<1>3. QED
  BY <1>1, <1>2

(* A tier is reached with its minimum; the higher of two counts. *)
LEMMA TierOfTwo ==
    ASSUME NEW x \in Int, NEW high \in Int, NEW low \in Int, low <= high,
           NEW more \in Nat, NEW less \in Nat, less <= more
    PROVE  Tier(x, {<<high, more>>, <<low, less>>}) =
              IF x >= high THEN more ELSE IF x >= low THEN less ELSE 0
<1> DEFINE reached == {u \in {<<high, more>>, <<low, less>>} : x >= u[1]}
           points == {0} \cup {tier[2] : tier \in reached}
<1>1. Tier(x, {<<high, more>>, <<low, less>>}) = Max(points)
  BY DEF Tier
<1>2. points \in SUBSET Int
  OBVIOUS
<1>3. CASE x >= high
  <2>1. more \in points /\ \A y \in points : more >= y
    <3>1. <<high, more>> \in reached /\ <<high, more>>[2] = more
      BY <1>3
    <3>2. QED
      BY <3>1
  <2> HIDE DEF points
  <2>2. QED
    BY <1>1, <1>2, <1>3, <2>1, MaxIs
<1>4. CASE ~(x >= high) /\ x >= low
  <2>1. less \in points /\ \A y \in points : less >= y
    <3>1. <<low, less>> \in reached /\ <<low, less>>[2] = less
      BY <1>4
    <3>2. \A tier \in reached : tier[2] = less
      BY <1>4
    <3>3. QED
      BY <3>1, <3>2
  <2> HIDE DEF points
  <2>2. QED
    BY <1>1, <1>2, <1>4, <2>1, MaxIs
<1>5. CASE ~(x >= high) /\ ~(x >= low)
  <2>1. 0 \in points /\ \A y \in points : 0 >= y
    <3>1. reached = {}
      BY <1>5
    <3>2. QED
      BY <3>1
  <2> HIDE DEF points
  <2>2. QED
    BY <1>1, <1>2, <1>5, <2>1, MaxIs
<1>6. QED
  BY <1>3, <1>4, <1>5

(* What is left by a division. *)
LEMMA Division ==
    ASSUME NEW a \in Int, NEW n \in Nat \ {0}
    PROVE  /\ a \div n \in Int
           /\ n * (a \div n) <= a
           /\ a < n * (a \div n) + n
OBVIOUS

(* Division keeps the order. *)
LEMMA DivisionMonotone ==
    ASSUME NEW a \in Int, NEW b \in Int, NEW n \in Nat \ {0}, a <= b
    PROVE  a \div n <= b \div n
<1> DEFINE p == a \div n
           q == b \div n
<1>1. p \in Int /\ q \in Int /\ n * p <= a /\ b < n * q + n
  BY Division
<1> HIDE DEF p, q
<1>2. ASSUME q < p PROVE FALSE
  <2>1. n * (q + 1) <= n * p
    BY <1>1, <1>2
  <2>2. n * (q + 1) = n * q + n /\ n * q \in Int /\ n * p \in Int
    BY <1>1
  <2>3. QED
    BY <1>1, <2>1, <2>2
<1>3. QED
  BY <1>1, <1>2 DEF p, q

(* A part of a whole is worth no more than all of it. *)
LEMMA PortionBounds ==
    ASSUME NEW points \in Nat, NEW n \in Nat \ {0}, NEW part \in 0 .. n
    PROVE  (points * part) \div n \in 0 .. points
<1> DEFINE q == (points * part) \div n
<1>1. points * part \in Nat /\ points * part <= points * n
  BY ProductIsNat
<1>2. q \in Int /\ n * q <= points * part /\ points * part < n * q + n
  BY <1>1, Division
<1> HIDE DEF q
<1>3. q >= 0
  <2>1. ASSUME q <= -1 PROVE FALSE
    <3>1. n * q <= n * (-1)
      BY <1>2, <2>1
    <3>2. n * (-1) = -n
      OBVIOUS
    <3>3. QED
      BY <1>1, <1>2, <3>1, <3>2
  <2>2. QED
    BY <1>2, <2>1
<1>4. q <= points
  <2>1. ASSUME q >= points + 1 PROVE FALSE
    <3>1. n * q >= n * (points + 1)
      BY <1>2, <2>1
    <3>2. n * (points + 1) = points * n + n /\ points * n \in Nat
      BY ProductIsNat
    <3>3. QED
      BY <1>1, <1>2, <3>1, <3>2
  <2>2. QED
    BY <1>2, <2>1
<1>5. QED
  BY <1>2, <1>3, <1>4 DEF q

(* The places of a list whose entries are in a set are finitely many, no more than all. *)
LEMMA HitsAre ==
    ASSUME NEW S, NEW list \in Seq(S), NEW set
    PROVE  /\ IsFiniteSet({i \in DOMAIN list : list[i] \in set})
           /\ Hits(list, set) \in 0 .. Len(list)
           /\ Len(list) \in Nat
           /\ list # <<>> => Len(list) # 0
<1> DEFINE places == {i \in DOMAIN list : list[i] \in set}
<1>1. DOMAIN list = 1 .. Len(list) /\ Len(list) \in Nat /\ (list # <<>> => Len(list) # 0)
  OBVIOUS
<1>2. /\ IsFiniteSet(1 .. Len(list))
      /\ Cardinality(1 .. Len(list)) = IF 1 > Len(list) THEN 0 ELSE Len(list) - 1 + 1
  BY <1>1, FS_Interval
<1>3. Cardinality(1 .. Len(list)) = Len(list)
  BY <1>1, <1>2
<1>4. places \in SUBSET (1 .. Len(list))
  BY <1>1
<1>5. IsFiniteSet(places) /\ Cardinality(places) <= Cardinality(1 .. Len(list))
  BY <1>2, <1>4, FS_Subset
<1>6. Cardinality(places) \in Nat
  BY <1>5, FS_CardinalityType
<1> HIDE DEF places
<1>7. Cardinality(places) \in 0 .. Len(list)
  BY <1>1, <1>3, <1>5, <1>6
<1>8. QED
  BY <1>1, <1>5, <1>7 DEF Hits, places

LEMMA MoreHits ==
    ASSUME NEW S, NEW list \in Seq(S), NEW set, NEW more, set \subseteq more
    PROVE  Hits(list, set) <= Hits(list, more)
<1> DEFINE places(s) == {i \in DOMAIN list : list[i] \in s}
<1>1. IsFiniteSet(places(more)) /\ places(set) \in SUBSET places(more)
  BY HitsAre
<1> HIDE DEF places
<1>2. Cardinality(places(set)) <= Cardinality(places(more))
  BY <1>1, FS_Subset
<1>3. QED
  BY <1>2 DEF Hits, places

(* A list that has each entry of another, as often, has as many in any set. *)
LEMMA CoveringHits ==
    ASSUME NEW S, NEW less \in Seq(S), NEW more \in Seq(S), Covers(more, less), NEW set
    PROVE  Hits(less, set) <= Hits(more, set)
<1> DEFINE places(list) == {i \in DOMAIN list : list[i] \in set}
<1>1. PICK f \in Injection(DOMAIN less, DOMAIN more) : \A i \in DOMAIN less : more[f[i]] = less[i]
  BY DEF Covers
<1>2. /\ f \in [DOMAIN less -> DOMAIN more]
      /\ \A i, j \in DOMAIN less : f[i] = f[j] => i = j
  BY DEF Injection, IsInjective
<1> DEFINE g == [i \in places(less) |-> f[i]]
<1>3. g \in [places(less) -> places(more)]
  BY <1>1, <1>2
<1>4. \A i, j \in places(less) : g[i] = g[j] => i = j
  BY <1>2
<1>5. IsFiniteSet(places(more))
  BY HitsAre
<1> HIDE DEF places, g
<1>6. g \in Injection(places(less), places(more))
  BY <1>3, <1>4 DEF Injection, IsInjective
<1>7. Cardinality(places(less)) <= Cardinality(places(more))
  BY <1>5, <1>6, FS_Injection
<1>8. QED
  BY <1>7 DEF Hits, places

(* A share is a part of the points, and grows with what a talent has. *)
LEMMA ShareFacts ==
    ASSUME NEW points \in Nat, NEW S, NEW asked \in Seq(S), NEW has
    PROVE  /\ Share(points, asked, has) \in 0 .. points
           /\ \A more : has \subseteq more => Share(points, asked, has) <= Share(points, asked, more)
<1> DEFINE n == Len(asked)
           part(s) == Hits(asked, s)
<1>1. \A s : part(s) \in 0 .. n /\ n \in Nat /\ (asked # <<>> => n # 0)
  BY HitsAre
<1>2. CASE asked = <<>>
  BY <1>2 DEF Share
<1>3. CASE asked # <<>>
  <2>1. \A s : Share(points, asked, s) = (points * part(s)) \div n
    BY <1>3 DEF Share
  <2>2. \A more : has \subseteq more => part(has) <= part(more)
    BY MoreHits
  <2> HIDE DEF n, part
  <2>3. n \in Nat \ {0}
    BY <1>1, <1>3
  <2>4. \A s : Share(points, asked, s) \in 0 .. points
    BY <1>1, <2>1, <2>3, PortionBounds
  <2>5. ASSUME NEW more, has \subseteq more
        PROVE  Share(points, asked, has) <= Share(points, asked, more)
    <3>1. part(has) <= part(more) /\ part(has) \in Nat /\ part(more) \in Nat
      BY <1>1, <2>2, <2>5
    <3>2. points * part(has) <= points * part(more)
      BY <3>1
    <3>3. points * part(has) \in Int /\ points * part(more) \in Int
      BY <3>1
    <3>4. QED
      BY <2>1, <2>3, <3>2, <3>3, DivisionMonotone
  <2>6. QED
    BY <2>4, <2>5
<1>4. QED
  BY <1>2, <1>3

-----------------------------------------------------------------------------
(* Hidden gems *)

(* The points of the four signals, tier by tier. *)
LEMMA GemPointsIs ==
    ASSUME NEW t \in TalentStats
    PROVE  GemPoints(t) =
              (IF t.fragments >= 3 * t.signup + 1 THEN 30
               ELSE IF t.fragments >= t.signup + 1 THEN 15 ELSE 0)
              + (IF t.streak >= 30 THEN 20 ELSE IF t.streak >= 7 THEN 10 ELSE 0)
              + (IF t.avg >= 85 THEN 20 ELSE IF t.avg >= 70 THEN 10 ELSE 0)
              + (IF t.challenges >= 15 THEN 15 ELSE IF t.challenges >= 5 THEN 7 ELSE 0)
<1>1. /\ t.fragments \in Nat /\ t.signup \in Nat /\ t.streak \in Nat /\ t.avg \in Nat
      /\ t.challenges \in Nat
  BY DEF TalentStats
<1>2. 3 * t.signup + 1 \in Int /\ t.signup + 1 \in Int /\ t.signup + 1 <= 3 * t.signup + 1
  BY <1>1
<1>3. Tier(t.fragments, {<<3 * t.signup + 1, 30>>, <<t.signup + 1, 15>>}) =
         IF t.fragments >= 3 * t.signup + 1 THEN 30
         ELSE IF t.fragments >= t.signup + 1 THEN 15 ELSE 0
  <2> DEFINE high == 3 * t.signup + 1
             low == t.signup + 1
  <2>1. high \in Int /\ low \in Int /\ low <= high /\ t.fragments \in Int
    BY <1>1, <1>2
  <2> HIDE DEF high, low
  <2>2. Tier(t.fragments, {<<high, 30>>, <<low, 15>>}) =
           IF t.fragments >= high THEN 30 ELSE IF t.fragments >= low THEN 15 ELSE 0
    BY <2>1, TierOfTwo
  <2>3. QED
    BY <2>2 DEF high, low
<1>4. \A x \in Int, high, low \in Int, more, less \in Nat :
         low <= high /\ less <= more =>
            Tier(x, {<<high, more>>, <<low, less>>}) =
               IF x >= high THEN more ELSE IF x >= low THEN less ELSE 0
  BY TierOfTwo
<1>5. \A x \in Int :
         /\ Tier(x, {<<30, 20>>, <<7, 10>>}) = IF x >= 30 THEN 20 ELSE IF x >= 7 THEN 10 ELSE 0
         /\ Tier(x, {<<85, 20>>, <<70, 10>>}) = IF x >= 85 THEN 20 ELSE IF x >= 70 THEN 10 ELSE 0
         /\ Tier(x, {<<15, 15>>, <<5, 7>>}) = IF x >= 15 THEN 15 ELSE IF x >= 5 THEN 7 ELSE 0
  BY <1>4
<1>6. QED
  BY <1>1, <1>3, <1>5 DEF GemPoints

LEMMA GemPointsBounds ==
    ASSUME NEW t \in TalentStats
    PROVE  /\ GemPoints(t) \in 0 .. 85 /\ Exposure(t) \in {50, 75, 110}
           /\ GemPoints(t) * Exposure(t) \in Nat
<1>1. GemPoints(t) \in 0 .. 85
  BY GemPointsIs DEF TalentStats
<1>2. Exposure(t) \in {50, 75, 110}
  BY DEF Exposure
<1>3. QED
  BY <1>1, <1>2

(* The score before it is capped. *)
GemProduct(t) == GemPoints(t) * Exposure(t)

LEMMA GemScoreBounds ==
    ASSUME NEW t \in TalentStats
    PROVE  /\ GemScore(t) \in 0 .. TopGem
           /\ GemProduct(t) \in Nat
<1>1. GemScore(t) = 0 \/ GemScore(t) = Min({TopGem, GemProduct(t)})
  BY DEF GemScore, GemProduct
<1>2. GemProduct(t) \in Nat
  BY GemPointsBounds DEF GemProduct
<1>3. TopGem \in Nat
  BY SMT DEF TopGem
<1>4. Min({TopGem, GemProduct(t)}) \in 0 .. TopGem
  BY <1>2, <1>3, Capped
<1>5. QED
  BY <1>1, <1>2, <1>3, <1>4

(* More activity and fewer followers never lower the score. *)
LEMMA GemScoreMonotone ==
    ASSUME NEW a \in TalentStats, NEW c \in TalentStats,
           a.active, a.signup = c.signup, a.fragments >= c.fragments, a.streak >= c.streak,
           a.avg >= c.avg, a.challenges >= c.challenges, a.followers <= c.followers
    PROVE  GemScore(a) >= GemScore(c)
<1>1. /\ \A t \in {a, c} : /\ t.active \in BOOLEAN /\ t.followers \in Nat /\ t.signup \in Nat
                           /\ t.fragments \in Nat /\ t.streak \in Nat /\ t.avg \in Nat
                           /\ t.challenges \in Nat
  BY DEF TalentStats
<1>2. GemPoints(a) >= GemPoints(c)
  BY <1>1, GemPointsIs
<1>3. Exposure(a) >= Exposure(c)
  BY <1>1 DEF Exposure
<1>4. GemPoints(a) * Exposure(a) >= GemPoints(c) * Exposure(c)
  <2>1. /\ GemPoints(a) \in Nat /\ GemPoints(c) \in Nat
        /\ Exposure(a) \in {50, 75, 110} /\ Exposure(c) \in {50, 75, 110}
    BY GemPointsBounds
  <2> HIDE DEF Exposure, GemPoints
  <2>2. \A p, q \in Nat, x, y \in {50, 75, 110} : p >= q /\ x >= y => p * x >= q * y
    OBVIOUS
  <2>3. QED
    BY <1>2, <1>3, <2>1, <2>2
<1>5. GemProduct(a) \in Nat /\ GemProduct(c) \in Nat /\ GemProduct(c) <= GemProduct(a)
  BY <1>4, GemPointsBounds DEF GemProduct
<1> DEFINE new(t) == ~t.active \/ t.signup < 14
<1>6. \A t \in {a, c} : GemScore(t) = IF new(t) THEN 0 ELSE Min({TopGem, GemProduct(t)})
  BY DEF GemScore, GemProduct
<1>7. TopGem \in Nat
  BY SMT DEF TopGem
<1>8. (\A t \in {a, c} : GemScore(t) \in 0 .. TopGem) /\ (new(a) => new(c))
  BY GemScoreBounds
<1> HIDE DEF new
<1>9. Min({TopGem, GemProduct(c)}) <= Min({TopGem, GemProduct(a)})
  BY <1>5, <1>7, Capped
<1>10. CASE new(c)
  BY <1>6, <1>7, <1>8, <1>10
<1>11. CASE ~new(c)
  BY <1>6, <1>7, <1>8, <1>9, <1>11
<1>12. QED
  BY <1>10, <1>11

-----------------------------------------------------------------------------
(* Churn *)

LEMMA InactivityRiskIs ==
    ASSUME NEW t \in TalentStats, NEW horizon \in Int
    PROVE  LET middle == IF 3 >= horizon \div 2 THEN 3 ELSE horizon \div 2
           IN  /\ middle \in Int
               /\ InactivityRisk(t, horizon) =
                     IF t.idle >= horizon THEN 45
                     ELSE IF t.idle >= middle THEN 25 ELSE IF t.idle >= 2 THEN 8 ELSE 0
<1> DEFINE middle == IF 3 >= horizon \div 2 THEN 3 ELSE horizon \div 2
<1>1. t.idle \in Int /\ horizon \div 2 \in Int
  BY DEF TalentStats
<1>2. middle \in Int /\ 2 <= middle /\ Max({3, horizon \div 2}) = middle
  BY <1>1, LargerIs
<1> HIDE DEF middle
<1>3. Tier(t.idle, {<<middle, 25>>, <<2, 8>>}) =
         IF t.idle >= middle THEN 25 ELSE IF t.idle >= 2 THEN 8 ELSE 0
  BY <1>1, <1>2, TierOfTwo
<1>4. InactivityRisk(t, horizon) =
         IF t.idle >= horizon THEN 45 ELSE Tier(t.idle, {<<middle, 25>>, <<2, 8>>})
  BY <1>2 DEF InactivityRisk
<1>5. QED
  BY <1>2, <1>3, <1>4 DEF middle

(* The signals of a talent who is active, before their sum is capped. *)
Signals(t, horizon) ==
    InactivityRisk(t, horizon) + StreakRisk(t)
    + (IF t.challenges = 0 THEN 20 ELSE IF t.challenges <= 2 THEN 8 ELSE 0)
    + (IF 0 < t.avg /\ t.avg < 50 THEN 15 ELSE 0)
    + (IF t.signup < 30 /\ t.fragments < 20 THEN 15 ELSE 0)

LEMMA SignalsAreNumbers ==
    ASSUME NEW t \in TalentStats, NEW horizon \in Int
    PROVE  InactivityRisk(t, horizon) \in 0 .. 45 /\ Signals(t, horizon) \in Nat
<1>1. InactivityRisk(t, horizon) \in 0 .. 45
  BY InactivityRiskIs
<1>2. StreakRisk(t) \in 0 .. 15
  BY DEF StreakRisk
<1>3. QED
  BY <1>1, <1>2 DEF Signals

LEMMA ChurnRiskBounds ==
    ASSUME NEW t \in TalentStats, NEW horizon \in Int
    PROVE  /\ ChurnRisk(t, horizon) \in 0 .. 100
           /\ ChurnRisk(t, horizon) = IF ~t.active THEN 100
                                      ELSE IF 100 <= Signals(t, horizon) THEN 100
                                      ELSE Signals(t, horizon)
<1>1. Signals(t, horizon) \in Nat
  BY SignalsAreNumbers
<1>2. ChurnRisk(t, horizon) = IF ~t.active THEN 100 ELSE Min({100, Signals(t, horizon)})
  BY DEF ChurnRisk, Signals
<1>3. Min({100, Signals(t, horizon)}) =
         IF 100 <= Signals(t, horizon) THEN 100 ELSE Signals(t, horizon)
  BY <1>1, SmallerIs
<1>4. Min({100, Signals(t, horizon)}) \in 0 .. 100 /\ 100 \in 0 .. 100
  BY <1>1, <1>3
<1>5. QED
  BY <1>2, <1>3, <1>4, Zenon

(* Longer absence, a shorter streak and fewer challenges never lower the risk. *)
LEMMA ChurnRiskMonotone ==
    ASSUME NEW a \in TalentStats, NEW c \in TalentStats, NEW horizon \in Int,
           \/ ~a.active
           \/ /\ c.active
              /\ a.idle >= c.idle
              /\ a.streak <= c.streak
              /\ a.challenges <= c.challenges
              /\ <<a.avg, a.signup, a.fragments>> = <<c.avg, c.signup, c.fragments>>
    PROVE  ChurnRisk(a, horizon) >= ChurnRisk(c, horizon)
<1>1. CASE ~a.active
  <2>1. ChurnRisk(a, horizon) = 100
    BY <1>1, ChurnRiskBounds
  <2>2. QED
    BY <2>1, ChurnRiskBounds
<1>2. CASE a.active
  <2>1. /\ c.active /\ a.idle >= c.idle /\ a.streak <= c.streak /\ a.challenges <= c.challenges
        /\ a.avg = c.avg /\ a.signup = c.signup /\ a.fragments = c.fragments
    BY <1>2
  <2>2. \A t \in {a, c} : /\ t.idle \in Nat /\ t.signup \in Nat /\ t.streak \in Nat
                          /\ t.challenges \in Nat
    BY DEF TalentStats
  <2>3. InactivityRisk(a, horizon) >= InactivityRisk(c, horizon)
    BY <2>1, <2>2, InactivityRiskIs
  <2>4. StreakRisk(a) >= StreakRisk(c) /\ StreakRisk(a) \in Nat /\ StreakRisk(c) \in Nat
    BY <2>1, <2>2 DEF StreakRisk
  <2>5. Signals(a, horizon) >= Signals(c, horizon)
    <3>1. InactivityRisk(a, horizon) \in Nat /\ InactivityRisk(c, horizon) \in Nat
      BY SignalsAreNumbers
    <3>2. QED
      BY <2>1, <2>2, <2>3, <2>4, <3>1 DEF Signals
  <2>6. Signals(a, horizon) \in Nat /\ Signals(c, horizon) \in Nat
    BY SignalsAreNumbers
  <2>7. QED
    BY <1>2, <2>1, <2>5, <2>6, ChurnRiskBounds
<1>3. QED
  BY <1>1, <1>2

-----------------------------------------------------------------------------
(* Recommendations *)

(* The parts of a challenge's score that depend on the challenge alone. *)
Worth(u, c) ==
    (IF c.domain = u.domain THEN 35 ELSE 0)
    + (IF InWindow(u, c) THEN 25 ELSE 5)
    + Min({20, 10 * Hits(c.skills, u.weak)})
    + Min({10, 5 * Hits(c.skills, u.strong)})
    + (IF c.completions > 500 THEN 10 ELSE IF c.completions > 50 THEN 5 ELSE 0)

LEMMA WorthIsNumber ==
    ASSUME NEW c \in CandidateChallenge, NEW u
    PROVE  /\ Hits(c.skills, u.weak) \in Nat
           /\ Hits(c.skills, u.strong) \in Nat
           /\ Min({20, 10 * Hits(c.skills, u.weak)}) \in 0 .. 20
           /\ Min({10, 5 * Hits(c.skills, u.strong)}) \in 0 .. 10
           /\ Worth(u, c) \in Nat
<1>1. c.skills \in Seq(STRING) /\ c.completions \in Nat
  BY DEF CandidateChallenge
<1>2. Hits(c.skills, u.weak) \in Nat /\ Hits(c.skills, u.strong) \in Nat
  <2>1. \A S : c.skills \in Seq(S) =>
           \A s : Hits(c.skills, s) \in 0 .. Len(c.skills) /\ Len(c.skills) \in Nat
    BY HitsAre
  <2>2. \A s : Hits(c.skills, s) \in Nat
    BY <1>1, <2>1
  <2>3. QED
    BY <2>2
<1>3. /\ Min({20, 10 * Hits(c.skills, u.weak)}) \in 0 .. 20
      /\ Min({10, 5 * Hits(c.skills, u.strong)}) \in 0 .. 10
  BY <1>2, CappedCount
<1>4. c.completions \in Nat
  BY <1>1
<1>5. Worth(u, c) \in Nat
  <2> DEFINE weak == Min({20, 10 * Hits(c.skills, u.weak)})
             strong == Min({10, 5 * Hits(c.skills, u.strong)})
  <2>1. weak \in Nat /\ strong \in Nat
    BY <1>3
  <2>2. Worth(u, c) = (IF c.domain = u.domain THEN 35 ELSE 0)
                      + (IF InWindow(u, c) THEN 25 ELSE 5) + weak + strong
                      + (IF c.completions > 500 THEN 10 ELSE IF c.completions > 50 THEN 5 ELSE 0)
    BY DEF Worth
  <2> HIDE DEF weak, strong
  <2>3. QED
    BY <1>4, <2>1, <2>2
<1>6. QED
  BY <1>2, <1>3, <1>5

LEMMA BaseScoreBounds ==
    ASSUME NEW c \in CandidateChallenge, NEW u
    PROVE  /\ BaseScore(u, c) \in 0 .. 100
           /\ BaseScore(u, c) = IF c.id \in u.completed THEN 0
                                ELSE IF 100 <= Worth(u, c) THEN 100 ELSE Worth(u, c)
<1>1. Worth(u, c) \in Nat
  BY WorthIsNumber
<1>2. BaseScore(u, c) = IF c.id \in u.completed THEN 0 ELSE Min({100, Worth(u, c)})
  BY DEF BaseScore, Worth
<1> HIDE DEF Worth
<1>3. Min({100, Worth(u, c)}) = IF 100 <= Worth(u, c) THEN 100 ELSE Worth(u, c)
  BY <1>1, SmallerIs
<1>4. QED
  BY <1>1, <1>2, <1>3

(* The user's domain, the same difficulty, more of the skills that count and    *)
(* more completions never lower the score of a challenge that is not done yet.  *)
LEMMA BaseScoreMonotone ==
    ASSUME NEW a \in CandidateChallenge, NEW c \in CandidateChallenge, NEW u,
           a.id \notin u.completed, c.domain = u.domain => a.domain = u.domain,
           a.difficulty = c.difficulty, Covers(a.skills, c.skills),
           a.completions >= c.completions
    PROVE  BaseScore(u, a) >= BaseScore(u, c)
<1>1. /\ a.skills \in Seq(STRING) /\ c.skills \in Seq(STRING)
      /\ a.completions \in Nat /\ c.completions \in Nat
  BY DEF CandidateChallenge
<1>2. /\ Hits(c.skills, u.weak) <= Hits(a.skills, u.weak)
      /\ Hits(c.skills, u.strong) <= Hits(a.skills, u.strong)
  BY <1>1, CoveringHits
<1>3. /\ Min({20, 10 * Hits(c.skills, u.weak)})
             <= Min({20, 10 * Hits(a.skills, u.weak)})
      /\ Min({10, 5 * Hits(c.skills, u.strong)})
             <= Min({10, 5 * Hits(a.skills, u.strong)})
  <2>1. /\ Hits(c.skills, u.weak) \in Nat /\ Hits(a.skills, u.weak) \in Nat
        /\ Hits(c.skills, u.strong) \in Nat
        /\ Hits(a.skills, u.strong) \in Nat
    BY WorthIsNumber
  <2>2. QED
    BY <1>2, <2>1, CappedCount
<1>4. InWindow(u, a) <=> InWindow(u, c)
  BY DEF InWindow
<1>5. Worth(u, a) >= Worth(u, c)
  <2> DEFINE own(t) == IF t.domain = u.domain THEN 35 ELSE 0
             near(t) == IF InWindow(u, t) THEN 25 ELSE 5
             weak(t) == Min({20, 10 * Hits(t.skills, u.weak)})
             strong(t) == Min({10, 5 * Hits(t.skills, u.strong)})
             known(t) == IF t.completions > 500 THEN 10
                         ELSE IF t.completions > 50 THEN 5 ELSE 0
  <2>1. /\ weak(a) \in Int /\ strong(a) \in Int /\ weak(c) \in Int /\ strong(c) \in Int
        /\ weak(c) <= weak(a) /\ strong(c) <= strong(a)
    BY <1>3, WorthIsNumber
  <2>2. \A t \in {a, c} :
           Worth(u, t) = own(t) + near(t) + weak(t) + strong(t) + known(t)
    BY DEF Worth
  <2>3. own(a) \in Int /\ own(c) \in Int /\ own(c) <= own(a)
    OBVIOUS
  <2>4. near(a) \in Int /\ near(c) = near(a)
    BY <1>4
  <2>5. known(a) \in Int /\ known(c) \in Int /\ known(c) <= known(a)
    BY <1>1
  <2> HIDE DEF own, near, weak, strong, known
  <2>6. QED
    BY <2>1, <2>2, <2>3, <2>4, <2>5
<1>6. Worth(u, a) \in Nat /\ Worth(u, c) \in Nat
  BY WorthIsNumber
<1>7. QED
  BY <1>5, <1>6, BaseScoreBounds

-----------------------------------------------------------------------------
(* Matching *)

(* A title that is not in the table has the rank that the caller gives it. *)
LEMMA RankIs ==
    ASSUME NEW title, NEW unknown
    PROVE  Rank(title, unknown) = IF title = "Apprenti" THEN 0
                                  ELSE IF title = "Artisan" THEN 1
                                  ELSE IF title = "Maitre" THEN 2
                                  ELSE IF title = "Legende" THEN 3
                                  ELSE unknown
<1>1. DOMAIN Titles = {"Apprenti", "Artisan", "Maitre", "Legende"}
  BY DEF Titles
<1>2. /\ Titles["Apprenti"] = 0 /\ Titles["Artisan"] = 1
      /\ Titles["Maitre"] = 2 /\ Titles["Legende"] = 3
  BY DEF Titles
<1>3. QED
  BY <1>1, <1>2 DEF Rank

LEMMA RankFacts ==
    \A title : /\ Rank(title, 0) \in 0 .. 3
               /\ Rank(title, -1) \in Int /\ Rank(title, 0) \in Int
               /\ \A other : Rank(title, -1) >= Rank(other, -1) => Rank(title, 0) >= Rank(other, 0)
BY RankIs

(* Fragments are worth a part of their points, up to a cap, and more never less. *)
LEMMA FragmentsByPoints ==
    ASSUME NEW points \in Nat, NEW cap \in Nat \ {0}, NEW n \in Nat
    PROVE  /\ (points * Min({n, cap})) \div cap \in 0 .. points
           /\ \A m \in Nat : m <= n =>
                 (points * Min({m, cap})) \div cap <= (points * Min({n, cap})) \div cap
<1> DEFINE part(k) == Min({k, cap})
<1>1. \A k \in Nat : part(k) = IF k <= cap THEN k ELSE cap
  BY SmallerIs
<1>2. \A k \in Nat : part(k) \in 0 .. cap
  BY <1>1
<1>3. \A m \in Nat : m <= n => part(m) <= part(n)
  BY <1>1
<1> HIDE DEF part
<1>4. (points * part(n)) \div cap \in 0 .. points
  BY <1>2, PortionBounds
<1>5. ASSUME NEW m \in Nat, m <= n
      PROVE  (points * part(m)) \div cap <= (points * part(n)) \div cap
  <2>1. part(m) \in Nat /\ part(n) \in Nat /\ part(m) <= part(n)
    BY <1>2, <1>3, <1>5
  <2>2. points * part(m) \in Int /\ points * part(n) \in Int /\ points * part(m) <= points * part(n)
    BY <2>1
  <2>3. QED
    BY <2>2, DivisionMonotone
<1>6. QED
  BY <1>4, <1>5 DEF part

LEMMA PointsAreNumbers ==
    /\ DomainPoints \in Nat /\ FragmentPoints \in Nat /\ LanguagePoints \in Nat
    /\ TitlePoints \in Nat /\ TrustPoints \in Nat /\ SemanticPoints \in Nat
BY SMT DEF DomainPoints, FragmentPoints, LanguagePoints, TitlePoints, TrustPoints, SemanticPoints

LEMMA FragmentCapIs ==
    ASSUME NEW q \in MatchCriteria
    PROVE  FragmentCap(q) \in Nat \ {0}
<1> DEFINE floor == 5000
           twice == 2 * q.fragments
<1>1. twice \in Int /\ floor \in Nat \ {0} /\ FragmentCap(q) = Max({twice, floor})
  BY SMT DEF MatchCriteria, FragmentCap
<1> HIDE DEF floor, twice
<1>2. Max({twice, floor}) = IF twice >= floor THEN twice ELSE floor
  BY <1>1, LargerIs
<1>3. QED
  BY <1>1, <1>2

(* s has all that t has. *)
HasAllOf(s, t) ==
    /\ t.domains \subseteq s.domains
    /\ t.fragments <= s.fragments
    /\ Rank(s.title, -1) >= Rank(t.title, -1)
    /\ s.country = t.country
    /\ t.languages \subseteq s.languages
    /\ t.trust <= s.trust
    /\ t.similarity <= s.similarity

(* Each part of the relevance is in its bounds, and grows with the talent. *)
FragmentPart(t, q) == (FragmentPoints * Min({t.fragments, FragmentCap(q)})) \div FragmentCap(q)
SemanticPart(t, q) == IF q.described THEN SemanticPoints * t.similarity ELSE 0

LEMMA PartsInBounds ==
    ASSUME NEW q \in MatchCriteria, NEW t \in TalentSnapshot
    PROVE  /\ Share(DomainPoints, q.domains, t.domains) \in 0 .. DomainPoints
           /\ FragmentPart(t, q) \in 0 .. FragmentPoints
           /\ TitlePoints * Rank(t.title, 0) \in 0 .. TitlePoints * 3
           /\ Share(LanguagePoints, q.languages, t.languages) \in 0 .. LanguagePoints
           /\ TrustPoints * t.trust \in 0 .. TrustPoints * 100
           /\ SemanticPart(t, q) \in 0 .. SemanticPoints * 10
<1>1. /\ q.domains \in Seq(STRING) /\ q.languages \in Seq(STRING)
      /\ t.fragments \in Nat /\ t.trust \in 0 .. 100 /\ t.similarity \in 0 .. 10
  BY DEF MatchCriteria, TalentSnapshot
<1>2. /\ Share(DomainPoints, q.domains, t.domains) \in 0 .. DomainPoints
      /\ Share(LanguagePoints, q.languages, t.languages) \in 0 .. LanguagePoints
  BY <1>1, PointsAreNumbers, ShareFacts
<1>3. FragmentPart(t, q) \in 0 .. FragmentPoints
  BY <1>1, PointsAreNumbers, FragmentCapIs, FragmentsByPoints DEF FragmentPart
<1>4. TitlePoints * Rank(t.title, 0) \in 0 .. TitlePoints * 3
  <2>1. Rank(t.title, 0) \in 0 .. 3
    BY RankFacts
  <2>2. QED
    BY <2>1, PointsAreNumbers
<1>5. TrustPoints * t.trust \in 0 .. TrustPoints * 100
  <2>1. t.trust \in 0 .. 100 /\ TrustPoints \in Nat
    BY <1>1, PointsAreNumbers
  <2>2. \A points \in Nat, n \in 0 .. 100 : points * n \in 0 .. points * 100
    OBVIOUS
  <2>3. QED
    BY <2>1, <2>2
<1>6. SemanticPart(t, q) \in 0 .. SemanticPoints * 10
  BY <1>1, PointsAreNumbers DEF SemanticPart
<1>7. QED
  BY <1>2, <1>3, <1>4, <1>5, <1>6

LEMMA PartsMonotone ==
    ASSUME NEW q \in MatchCriteria, NEW t \in TalentSnapshot, NEW s \in TalentSnapshot,
           HasAllOf(s, t)
    PROVE  /\ Share(DomainPoints, q.domains, t.domains) <= Share(DomainPoints, q.domains, s.domains)
           /\ FragmentPart(t, q) <= FragmentPart(s, q)
           /\ TitlePoints * Rank(t.title, 0) <= TitlePoints * Rank(s.title, 0)
           /\ Share(LanguagePoints, q.languages, t.languages)
                 <= Share(LanguagePoints, q.languages, s.languages)
           /\ TrustPoints * t.trust <= TrustPoints * s.trust
           /\ SemanticPart(t, q) <= SemanticPart(s, q)
<1>1. /\ q.domains \in Seq(STRING) /\ q.languages \in Seq(STRING)
      /\ t.fragments \in Nat /\ t.trust \in Int /\ t.similarity \in Int
      /\ s.fragments \in Nat /\ s.trust \in Int /\ s.similarity \in Int
  <2>1. q.domains \in Seq(STRING) /\ q.languages \in Seq(STRING)
    BY DEF MatchCriteria
  <2>2. \A u \in {s, t} : u.fragments \in Nat /\ u.trust \in Int /\ u.similarity \in Int
    BY DEF TalentSnapshot
  <2>3. QED
    BY <2>1, <2>2
<1>2. /\ t.domains \subseteq s.domains /\ t.fragments <= s.fragments
      /\ t.languages \subseteq s.languages /\ t.trust <= s.trust
      /\ t.similarity <= s.similarity
  BY DEF HasAllOf
<1>3. /\ Share(DomainPoints, q.domains, t.domains) <= Share(DomainPoints, q.domains, s.domains)
      /\ Share(LanguagePoints, q.languages, t.languages)
            <= Share(LanguagePoints, q.languages, s.languages)
  BY <1>1, <1>2, PointsAreNumbers, ShareFacts
<1>4. FragmentPart(t, q) <= FragmentPart(s, q)
  BY <1>1, <1>2, PointsAreNumbers, FragmentCapIs, FragmentsByPoints DEF FragmentPart
<1>5. TitlePoints * Rank(t.title, 0) <= TitlePoints * Rank(s.title, 0)
  <2>1. Rank(t.title, 0) <= Rank(s.title, 0) /\ Rank(t.title, 0) \in Int /\ Rank(s.title, 0) \in Int
    BY RankFacts DEF HasAllOf
  <2>2. QED
    BY <2>1, PointsAreNumbers
<1>6. TrustPoints * t.trust <= TrustPoints * s.trust
  BY <1>1, <1>2, PointsAreNumbers
<1>7. SemanticPart(t, q) <= SemanticPart(s, q)
  BY <1>1, <1>2, PointsAreNumbers DEF SemanticPart
<1>8. QED
  BY <1>3, <1>4, <1>5, <1>6, <1>7

(* What all the parts add up to. *)
HighestRaw == 3450000

LEMMA RawRelevanceFacts ==
    ASSUME NEW q \in MatchCriteria, NEW t \in TalentSnapshot
    PROVE  /\ RawRelevance(t, q) \in 0 .. HighestRaw
           /\ \A s \in TalentSnapshot : HasAllOf(s, t) => RawRelevance(t, q) <= RawRelevance(s, q)
<1> DEFINE domains(s) == Share(DomainPoints, q.domains, s.domains)
           fragments(s) == FragmentPart(s, q)
           title(s) == TitlePoints * Rank(s.title, 0)
           languages(s) == Share(LanguagePoints, q.languages, s.languages)
           trust(s) == TrustPoints * s.trust
           semantic(s) == SemanticPart(s, q)
<1>1. \A s : RawRelevance(s, q) = domains(s) + fragments(s) + title(s) + languages(s) + trust(s)
                                  + semantic(s)
  BY DEF RawRelevance, FragmentPart, SemanticPart
<1>2. /\ domains(t) \in 0 .. DomainPoints /\ fragments(t) \in 0 .. FragmentPoints
      /\ title(t) \in 0 .. TitlePoints * 3 /\ languages(t) \in 0 .. LanguagePoints
      /\ trust(t) \in 0 .. TrustPoints * 100 /\ semantic(t) \in 0 .. SemanticPoints * 10
  BY PartsInBounds
<1>3. ASSUME NEW s \in TalentSnapshot
      PROVE  /\ domains(s) \in Int /\ fragments(s) \in Int /\ title(s) \in Int
             /\ languages(s) \in Int /\ trust(s) \in Int /\ semantic(s) \in Int
  <2>1. /\ domains(s) \in 0 .. DomainPoints /\ fragments(s) \in 0 .. FragmentPoints
        /\ title(s) \in 0 .. TitlePoints * 3 /\ languages(s) \in 0 .. LanguagePoints
        /\ trust(s) \in 0 .. TrustPoints * 100 /\ semantic(s) \in 0 .. SemanticPoints * 10
    BY PartsInBounds
  <2> HIDE DEF domains, fragments, title, languages, trust, semantic
  <2>2. QED
    BY <2>1
<1>4. ASSUME NEW s \in TalentSnapshot, HasAllOf(s, t)
      PROVE  /\ domains(t) <= domains(s) /\ fragments(t) <= fragments(s)
             /\ title(t) <= title(s) /\ languages(t) <= languages(s)
             /\ trust(t) <= trust(s) /\ semantic(t) <= semantic(s)
  BY <1>4, PartsMonotone
<1> HIDE DEF domains, fragments, title, languages, trust, semantic
<1>5. RawRelevance(t, q) \in 0 .. HighestRaw
  <2>1. /\ domains(t) \in Int /\ 0 <= domains(t) /\ domains(t) <= DomainPoints
        /\ fragments(t) \in Int /\ 0 <= fragments(t) /\ fragments(t) <= FragmentPoints
        /\ title(t) \in Int /\ 0 <= title(t) /\ title(t) <= TitlePoints * 3
        /\ languages(t) \in Int /\ 0 <= languages(t) /\ languages(t) <= LanguagePoints
        /\ trust(t) \in Int /\ 0 <= trust(t) /\ trust(t) <= TrustPoints * 100
        /\ semantic(t) \in Int /\ 0 <= semantic(t) /\ semantic(t) <= SemanticPoints * 10
    BY <1>2, PointsAreNumbers
  <2> DEFINE sum == domains(t) + fragments(t) + title(t) + languages(t) + trust(t) + semantic(t)
  <2>2. /\ sum \in Int /\ 0 <= sum
        /\ sum <= DomainPoints + FragmentPoints + TitlePoints * 3 + LanguagePoints
                  + TrustPoints * 100 + SemanticPoints * 10
    BY <2>1, PointsAreNumbers
  <2>3. DomainPoints + FragmentPoints + TitlePoints * 3 + LanguagePoints + TrustPoints * 100
           + SemanticPoints * 10 = HighestRaw
    BY SMT DEF DomainPoints, FragmentPoints, LanguagePoints, TitlePoints, TrustPoints,
               SemanticPoints, HighestRaw
  <2>4. HighestRaw \in Nat
    BY SMT DEF HighestRaw
  <2>5. RawRelevance(t, q) = sum
    BY <1>1
  <2> HIDE DEF sum
  <2>6. QED
    BY <2>2, <2>3, <2>4, <2>5
<1>6. ASSUME NEW s \in TalentSnapshot, HasAllOf(s, t)
      PROVE  RawRelevance(t, q) <= RawRelevance(s, q)
  BY <1>1, <1>3, <1>4, <1>6
<1>7. QED
  BY <1>5, <1>6

LEMMA RelevanceFacts ==
    ASSUME NEW q \in MatchCriteria, NEW t \in TalentSnapshot
    PROVE  /\ Relevance(t, q) \in 0 .. HighestRelevance
           /\ \A s \in TalentSnapshot : HasAllOf(s, t) => Relevance(t, q) <= Relevance(s, q)
<1>1. \A x, y \in Int : x <= y => (x + 1) \div 3 <= (y + 1) \div 3
  OBVIOUS
<1>2. \A s \in TalentSnapshot : RawRelevance(s, q) \in 0 .. HighestRaw
  BY RawRelevanceFacts
<1>3. \A s \in TalentSnapshot : RawRelevance(s, q) \in Int
  BY <1>2
<1>4. Relevance(t, q) \in 0 .. HighestRelevance
  <2>1. HighestRaw \in Nat /\ HighestRelevance \in Nat
    BY SMT DEF HighestRaw, HighestRelevance
  <2>2. RawRelevance(t, q) \in Int /\ 0 <= RawRelevance(t, q) /\ RawRelevance(t, q) <= HighestRaw
    BY <1>2, <2>1
  <2>3. /\ Relevance(t, q) \in Int /\ 0 <= Relevance(t, q)
        /\ Relevance(t, q) <= HighestRelevance
    BY <2>2, SMT DEF Relevance, HighestRaw, HighestRelevance
  <2>4. QED
    BY <2>1, <2>3
<1>5. ASSUME NEW s \in TalentSnapshot, HasAllOf(s, t)
      PROVE  Relevance(t, q) <= Relevance(s, q)
  <2>1. RawRelevance(t, q) <= RawRelevance(s, q)
    BY <1>5, RawRelevanceFacts
  <2>2. QED
    BY <1>1, <1>3, <2>1 DEF Relevance
<1>6. QED
  BY <1>4, <1>5

(* Who has all that a talent has passes every filter that the talent passes. *)
LEMMA FiltersMonotone ==
    ASSUME NEW q \in MatchCriteria, NEW t \in TalentSnapshot, NEW s \in TalentSnapshot,
           HasAllOf(s, t), PassesFilters(t, q)
    PROVE  PassesFilters(s, q)
<1>1. q.fragments \in Int /\ t.fragments \in Int /\ s.fragments \in Int
  BY DEF MatchCriteria, TalentSnapshot
<1>2. \A title : Rank(title, -1) \in Int /\ Rank(title, 0) \in Int
  BY RankFacts
<1>3. q.domains = <<>> \/ Range(q.domains) \cap s.domains # {}
  BY DEF PassesFilters, HasAllOf
<1>4. q.fragments > 0 => s.fragments >= q.fragments
  <2>1. t.fragments <= s.fragments /\ (q.fragments > 0 => t.fragments >= q.fragments)
    BY DEF PassesFilters, HasAllOf
  <2>2. QED
    BY <1>1, <2>1
<1>5. q.title # "" => Rank(s.title, -1) >= Rank(q.title, 0)
  <2>1. /\ q.title # "" => Rank(t.title, -1) >= Rank(q.title, 0)
        /\ Rank(s.title, -1) >= Rank(t.title, -1)
    BY DEF PassesFilters, HasAllOf
  <2>2. Rank(t.title, -1) >= Rank(q.title, 0) => Rank(s.title, -1) >= Rank(q.title, 0)
    <3> DEFINE x == Rank(s.title, -1)
               y == Rank(t.title, -1)
               z == Rank(q.title, 0)
    <3>1. x >= y /\ x \in Int /\ y \in Int /\ z \in Int
      BY <1>2, <2>1
    <3> HIDE DEF x, y, z
    <3>2. y >= z => x >= z
      BY <3>1
    <3>3. QED
      BY <3>2 DEF x, y, z
  <2>3. QED
    BY <2>1, <2>2
<1>6. q.country # "" => s.country = q.country
  BY DEF PassesFilters, HasAllOf
<1>7. QED
  BY <1>3, <1>4, <1>5, <1>6 DEF PassesFilters

-----------------------------------------------------------------------------
(* What the four services promise of a score *)

LEMMA ByKind ==
    ASSUME NEW b, NEW t
    PROVE  /\ b.kind = "gems" =>
                /\ Score(b, t) = GemScore(t)
                /\ Keeps(b, t) <=> GemScore(t) >= GemThreshold
                /\ Highest(b) = TopGem
           /\ b.kind = "churn" =>
                /\ Score(b, t) = ChurnRisk(t, b.asked)
                /\ Keeps(b, t) <=> TRUE
                /\ Highest(b) = 100
           /\ b.kind = "recommend" =>
                /\ Score(b, t) = BaseScore(b.asked, t)
                /\ Keeps(b, t) <=> BaseScore(b.asked, t) > 0
                /\ Highest(b) = 100
           /\ b.kind = "match" =>
                /\ Score(b, t) = Relevance(t, b.asked)
                /\ Keeps(b, t) <=> PassesFilters(t, b.asked)
                /\ Highest(b) = HighestRelevance
BY Zenon DEF Score, Keeps, Highest

(* What a payload may hold. *)
LEMMA Payloads ==
    ASSUME NEW b \in Batches
    PROVE  /\ b.top \in Nat
           /\ b.kind \in {"gems", "churn", "recommend", "match"}
           /\ \E S : b.items \in Seq(S)
           /\ b.kind \in {"gems", "churn"} => b.items \in Seq(TalentStats)
           /\ b.kind = "churn" => b.asked \in Int
           /\ b.kind = "recommend" => b.items \in Seq(CandidateChallenge)
           /\ b.kind = "match" => b.items \in Seq(TalentSnapshot) /\ b.asked \in MatchCriteria
BY BatchesAssumption

LEMMA PayloadItems ==
    ASSUME NEW b \in Batches
    PROVE  /\ Len(b.items) \in Nat /\ DOMAIN b.items = 1 .. Len(b.items)
           /\ \A i \in DOMAIN b.items :
                /\ b.kind \in {"gems", "churn"} => b.items[i] \in TalentStats
                /\ b.kind = "recommend" => b.items[i] \in CandidateChallenge
                /\ b.kind = "match" => b.items[i] \in TalentSnapshot
<1>1. Len(b.items) \in Nat /\ DOMAIN b.items = 1 .. Len(b.items)
  BY Payloads
<1>2. \A S : b.items \in Seq(S) => \A i \in DOMAIN b.items : b.items[i] \in S
  OBVIOUS
<1>3. QED
  BY <1>1, <1>2, Payloads

LEMMA HighestIsNumber == \A b : Highest(b) \in Nat
<1>1. TopGem \in Nat /\ HighestRelevance \in Nat /\ 100 \in Nat
  BY SMT DEF TopGem, HighestRelevance
<1>2. ASSUME NEW b PROVE Highest(b) \in {TopGem, HighestRelevance, 100}
  <2>1. CASE b.kind = "gems"
    BY <2>1, Zenon DEF Highest
  <2>2. CASE b.kind # "gems" /\ b.kind = "match"
    BY <2>2, Zenon DEF Highest
  <2>3. CASE b.kind # "gems" /\ b.kind # "match"
    BY <2>3, Zenon DEF Highest
  <2>4. QED
    BY <2>1, <2>2, <2>3, Zenon
<1>3. QED
  BY <1>1, <1>2

LEMMA ScoresInBounds ==
    ASSUME NEW b \in Batches, NEW i \in DOMAIN b.items
    PROVE  Score(b, b.items[i]) \in 0 .. Highest(b)
<1>1. CASE b.kind = "gems"
  BY <1>1, ByKind, PayloadItems, GemScoreBounds
<1>2. CASE b.kind = "churn"
  <2>1. b.items[i] \in TalentStats /\ b.asked \in Int
    BY <1>2, PayloadItems, Payloads
  <2>2. ChurnRisk(b.items[i], b.asked) \in 0 .. 100
    BY <2>1, ChurnRiskBounds
  <2>3. QED
    BY <1>2, <2>2, ByKind, Zenon
<1>3. CASE b.kind = "recommend"
  <2>1. BaseScore(b.asked, b.items[i]) \in 0 .. 100
    BY <1>3, PayloadItems, BaseScoreBounds
  <2>2. QED
    BY <1>3, <2>1, ByKind, Zenon
<1>4. CASE b.kind = "match"
  <2>1. b.items[i] \in TalentSnapshot /\ b.asked \in MatchCriteria
    BY <1>4, PayloadItems, Payloads
  <2>2. Relevance(b.items[i], b.asked) \in 0 .. HighestRelevance
    BY <2>1, RelevanceFacts
  <2>3. QED
    BY <1>4, <2>2, ByKind, Zenon
<1>5. QED
  BY <1>1, <1>2, <1>3, <1>4, Payloads

LEMMA DeservesByKind ==
    ASSUME NEW b, NEW a, NEW c, Deserves(b, a, c)
    PROVE  /\ b.kind = "gems" =>
                /\ a.active
                /\ a.signup = c.signup
                /\ a.fragments >= c.fragments
                /\ a.streak >= c.streak
                /\ a.avg >= c.avg
                /\ a.challenges >= c.challenges
                /\ a.followers <= c.followers
           /\ b.kind = "churn" =>
                \/ ~a.active
                \/ /\ c.active
                   /\ a.idle >= c.idle
                   /\ a.streak <= c.streak
                   /\ a.challenges <= c.challenges
                   /\ <<a.avg, a.signup, a.fragments>> = <<c.avg, c.signup, c.fragments>>
           /\ b.kind = "recommend" =>
                /\ a.id \notin b.asked.completed
                /\ c.domain = b.asked.domain => a.domain = b.asked.domain
                /\ a.difficulty = c.difficulty
                /\ Covers(a.skills, c.skills)
                /\ a.completions >= c.completions
           /\ b.kind = "match" =>
                /\ c.domains \subseteq a.domains
                /\ a.fragments >= c.fragments
                /\ Rank(a.title, -1) >= Rank(c.title, -1)
                /\ a.country = c.country
                /\ c.languages \subseteq a.languages
                /\ a.trust >= c.trust
                /\ a.similarity >= c.similarity
<1>1. CASE b.kind = "gems"
  BY <1>1, Zenon DEF Deserves
<1>2. CASE b.kind = "churn"
  BY <1>2, Zenon DEF Deserves
<1>3. CASE b.kind = "recommend"
  BY <1>3, Zenon DEF Deserves
<1>4. CASE b.kind = "match"
  BY <1>4, Zenon DEF Deserves
<1>5. QED
  BY <1>1, <1>2, <1>3, <1>4, Zenon

(* Who deserves a place as much as somebody who is kept is kept, with no lower a score. *)
LEMMA DeservingAreKept ==
    ASSUME NEW b \in Batches, NEW i \in DOMAIN b.items, NEW j \in DOMAIN b.items,
           Deserves(b, b.items[i], b.items[j]), Keeps(b, b.items[j])
    PROVE  Keeps(b, b.items[i]) /\ Score(b, b.items[i]) >= Score(b, b.items[j])
<1> DEFINE a == b.items[i]
           c == b.items[j]
<1>1. CASE b.kind = "gems"
  <2>1. a \in TalentStats /\ c \in TalentStats
    BY <1>1, PayloadItems
  <2>2. GemScore(a) >= GemScore(c)
    BY <1>1, <2>1, DeservesByKind, GemScoreMonotone
  <2>3. GemScore(a) \in Int /\ GemScore(c) \in Int /\ GemThreshold \in Int
    <3>1. TopGem \in Nat /\ GemThreshold \in Int
      BY SMT DEF TopGem, GemThreshold
    <3>2. GemScore(a) \in 0 .. TopGem /\ GemScore(c) \in 0 .. TopGem
      BY <2>1, GemScoreBounds
    <3> HIDE DEF a, c
    <3>3. QED
      BY <3>1, <3>2
  <2>4. GemScore(c) >= GemThreshold
    BY <1>1, ByKind
  <2> HIDE DEF a, c
  <2>5. GemScore(a) >= GemThreshold
    BY <2>2, <2>3, <2>4
  <2>6. QED
    BY <1>1, <2>2, <2>5, ByKind DEF a, c
<1>2. CASE b.kind = "churn"
  <2>1. a \in TalentStats /\ c \in TalentStats /\ b.asked \in Int
    BY <1>2, PayloadItems, Payloads
  <2>2. ChurnRisk(a, b.asked) >= ChurnRisk(c, b.asked)
    BY <1>2, <2>1, DeservesByKind, ChurnRiskMonotone
  <2>3. QED
    BY <1>2, <2>2, ByKind
<1>3. CASE b.kind = "recommend"
  <2>1. a \in CandidateChallenge /\ c \in CandidateChallenge
    BY <1>3, PayloadItems
  <2>2. BaseScore(b.asked, a) >= BaseScore(b.asked, c)
    BY <1>3, <2>1, DeservesByKind, BaseScoreMonotone
  <2>3. BaseScore(b.asked, a) \in Int /\ BaseScore(b.asked, c) \in Int
    BY <2>1, BaseScoreBounds
  <2>4. BaseScore(b.asked, c) > 0
    BY <1>3, ByKind
  <2> HIDE DEF a, c
  <2>5. BaseScore(b.asked, a) > 0
    BY <2>2, <2>3, <2>4
  <2>6. QED
    BY <1>3, <2>2, <2>5, ByKind DEF a, c
<1>4. CASE b.kind = "match"
  <2>1. a \in TalentSnapshot /\ c \in TalentSnapshot /\ b.asked \in MatchCriteria
    BY <1>4, PayloadItems, Payloads
  <2>2. HasAllOf(a, c)
    BY <1>4, DeservesByKind DEF HasAllOf
  <2>3. Relevance(c, b.asked) <= Relevance(a, b.asked)
    BY <2>1, <2>2, RelevanceFacts
  <2>4. PassesFilters(a, b.asked)
    BY <1>4, <2>1, <2>2, ByKind, FiltersMonotone
  <2>5. QED
    BY <1>4, <2>3, <2>4, ByKind
<1>5. QED
  BY <1>1, <1>2, <1>3, <1>4, Payloads

-----------------------------------------------------------------------------
(* Rankings *)

(* o puts the entries in a descending order, each of them once, and r begins like it. *)
InOrder(o, entries, r) ==
    LET n == Len(entries)
    IN  /\ o \in [1 .. n -> 1 .. n]
        /\ \A p, q \in 1 .. n : o[p] = o[q] => p = q
        /\ \A m \in 1 .. n : \E p \in 1 .. n : o[p] = m
        /\ \A p, q \in 1 .. n : p < q =>
              \/ entries[o[p]].score > entries[o[q]].score
              \/ entries[o[p]].score = entries[o[q]].score
        /\ \A p \in 1 .. Len(r) : r[p] = entries[o[p]]

LEMMA RankedIs ==
    ASSUME NEW S, NEW entries \in Seq(S), NEW b, Top(b) \in Nat, NEW r \in Ranked(b, entries)
    PROVE  /\ Len(r) = Min({Top(b), Len(entries)})
           /\ Len(r) \in 0 .. Len(entries) /\ DOMAIN r = 1 .. Len(r)
           /\ \E o : InOrder(o, entries, r)
<1> DEFINE n == Len(entries)
           k == Min({Top(b), n})
<1>1. n \in Nat /\ k \in 0 .. n /\ (\A m \in 1 .. n : entries[m] \in S)
  <2>1. n \in Nat
    OBVIOUS
  <2>2. Min({Top(b), n}) = IF Top(b) <= n THEN Top(b) ELSE n
    BY <2>1, SmallerIs
  <2> HIDE DEF n
  <2>3. k \in 0 .. n
    BY <2>1, <2>2
  <2>4. QED
    BY <2>1, <2>3 DEF n
<1>2. PICK s \in Sorted(entries, b.kind # "recommend") : r = FirstOf(s, Top(b))
  BY DEF Ranked
<1>3. PICK o \in Bijection(1 .. n, 1 .. n) :
         /\ s = [p \in 1 .. n |-> entries[o[p]]]
         /\ \A p, q \in 1 .. n : p < q => \/ entries[o[p]].score > entries[o[q]].score
                                          \/ entries[o[p]].score = entries[o[q]].score
  BY DEF Sorted
<1>4. /\ o \in [1 .. n -> 1 .. n]
      /\ \A p, q \in 1 .. n : o[p] = o[q] => p = q
      /\ \A m \in 1 .. n : \E p \in 1 .. n : o[p] = m
  BY DEF Bijection, Injection, Surjection, IsInjective
<1>5. s \in Seq(S) /\ Len(s) = n /\ \A p \in 1 .. n : s[p] = entries[o[p]]
  <2>1. \A p \in 1 .. n : entries[o[p]] \in S
    BY <1>1, <1>4
  <2> HIDE DEF n
  <2>2. QED
    BY <1>1, <1>3, <2>1
<1>6. r = SubSeq(s, 1, k)
  BY <1>2, <1>5 DEF FirstOf
<1> HIDE DEF n, k
<1>7. Len(r) = k /\ DOMAIN r = 1 .. k /\ \A p \in 1 .. k : r[p] = s[p]
  BY <1>1, <1>5, <1>6
<1>8. \A p \in 1 .. k : r[p] = entries[o[p]]
  BY <1>1, <1>5, <1>7
<1>9. InOrder(o, entries, r)
  BY <1>3, <1>4, <1>7, <1>8 DEF n, InOrder
<1>10. QED
  BY <1>1, <1>7, <1>9 DEF n, k

LEMMA RangeIs == \A f : Range(f) = {f[x] : x \in DOMAIN f}
BY DEF Range

(* The names that the proofs below give to what is known of the entries. *)
LEMMA ScoredEntries ==
    ASSUME RankInv
    PROVE  /\ batch \in Batches \cup {NoBatch}
           /\ Len(batch.items) \in Nat /\ at \in 0 .. Len(batch.items)
           /\ DOMAIN batch.items = 1 .. Len(batch.items)
           /\ Top(batch) \in Nat
           /\ Highest(batch) \in Nat
           /\ scored \in Seq([item : 1 .. at, score : 0 .. Highest(batch)])
           /\ Len(scored) \in Nat /\ DOMAIN scored = 1 .. Len(scored)
           /\ \A p \in 1 .. Len(scored) :
                /\ scored[p] \in Range(scored)
                /\ scored[p].item \in 1 .. at
                /\ scored[p].score \in Nat
<1>1. /\ batch \in Batches \cup {NoBatch} /\ at \in 0 .. Len(batch.items)
      /\ scored \in Seq([item : 1 .. at, score : 0 .. Highest(batch)])
  BY DEF RankInv, RankTypeOK
<1>2. /\ Len(batch.items) \in Nat /\ DOMAIN batch.items = 1 .. Len(batch.items)
      /\ Top(batch) \in Nat
  <2>1. CASE batch \in Batches
    BY <2>1, PayloadItems, Payloads DEF Top
  <2>2. CASE batch = NoBatch
    <3>1. batch.items = <<>>
      BY <2>2 DEF NoBatch
    <3>2. Len(batch.items) = 0 /\ DOMAIN batch.items = {} /\ batch.kind = "none"
      BY <2>2, <3>1 DEF NoBatch
    <3>3. Top(batch) = 0
      BY <3>2 DEF Top
    <3>4. QED
      BY <3>2, <3>3
  <2>3. QED
    BY <1>1, <2>1, <2>2
<1>3. Highest(batch) \in Nat
  BY HighestIsNumber
<1>4. /\ Len(scored) \in Nat /\ DOMAIN scored = 1 .. Len(scored)
      /\ \A p \in 1 .. Len(scored) :
            scored[p] \in [item : 1 .. at, score : 0 .. Highest(batch)]
  <2>1. \A S : scored \in Seq(S) =>
           /\ Len(scored) \in Nat /\ DOMAIN scored = 1 .. Len(scored)
           /\ \A p \in 1 .. Len(scored) : scored[p] \in S
    OBVIOUS
  <2> DEFINE S == [item : 1 .. at, score : 0 .. Highest(batch)]
  <2>2. scored \in Seq(S)
    BY <1>1
  <2> HIDE DEF S
  <2>3. QED
    BY <2>1, <2>2 DEF S
<1>5. ASSUME NEW p \in 1 .. Len(scored)
      PROVE  /\ scored[p] \in Range(scored)
             /\ scored[p].item \in 1 .. at
             /\ scored[p].score \in Nat
  <2>1. scored[p] \in Range(scored)
    BY <1>4, RangeIs
  <2>2. scored[p].item \in 1 .. at /\ scored[p].score \in 0 .. Highest(batch)
    BY <1>4
  <2>3. scored[p].score \in Nat
    BY <1>3, <2>2
  <2>4. QED
    BY <2>1, <2>2, <2>3
<1>6. QED
  BY <1>1, <1>2, <1>3, <1>4, <1>5

(* The order of a finished ranking, in terms of the entries that were scored. *)
LEMMA RankingOrder ==
    ASSUME RankInv, rankStage \in {"asking", "done"}
    PROVE  /\ Len(ranking) = Min({Top(batch), Len(scored)})
           /\ Len(ranking) \in 0 .. Len(scored)
           /\ DOMAIN ranking = 1 .. Len(ranking)
           /\ \E o : /\ InOrder(o, scored, ranking)
                     /\ \A p, q \in 1 .. Len(scored) :
                           p < q => scored[o[p]].score >= scored[o[q]].score
<1>1. ranking \in Ranked(batch, scored)
  BY DEF RankInv
<1>2. /\ Top(batch) \in Nat
      /\ scored \in Seq([item : 1 .. at, score : 0 .. Highest(batch)])
      /\ \A p \in 1 .. Len(scored) : scored[p].score \in Nat
  BY ScoredEntries
<1>3. /\ Len(ranking) = Min({Top(batch), Len(scored)})
      /\ Len(ranking) \in 0 .. Len(scored)
      /\ DOMAIN ranking = 1 .. Len(ranking)
      /\ \E o : InOrder(o, scored, ranking)
  BY <1>1, <1>2, RankedIs
<1>4. PICK o : InOrder(o, scored, ranking)
  BY <1>3
<1>5. ASSUME NEW p \in 1 .. Len(scored), NEW q \in 1 .. Len(scored), p < q
      PROVE  scored[o[p]].score >= scored[o[q]].score
  <2>1. o[p] \in 1 .. Len(scored) /\ o[q] \in 1 .. Len(scored)
    BY <1>4 DEF InOrder
  <2>2. scored[o[p]].score \in Nat /\ scored[o[q]].score \in Nat
    BY <1>2, <2>1
  <2>3. \/ scored[o[p]].score > scored[o[q]].score
        \/ scored[o[p]].score = scored[o[q]].score
    BY <1>4, <1>5 DEF InOrder
  <2>4. QED
    BY <2>2, <2>3
<1>6. QED
  BY <1>3, <1>4, <1>5

-----------------------------------------------------------------------------
(* What the invariant says of a result *)

(* The entries of the ranking are distinct, in order, and no other belongs before them. *)
LEMMA RankInvComplete ==
    ASSUME RankInv
    PROVE  RankingIsComplete
<1> SUFFICES ASSUME rankStage \in {"asking", "done"}
             PROVE  /\ Len(ranking) = Min({Top(batch), Len(scored)})
                    /\ \A p, q \in DOMAIN ranking : p < q =>
                          /\ ranking[p].item # ranking[q].item
                          /\ ranking[p].score >= ranking[q].score
                    /\ \A left \in Range(scored) \ Range(ranking), shown \in Range(ranking) :
                          left.score <= shown.score
  BY DEF RankingIsComplete
<1> DEFINE n == Len(scored)
           k == Len(ranking)
<1>1. PICK o : /\ InOrder(o, scored, ranking)
               /\ \A p, q \in 1 .. n : p < q => scored[o[p]].score >= scored[o[q]].score
  BY RankingOrder
<1>2. k = Min({Top(batch), n}) /\ k \in 0 .. n /\ DOMAIN ranking = 1 .. k /\ n \in Nat
  BY RankingOrder, ScoredEntries
<1>3. /\ \A p \in 1 .. n : o[p] \in 1 .. n
      /\ \A p, q \in 1 .. n : o[p] = o[q] => p = q
      /\ \A m \in 1 .. n : \E p \in 1 .. n : o[p] = m
      /\ \A p \in 1 .. k : ranking[p] = scored[o[p]]
  BY <1>1 DEF InOrder
<1>4. /\ DOMAIN scored = 1 .. n
      /\ \A p \in 1 .. n : scored[p].item \in Nat /\ scored[p].score \in Nat
      /\ \A p, q \in 1 .. n : p < q => scored[p].item < scored[q].item
  <2>1. DOMAIN scored = 1 .. n /\ at \in Int
    BY ScoredEntries
  <2>2. \A p \in 1 .. n : scored[p].item \in 1 .. at /\ scored[p].score \in Nat
    BY ScoredEntries
  <2>3. \A p, q \in DOMAIN scored : p < q => scored[p].item < scored[q].item
    BY DEF RankInv
  <2>4. \A p \in 1 .. n : scored[p].item \in Nat /\ scored[p].score \in Nat
    BY <2>1, <2>2
  <2>5. QED
    BY <2>1, <2>3, <2>4
<1> HIDE DEF n, k
<1>5. ASSUME NEW p \in 1 .. k, NEW q \in 1 .. k, p < q
      PROVE  ranking[p].item # ranking[q].item /\ ranking[p].score >= ranking[q].score
  <2>1. p \in 1 .. n /\ q \in 1 .. n
    BY <1>2
  <2>2. o[p] \in 1 .. n /\ o[q] \in 1 .. n /\ o[p] # o[q]
    BY <1>3, <1>5, <2>1
  <2>3. scored[o[p]].item # scored[o[q]].item
    <3>1. o[p] < o[q] \/ o[q] < o[p]
      BY <1>2, <2>2
    <3>2. scored[o[p]].item < scored[o[q]].item \/ scored[o[q]].item < scored[o[p]].item
      BY <1>4, <2>2, <3>1
    <3>3. QED
      BY <1>4, <2>2, <3>2
  <2>4. scored[o[p]].score >= scored[o[q]].score
    BY <1>1, <1>5, <2>1 DEF n
  <2>5. ranking[p] = scored[o[p]] /\ ranking[q] = scored[o[q]]
    BY <1>3
  <2>6. QED
    BY <2>3, <2>4, <2>5
<1>6. ASSUME NEW left \in Range(scored) \ Range(ranking), NEW shown \in Range(ranking)
      PROVE  left.score <= shown.score
  <2>1. PICK m \in 1 .. n : left = scored[m]
    BY <1>4, RangeIs
  <2>2. PICK q \in 1 .. k : shown = ranking[q]
    BY <1>2, RangeIs
  <2>3. PICK p \in 1 .. n : o[p] = m
    BY <1>3
  <2>4. p \notin 1 .. k
    <3>1. ASSUME p \in 1 .. k PROVE FALSE
      <4>1. ranking[p] = left
        BY <1>3, <2>1, <2>3, <3>1
      <4>2. ranking[p] \in Range(ranking)
        BY <1>2, <3>1, RangeIs
      <4>3. QED
        BY <4>1, <4>2
    <3>2. QED
      BY <3>1
  <2>5. q \in 1 .. n /\ q < p
    BY <1>2, <2>4
  <2>6. scored[o[q]].score >= scored[o[p]].score
    BY <1>1, <2>5 DEF n
  <2>7. scored[o[q]].score \in Nat /\ scored[o[p]].score \in Nat
    BY <1>3, <1>4, <2>5
  <2>8. scored[o[p]].score <= scored[o[q]].score
    BY <2>6, <2>7
  <2>9. QED
    BY <1>3, <2>1, <2>2, <2>3, <2>8
<1>7. QED
  BY <1>2, <1>5, <1>6 DEF n, k

(* Who deserves a place is before whom he deserves it as much as, or equal to him. *)
LEMMA RankInvNeverBehind ==
    ASSUME RankInv
    PROVE  BetterNeverBehind
<1> SUFFICES ASSUME rankStage = "done", NEW i \in DOMAIN batch.items, NEW p \in DOMAIN ranking,
                    Deserves(batch, batch.items[i], batch.items[ranking[p].item])
             PROVE  \/ \E q \in 1 .. p : ranking[q].item = i
                    \/ \E e \in Range(scored) : e = [item |-> i, score |-> ranking[p].score]
  BY DEF BetterNeverBehind
<1> DEFINE n == Len(scored)
           k == Len(ranking)
           j == ranking[p].item
<1>1. PICK o : /\ InOrder(o, scored, ranking)
               /\ \A x, y \in 1 .. n : x < y => scored[o[x]].score >= scored[o[y]].score
  BY RankingOrder
<1>2. /\ k \in 0 .. n /\ DOMAIN ranking = 1 .. k /\ n \in Nat
      /\ DOMAIN scored = 1 .. n /\ Len(batch.items) \in Nat
      /\ DOMAIN batch.items = 1 .. Len(batch.items)
      /\ batch \in Batches \cup {NoBatch}
  BY RankingOrder, ScoredEntries
<1>3. /\ \A x \in 1 .. n : o[x] \in 1 .. n
      /\ \A m \in 1 .. n : \E x \in 1 .. n : o[x] = m
      /\ \A x \in 1 .. k : ranking[x] = scored[o[x]]
  BY <1>1 DEF InOrder
<1>4. batch \in Batches
  <2>1. batch.items # <<>>
    BY <1>2
  <2>2. QED
    BY <1>2, <2>1 DEF NoBatch
<1>5. p \in 1 .. k /\ p \in 1 .. n /\ p \in Nat
  BY <1>2
<1>6. o[p] \in 1 .. n /\ ranking[p] = scored[o[p]] /\ ranking[p] \in Range(scored)
  BY <1>2, <1>3, <1>5, RangeIs
<1>7. at = Len(batch.items)
  BY DEF RankInv
<1>8. j \in DOMAIN batch.items
  <2>1. scored[o[p]].item \in 1 .. at
    BY <1>6, ScoredEntries
  <2>2. QED
    BY <1>2, <1>6, <1>7, <2>1
<1>9. Keeps(batch, batch.items[j]) /\ ranking[p].score = Score(batch, batch.items[j])
  BY <1>6 DEF RankInv
<1>10. Keeps(batch, batch.items[i]) /\ Score(batch, batch.items[i]) >= Score(batch, batch.items[j])
  BY <1>4, <1>8, <1>9, DeservingAreKept
<1>11. [item |-> i, score |-> Score(batch, batch.items[i])] \in Range(scored)
  <2>1. i \in 1 .. at
    BY <1>2, <1>7
  <2>2. QED
    BY <1>10, <2>1 DEF RankInv
<1>12. CASE Score(batch, batch.items[i]) = Score(batch, batch.items[j])
  BY <1>9, <1>11, <1>12
<1>13. CASE Score(batch, batch.items[i]) # Score(batch, batch.items[j])
  <2>1. PICK m \in 1 .. n : scored[m] = [item |-> i, score |-> Score(batch, batch.items[i])]
    BY <1>2, <1>11, RangeIs
  <2>2. scored[m].item = i /\ scored[m].score = Score(batch, batch.items[i])
    BY <2>1
  <2>3. PICK x \in 1 .. n : o[x] = m
    BY <1>3
  <2>4. /\ scored[o[x]].score \in Nat /\ scored[o[p]].score \in Nat
        /\ scored[o[x]].score >= scored[o[p]].score
        /\ scored[o[x]].score # scored[o[p]].score
    BY <1>6, <1>9, <1>10, <1>13, <2>2, <2>3, ScoredEntries
  <2>5. x < p
    <3>1. ASSUME x = p PROVE FALSE
      BY <2>4, <3>1
    <3>2. ASSUME p < x PROVE FALSE
      <4>1. scored[o[p]].score >= scored[o[x]].score
        BY <1>1, <1>5, <3>2
      <4>2. QED
        BY <2>4, <4>1
    <3>3. QED
      BY <1>5, <3>1, <3>2
  <2>6. x \in 1 .. p /\ x \in 1 .. k
    BY <1>2, <1>5, <2>5
  <2>7. ranking[x].item = i
    BY <1>3, <2>2, <2>3, <2>6
  <2>8. QED
    BY <2>6, <2>7
<1>14. QED
  BY <1>12, <1>13

-----------------------------------------------------------------------------
(* The invariant, step by step *)

LEMMA Appended ==
    ASSUME NEW S, NEW s \in Seq(S), NEW e \in S
    PROVE  /\ Append(s, e) \in Seq(S)
           /\ Len(s) \in Nat /\ DOMAIN s = 1 .. Len(s)
           /\ Len(Append(s, e)) = Len(s) + 1
           /\ DOMAIN Append(s, e) = 1 .. Len(s) + 1
           /\ \A p \in 1 .. Len(s) : Append(s, e)[p] = s[p]
           /\ Append(s, e)[Len(s) + 1] = e
           /\ Range(Append(s, e)) = Range(s) \cup {e}
<1>1. /\ Append(s, e) \in Seq(S)
      /\ Len(s) \in Nat /\ DOMAIN s = 1 .. Len(s)
      /\ Len(Append(s, e)) = Len(s) + 1
      /\ DOMAIN Append(s, e) = 1 .. Len(s) + 1
      /\ \A p \in 1 .. Len(s) : Append(s, e)[p] = s[p]
      /\ Append(s, e)[Len(s) + 1] = e
  OBVIOUS
<1>2. Range(Append(s, e)) \subseteq Range(s) \cup {e}
  <2>1. \A p \in 1 .. Len(s) + 1 : p \in 1 .. Len(s) \/ p = Len(s) + 1
    BY <1>1
  <2>2. QED
    BY <1>1, <2>1, RangeIs
<1>3. Range(s) \cup {e} \subseteq Range(Append(s, e))
  <2>1. Len(s) + 1 \in 1 .. Len(s) + 1 /\ \A p \in 1 .. Len(s) : p \in 1 .. Len(s) + 1
    BY <1>1
  <2>2. QED
    BY <1>1, <2>1, RangeIs
<1>4. QED
  BY <1>1, <1>2, <1>3

LEMMA RankInitInv == RankInit => RankInv
<1> SUFFICES ASSUME RankInit PROVE RankInv
  OBVIOUS
<1>1. /\ batch \in Batches /\ at = 0 /\ scored = <<>> /\ ranking = <<>>
      /\ rankStage = "scoring"
  BY DEF RankInit
<1>2. Len(batch.items) \in Nat
  BY <1>1, PayloadItems
<1>3. Range(scored) = {} /\ Range(ranking) = {} /\ DOMAIN scored = {}
  BY <1>1, RangeIs
<1>4. RankTypeOK
  BY <1>1, <1>2, <1>3 DEF RankTypeOK
<1>5. 1 .. at = {}
  BY <1>1
<1>6. QED
  BY <1>1, <1>3, <1>4, <1>5 DEF RankInv

(* Entries of the items looked at so far are entries of the items looked at one later. *)
LEMMA RankScoreItem ==
    ASSUME RankInv, ScoreItem
    PROVE  RankInv'
<1> DEFINE t == batch.items[at + 1]
           e == [item |-> at + 1, score |-> Score(batch, t)]
           S == [item : 1 .. at, score : 0 .. Highest(batch)]
           T == [item : 1 .. at + 1, score : 0 .. Highest(batch)]
<1>1. /\ rankStage = "scoring" /\ at < Len(batch.items) /\ at' = at + 1
      /\ scored' = IF Keeps(batch, t) THEN Append(scored, e) ELSE scored
      /\ batch' = batch /\ ranking' = ranking /\ rankStage' = rankStage
  BY DEF ScoreItem
<1>2. /\ batch \in Batches \cup {NoBatch}
      /\ Len(batch.items) \in Nat /\ at \in 0 .. Len(batch.items)
      /\ DOMAIN batch.items = 1 .. Len(batch.items)
      /\ scored \in Seq(S)
      /\ Len(scored) \in Nat /\ DOMAIN scored = 1 .. Len(scored)
      /\ \A p \in 1 .. Len(scored) : scored[p].item \in 1 .. at
  BY ScoredEntries
<1>3. at \in Nat /\ at + 1 \in 1 .. Len(batch.items) /\ at' \in 0 .. Len(batch.items)
  BY <1>1, <1>2
<1>4. batch \in Batches
  <2>1. batch.items # <<>>
    BY <1>2, <1>3
  <2>2. QED
    BY <1>2, <2>1 DEF NoBatch
<1>5. e \in T
  BY <1>2, <1>3, <1>4, ScoresInBounds
<1>6. scored \in Seq(T)
  <2>1. S \subseteq T
    BY <1>3
  <2> HIDE DEF S, T
  <2>2. \A p \in 1 .. Len(scored) : scored[p] \in T
    BY <1>2, <2>1
  <2>3. QED
    BY <1>2, <2>2
<1> HIDE DEF S, T, e
<1>7. /\ scored' \in Seq(T)
      /\ Range(scored) \subseteq Range(scored')
      /\ Range(scored') \subseteq Range(scored) \cup {e}
      /\ Keeps(batch, t) => e \in Range(scored')
      /\ ~Keeps(batch, t) => scored' = scored
  <2>1. CASE Keeps(batch, t)
    BY <1>1, <1>5, <1>6, <2>1, Appended
  <2>2. CASE ~Keeps(batch, t)
    BY <1>1, <1>6, <2>2
  <2>3. QED
    BY <2>1, <2>2
<1>8. RankTypeOK'
  <2>1. Range(ranking) \subseteq Range(scored) /\ rankStage \in {"idle", "scoring", "asking", "done", "failed"}
    BY DEF RankInv, RankTypeOK
  <2>2. Range(ranking)' \subseteq Range(scored)'
    BY <1>1, <1>7, <2>1
  <2>3. scored' \in Seq([item : 1 .. at', score : 0 .. Highest(batch')])
    BY <1>1, <1>7 DEF T
  <2>4. QED
    BY <1>1, <1>2, <1>3, <2>1, <2>2, <2>3 DEF RankTypeOK
<1>9. (\A p, q \in DOMAIN scored : p < q => scored[p].item < scored[q].item)'
  <2>1. \A p, q \in DOMAIN scored : p < q => scored[p].item < scored[q].item
    BY DEF RankInv
  <2>2. CASE ~Keeps(batch, t)
    BY <1>7, <2>1, <2>2
  <2>3. CASE Keeps(batch, t)
    <3>1. /\ DOMAIN scored' = 1 .. Len(scored) + 1
          /\ \A p \in 1 .. Len(scored) : scored'[p] = scored[p]
          /\ scored'[Len(scored) + 1] = e
      BY <1>1, <1>5, <1>6, <2>3, Appended
    <3>2. SUFFICES ASSUME NEW p \in 1 .. Len(scored) + 1, NEW q \in 1 .. Len(scored) + 1, p < q
                   PROVE  scored'[p].item < scored'[q].item
      BY <3>1
    <3>3. p \in 1 .. Len(scored) /\ scored[p].item \in 1 .. at
      BY <1>2, <3>2
    <3>4. CASE q \in 1 .. Len(scored)
      BY <1>2, <2>1, <3>1, <3>2, <3>3, <3>4
    <3>5. CASE q = Len(scored) + 1
      <4>1. scored'[q].item = at + 1
        BY <3>1, <3>5 DEF e
      <4>2. scored[p].item < at + 1
        BY <1>3, <3>3
      <4>3. QED
        BY <3>1, <3>3, <4>1, <4>2
    <3>6. QED
      BY <1>2, <3>4, <3>5
  <2>4. QED
    BY <2>2, <2>3
<1>10. ASSUME NEW i \in 1 .. at + 1, Keeps(batch, batch.items[i])
       PROVE  [item |-> i, score |-> Score(batch, batch.items[i])] \in Range(scored')
  <2>1. CASE i \in 1 .. at
    <3>1. [item |-> i, score |-> Score(batch, batch.items[i])] \in Range(scored)
      BY <1>10, <2>1 DEF RankInv
    <3>2. QED
      BY <1>7, <3>1
  <2>2. CASE i = at + 1
    BY <1>7, <1>10, <2>2 DEF e
  <2>3. QED
    BY <1>3, <2>1, <2>2
<1>11. ASSUME NEW x \in Range(scored')
       PROVE  Keeps(batch, batch.items[x.item]) /\ x.score = Score(batch, batch.items[x.item])
  <2>1. CASE x \in Range(scored)
    BY <2>1 DEF RankInv
  <2>2. CASE x \notin Range(scored)
    <3>1. x = e /\ Keeps(batch, t)
      BY <1>7, <1>11, <2>2
    <3>2. QED
      BY <3>1 DEF e
  <2>3. QED
    BY <2>1, <2>2
<1>12. QED
  BY <1>1, <1>8, <1>9, <1>10, <1>11 DEF RankInv

(* Ranking the entries leaves them as they are. *)
LEMMA RankRankItems ==
    ASSUME RankInv, RankItems
    PROVE  RankInv'
<1>1. /\ at = Len(batch.items) /\ ranking' \in Ranked(batch, scored)
      /\ rankStage' \in {"asking", "done"}
      /\ batch' = batch /\ at' = at /\ scored' = scored
  BY DEF RankItems
<1>2. Range(ranking)' \subseteq Range(scored)
  <2>1. /\ Top(batch) \in Nat /\ DOMAIN scored = 1 .. Len(scored) /\ Len(scored) \in Nat
        /\ scored \in Seq([item : 1 .. at, score : 0 .. Highest(batch)])
    BY ScoredEntries
  <2>2. /\ Len(ranking') \in 0 .. Len(scored) /\ DOMAIN ranking' = 1 .. Len(ranking')
        /\ \E o : InOrder(o, scored, ranking')
    BY <1>1, <2>1, RankedIs
  <2>3. PICK o : InOrder(o, scored, ranking')
    BY <2>2
  <2>4. ASSUME NEW p \in DOMAIN ranking' PROVE ranking'[p] \in Range(scored)
    <3>1. p \in 1 .. Len(ranking') /\ p \in 1 .. Len(scored)
      BY <2>1, <2>2
    <3>2. ranking'[p] = scored[o[p]] /\ o[p] \in 1 .. Len(scored)
      BY <2>3, <3>1 DEF InOrder
    <3>3. QED
      BY <2>1, <3>2, RangeIs
  <2>5. QED
    BY <2>4, RangeIs
<1>3. RankTypeOK'
  BY <1>1, <1>2 DEF RankInv, RankTypeOK
<1>4. QED
  BY <1>1, <1>3 DEF RankInv

LEMMA RankStepInv ==
    ASSUME RankInv, [RankNext]_rankVars
    PROVE  RankInv'
<1>1. CASE ScoreItem
  BY <1>1, RankScoreItem
<1>2. CASE RankItems
  BY <1>2, RankRankItems
<1>3. CASE Reasons
  BY <1>3 DEF RankInv, RankTypeOK, Reasons
<1>4. CASE ReasonsRaise
  BY <1>4 DEF RankInv, RankTypeOK, ReasonsRaise
<1>5. CASE UNCHANGED rankVars
  BY <1>5 DEF RankInv, RankTypeOK, rankVars
<1>6. QED
  BY <1>1, <1>2, <1>3, <1>4, <1>5 DEF RankNext

(* Every reachable state satisfies the invariant. *)
LEMMA RankInvHolds == RankSpec => []RankInv
<1>1. RankInit => RankInv
  BY RankInitInv
<1>2. RankInv /\ [RankNext]_rankVars => RankInv'
  BY RankStepInv
<1>3. QED
  BY <1>1, <1>2, PTL DEF RankSpec

(* Scores stay in the bounds that the result models declare, and a result has only what *)
(* was scored, for every payload of every service.                                      *)
THEOREM RankTypeCorrect == RankSpec => []RankTypeOK
<1>1. RankInv => RankTypeOK
  BY DEF RankInv
<1>2. QED
  BY <1>1, RankInvHolds, PTL

(* The result is in order, has nothing twice, and leaves out only what belongs after it. *)
THEOREM RankingComplete == RankSpec => []RankingIsComplete
<1>1. RankInv => RankingIsComplete
  BY RankInvComplete
<1>2. QED
  BY <1>1, RankInvHolds, PTL

(* Nobody is behind whom he beats in everything that the service looks at. *)
THEOREM RankingIsFair == RankSpec => []BetterNeverBehind
<1>1. RankInv => BetterNeverBehind
  BY RankInvNeverBehind
<1>2. QED
  BY <1>1, RankInvHolds, PTL
=============================================================================
