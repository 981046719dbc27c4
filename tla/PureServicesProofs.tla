------------------------- MODULE PureServicesProofs -------------------------
(***************************************************************************)
(* Proofs about the services of PureServices that have no module of proofs *)
(* of their own: the frames of a replay, the prompts and the rewards of a  *)
(* challenge, its variants, the semantic scores of a search and the advice *)
(* on a career; and that running beside each other does them no harm.      *)
(*                                                                         *)
(* The induction that some of them need is over the least number with a    *)
(* property, which exists by the theorems about finite sets.               *)
(***************************************************************************)
EXTENDS PureServices, RankedBatchProofs, PlagiarismCheckProofs, WellFoundedInduction

-----------------------------------------------------------------------------
(* Numbers *)

(* Every set of numbers has a least one: its initial segments are well-founded. *)
LEMMA LeastNumber ==
    ASSUME NEW A \in SUBSET Nat, A # {}
    PROVE  \E m \in A : \A n \in A : m <= n
<1> DEFINE T == {0 .. n : n \in A}
           R == StrictSubsetOrdering(Nat)
           S == FiniteSubsetsOf(Nat)
<1>1. T # {} /\ T \subseteq S /\ IsWellFoundedOn(R, S)
  <2>1. \A n \in A : 0 .. n \in SUBSET Nat /\ IsFiniteSet(0 .. n)
    BY FS_Interval
  <2>2. T \subseteq S /\ T # {}
    BY <2>1 DEF FiniteSubsetsOf
  <2>3. QED
    BY <2>2, FS_StrictSubsetOrderingWellFounded
<1> HIDE DEF T, R, S
<1>2. PICK x \in T : \A y \in T : ~(<<y, x>> \in R)
  BY <1>1, WFMin
<1>3. PICK m \in A : x = 0 .. m
  BY DEF T
<1>4. ASSUME NEW n \in A, n < m PROVE FALSE
  <2>1. 0 .. n \in T /\ 0 .. n \subseteq x /\ 0 .. n # x
    BY <1>3, <1>4 DEF T
  <2>2. <<0 .. n, x>> \in R
    BY <1>3, <2>1 DEF R, StrictSubsetOrdering
  <2>3. QED
    BY <1>2, <2>1, <2>2
<1>5. QED
  BY <1>4

(* What holds of 0 and passes from each number up to n to the next holds up to n. *)
LEMMA UpTo ==
    ASSUME NEW n \in Nat, NEW Holds \in SUBSET Nat, 0 \in Holds,
           \A k \in 1 .. n : k - 1 \in Holds => k \in Holds
    PROVE  0 .. n \subseteq Holds
<1> DEFINE A == (0 .. n) \ Holds
<1>1. ASSUME A # {} PROVE FALSE
  <2>1. PICK m \in A : \A k \in A : m <= k
    <3>1. A \in SUBSET Nat
      OBVIOUS
    <3> HIDE DEF A
    <3>2. QED
      BY <1>1, <3>1, LeastNumber
  <2>2. m \in 1 .. n /\ m - 1 \in 0 .. n /\ m - 1 \notin A
    BY <2>1
  <2>3. m - 1 \in Holds
    BY <2>2
  <2>4. QED
    BY <2>1, <2>2, <2>3
<1>2. QED
  BY <1>1

-----------------------------------------------------------------------------
(* The frames of a replay *)

(* What an event has in common with others of its type. *)
LEMMA EventIs ==
    ASSUME NEW k, NEW x
    PROVE  LET e == session.events[k]
           IN  /\ e.type = "insert" => NextHeight(k, x) = x + e.size /\ Edited(k) = text \o Marks(k)
               /\ e.type = "delete" =>
                    /\ NextHeight(k, x) = IF Count(e) < 0 THEN Min({x, -Count(e)})
                                                          ELSE Max({x - Count(e), 0})
                    /\ Edited(k) = Chop(text, Count(e))
               /\ Rewrites(k) => NextHeight(k, x) = e.size /\ Edited(k) = Marks(k)
               /\ ~(e.type = "insert") /\ ~(e.type = "delete") /\ ~Rewrites(k) =>
                    NextHeight(k, x) = x /\ Edited(k) = text
<1>1. CASE session.events[k].type = "insert"
  BY <1>1, Zenon DEF NextHeight, Edited, Rewrites
<1>2. CASE session.events[k].type = "delete"
  BY <1>2, Zenon DEF NextHeight, Edited, Rewrites
<1>3. CASE Rewrites(k)
  BY <1>3, Zenon DEF NextHeight, Edited, Rewrites
<1>4. CASE /\ ~(session.events[k].type = "insert") /\ ~(session.events[k].type = "delete")
           /\ ~Rewrites(k)
  BY <1>4, Zenon DEF NextHeight, Edited, Rewrites
<1>5. QED
  BY <1>1, <1>2, <1>3, <1>4, Zenon

LEMMA EventNumbers ==
    ASSUME session.events \in Seq(EditEvent), NEW k \in 1 .. Len(session.events)
    PROVE  session.events[k].size \in Nat /\ Count(session.events[k]) \in Int
<1> DEFINE e == session.events[k]
<1>1. e \in EditEvent
  OBVIOUS
<1> HIDE DEF e
<1>2. e.size \in Nat /\ e.count \in SUBSET Int /\ \A m, n \in e.count : m = n
  BY <1>1 DEF EditEvent
<1>3. ASSUME e.count = {} PROVE Count(e) \in Int
  BY <1>2, <1>3 DEF Count
<1>4. ASSUME e.count # {} PROVE Count(e) \in Int
  <2>1. PICK n \in e.count : n \in Int
    BY <1>2, <1>4
  <2>2. \E x \in e.count : \A y \in e.count : x <= y
    BY <1>2, <2>1
  <2>3. Min(e.count) \in e.count
    BY <2>2 DEF Min
  <2>4. QED
    BY <1>2, <1>4, <2>3 DEF Count
<1>5. QED
  BY <1>2, <1>3, <1>4 DEF e

LEMMA NextHeightIsNumber ==
    ASSUME session.events \in Seq(EditEvent), NEW k \in 1 .. Len(session.events), NEW x \in Nat
    PROVE  NextHeight(k, x) \in Nat
<1> DEFINE e == session.events[k]
<1>1. e.size \in Nat /\ Count(e) \in Int
  BY EventNumbers
<1>2. CASE e.type = "insert"
  <2>1. NextHeight(k, x) = x + e.size
    BY <1>2, EventIs
  <2>2. QED
    BY <1>1, <2>1
<1>3. CASE e.type = "delete"
  <2> DEFINE n == Count(e)
  <2>1. NextHeight(k, x) = IF n < 0 THEN Min({x, -n}) ELSE Max({x - n, 0})
    BY <1>3, EventIs
  <2>2. n \in Int
    BY <1>1
  <2> HIDE DEF n
  <2>3. Min({x, -n}) = (IF x <= -n THEN x ELSE -n) /\ Max({x - n, 0}) = IF x - n >= 0 THEN x - n ELSE 0
    BY <2>2, SmallerIs, LargerIs
  <2>4. QED
    BY <2>1, <2>2, <2>3
<1>4. CASE Rewrites(k)
  BY <1>1, <1>4, EventIs
<1>5. CASE ~(e.type = "insert") /\ ~(e.type = "delete") /\ ~Rewrites(k)
  BY <1>5, EventIs
<1>6. QED
  BY <1>2, <1>3, <1>4, <1>5

(* The heights up to any event exist, so that their recursive definition defines them. *)
LEMMA HeightIs ==
    ASSUME session.events \in Seq(EditEvent)
    PROVE  \A k \in 0 .. Len(session.events) :
              /\ Height[k] = IF k = 0 THEN 0 ELSE NextHeight(k, Height[k - 1])
              /\ Height[k] \in Nat
<1> DEFINE L == Len(session.events)
           Step(h, k) == IF k = 0 THEN 0 ELSE NextHeight(k, h[k - 1])
           Holds == {n \in Nat : \E h : h = [k \in 0 .. n |-> Step(h, k)]}
<1>1. L \in Nat
  OBVIOUS
<1> HIDE DEF L
<1>2. 0 \in Holds
  <2> DEFINE h == [k \in 0 .. 0 |-> 0]
  <2>1. h = [k \in 0 .. 0 |-> Step(h, k)]
    OBVIOUS
  <2>2. QED
    BY <2>1
<1>3. ASSUME NEW n \in 1 .. L, n - 1 \in Holds
      PROVE  n \in Holds
  <2>1. PICK h : h = [k \in 0 .. n - 1 |-> Step(h, k)]
    BY <1>3
  <2> DEFINE g == [k \in 0 .. n |-> IF k = n THEN NextHeight(n, h[n - 1]) ELSE h[k]]
  <2>2. ASSUME NEW k \in 0 .. n PROVE g[k] = Step(g, k)
    <3>1. CASE k = 0
      BY <1>1, <2>1, <3>1
    <3>2. CASE k = n
      <4>1. n # 0 /\ n - 1 \in 0 .. n /\ n - 1 # n
        BY <1>1
      <4>2. g[n - 1] = h[n - 1]
        BY <4>1
      <4>3. QED
        BY <3>2, <4>1, <4>2
    <3>3. CASE k # 0 /\ k # n
      <4>1. k \in 0 .. n - 1 /\ k - 1 \in 0 .. n /\ k - 1 # n
        BY <1>1, <3>3
      <4>2. g[k] = h[k] /\ g[k - 1] = h[k - 1]
        BY <3>3, <4>1
      <4>3. h[k] = NextHeight(k, h[k - 1])
        BY <2>1, <3>3, <4>1
      <4>4. QED
        BY <3>3, <4>2, <4>3
    <3>4. QED
      BY <3>1, <3>2, <3>3
  <2>3. g = [k \in 0 .. n |-> g[k]]
    OBVIOUS
  <2>4. g = [k \in 0 .. n |-> Step(g, k)]
    BY <2>2, <2>3
  <2>5. n \in Nat
    BY <1>1
  <2>6. QED
    BY <2>4, <2>5
<1> HIDE DEF Holds
<1>4. L \in Holds
  <2>1. Holds \in SUBSET Nat
    BY DEF Holds
  <2>2. 0 .. L \subseteq Holds
    BY <1>1, <1>2, <1>3, <2>1, UpTo
  <2>3. QED
    BY <1>1, <2>2
<1>5. PICK h : h = [k \in 0 .. L |-> Step(h, k)]
  BY <1>4 DEF Holds
<1>6. Height = [k \in 0 .. L |-> IF k = 0 THEN 0 ELSE NextHeight(k, Height[k - 1])]
  BY <1>5 DEF Height, L
<1>7. \A k \in 0 .. L : Height[k] = IF k = 0 THEN 0 ELSE NextHeight(k, Height[k - 1])
  BY <1>6, Zenon
<1>8. \A k \in 0 .. L : Height[k] \in Nat
  <2> DEFINE N == {k \in Nat : Height[k] \in Nat}
  <2>1. 0 \in N
    BY <1>1, <1>7
  <2>2. ASSUME NEW k \in 1 .. L, k - 1 \in N PROVE k \in N
    <3>1. Height[k] = NextHeight(k, Height[k - 1])
      BY <1>1, <1>7
    <3>2. Height[k - 1] \in Nat /\ k \in Nat /\ k \in 1 .. Len(session.events)
      BY <1>1, <2>2 DEF L
    <3>3. NextHeight(k, Height[k - 1]) \in Nat
      BY <3>2, NextHeightIsNumber
    <3>4. QED
      BY <3>1, <3>2, <3>3
  <2>3. N \in SUBSET Nat
    OBVIOUS
  <2> HIDE DEF N
  <2>4. 0 .. L \subseteq N
    BY <1>1, <2>1, <2>2, <2>3, UpTo
  <2>5. QED
    BY <2>4 DEF N
<1>9. QED
  BY <1>7, <1>8 DEF L

-----------------------------------------------------------------------------
(* What the next frame shows *)

LEMMA ChopIs ==
    ASSUME NEW S, NEW s \in Seq(S), NEW n \in Int
    PROVE  LET m == IF n < 0 THEN Min({Len(s), -n}) ELSE Max({Len(s) - n, 0})
           IN  /\ m \in 0 .. Len(s)
               /\ Chop(s, n) \in Seq(S) /\ Len(Chop(s, n)) = m /\ DOMAIN Chop(s, n) = 1 .. m
               /\ \A p \in 1 .. m : Chop(s, n)[p] = s[p]
<1> DEFINE l == Len(s)
<1>1. l \in Nat
  OBVIOUS
<1>2. Min({l, -n}) = (IF l <= -n THEN l ELSE -n) /\ Max({l - n, 0}) = IF l - n >= 0 THEN l - n ELSE 0
  <2> HIDE DEF l
  <2>1. Min({l, -n}) = (IF l <= -n THEN l ELSE -n)
    BY <1>1, SmallerIs
  <2>2. Max({l - n, 0}) = IF l - n >= 0 THEN l - n ELSE 0
    BY <1>1, LargerIs
  <2>3. QED
    BY <2>1, <2>2
<1>3. \A m \in Int : m <= l =>
         /\ SubSeq(s, 1, m) \in Seq(S)
         /\ Len(SubSeq(s, 1, m)) = IF m >= 0 THEN m ELSE 0
         /\ \A p \in 1 .. m : SubSeq(s, 1, m)[p] = s[p]
  OBVIOUS
<1>4. \A t \in Seq(S) : DOMAIN t = 1 .. Len(t)
  OBVIOUS
<1>5. Min({-n, l}) = Min({l, -n})
  <2>1. {-n, l} = {l, -n}
    OBVIOUS
  <2>2. QED
    BY <2>1
<1>6. CASE n < 0
  <2> DEFINE m == Min({l, -n})
  <2>1. Chop(s, n) = SubSeq(s, 1, m)
    <3>1. ~(n >= 0)
      BY <1>6
    <3>2. Chop(s, n) = SubSeq(s, 1, Min({-n, l}))
      BY <3>1, Zenon DEF Chop
    <3>3. QED
      BY <1>5, <3>2
  <2> HIDE DEF l
  <2>2. m \in Int /\ m <= l /\ m >= 0
    BY <1>1, <1>2, <1>6
  <2> HIDE DEF m
  <2>3. /\ m \in 0 .. l
        /\ Chop(s, n) \in Seq(S) /\ Len(Chop(s, n)) = m /\ DOMAIN Chop(s, n) = 1 .. m
        /\ \A p \in 1 .. m : Chop(s, n)[p] = s[p]
    <3>1. m \in 0 .. l
      BY <1>1, <2>2
    <3>2. /\ Chop(s, n) \in Seq(S) /\ Len(Chop(s, n)) = m
          /\ \A p \in 1 .. m : Chop(s, n)[p] = s[p]
      BY <1>3, <2>1, <2>2
    <3>3. DOMAIN Chop(s, n) = 1 .. m
      BY <1>4, <3>2
    <3>4. QED
      BY <3>1, <3>2, <3>3
  <2>4. QED
    BY <1>6, <2>3 DEF l, m
<1>7. CASE ~(n < 0)
  <2> DEFINE m == Max({l - n, 0})
             k == l - n
  <2>1. Chop(s, n) = SubSeq(s, 1, k)
    BY <1>7 DEF Chop
  <2> HIDE DEF l
  <2>2. k \in Int /\ k <= l /\ m = IF k >= 0 THEN k ELSE 0
    BY <1>1, <1>2, <1>7
  <2> HIDE DEF m, k
  <2>3. /\ Chop(s, n) \in Seq(S) /\ Len(Chop(s, n)) = m
        /\ \A p \in 1 .. k : Chop(s, n)[p] = s[p]
    BY <1>3, <2>1, <2>2
  <2>4. m \in 0 .. l /\ \A p \in 1 .. m : p \in 1 .. k
    BY <1>1, <2>2
  <2>5. /\ m \in 0 .. l
        /\ Chop(s, n) \in Seq(S) /\ Len(Chop(s, n)) = m /\ DOMAIN Chop(s, n) = 1 .. m
        /\ \A p \in 1 .. m : Chop(s, n)[p] = s[p]
    BY <1>4, <2>3, <2>4
  <2>6. QED
    BY <1>7, <2>5 DEF l, m
<1>8. QED
  BY <1>6, <1>7

LEMMA Joined ==
    ASSUME NEW S, NEW s \in Seq(S), NEW t \in Seq(S)
    PROVE  /\ s \o t \in Seq(S) /\ Len(s \o t) = Len(s) + Len(t)
           /\ DOMAIN (s \o t) = 1 .. Len(s) + Len(t)
           /\ \A p \in 1 .. Len(s) + Len(t) :
                 (s \o t)[p] = IF p <= Len(s) THEN s[p] ELSE t[p - Len(s)]
<1>1. s \o t \in Seq(S) /\ Len(s \o t) = Len(s) + Len(t)
  OBVIOUS
<1>2. DOMAIN (s \o t) = 1 .. Len(s) + Len(t)
  BY <1>1
<1>3. ASSUME NEW p \in 1 .. Len(s) + Len(t)
      PROVE  (s \o t)[p] = IF p <= Len(s) THEN s[p] ELSE t[p - Len(s)]
  OBVIOUS
<1>4. QED
  BY <1>1, <1>2, <1>3

AllMarks == (1 .. Len(session.events)) \X Nat

(* A text that shows what the editor showed after event k. *)
Shows(t, k) ==
    /\ t \in Seq(AllMarks)
    /\ Len(t) = Height[k]
    /\ \A p \in DOMAIN t : ShownAt(p, t[p][1], t[p][2], k)

LEMMA MarksAre ==
    ASSUME session.events \in Seq(EditEvent), NEW k \in 1 .. Len(session.events)
    PROVE  LET z == session.events[k].size
           IN  /\ z \in Nat
               /\ Marks(k) \in Seq(AllMarks) /\ Len(Marks(k)) = z /\ DOMAIN Marks(k) = 1 .. z
               /\ \A o \in 1 .. z : Marks(k)[o] = <<k, o>>
<1> DEFINE z == session.events[k].size
<1>1. z \in Nat
  BY EventNumbers
<1>2. Marks(k) = [o \in 1 .. z |-> <<k, o>>]
  BY DEF Marks
<1> HIDE DEF z
<1>3. \A o \in 1 .. z : <<k, o>> \in AllMarks
  BY <1>1 DEF AllMarks
<1> HIDE DEF AllMarks
<1>4. Marks(k) \in Seq(AllMarks)
  BY <1>1, <1>2, <1>3
<1>5. QED
  BY <1>1, <1>2, <1>4 DEF z

(* A mark stays where it is while nothing replaces the text or cuts it shorter than that. *)
LEMMA StillShown ==
    ASSUME NEW k \in Nat, NEW p, NEW j \in Nat, NEW o, ShownAt(p, j, o, k),
           ~Rewrites(k + 1), Height[k + 1] >= p
    PROVE  ShownAt(p, j, o, k + 1)
<1>1. j <= k + 1
  BY DEF ShownAt
<1>2. \A i \in j + 1 .. k + 1 : i \in j + 1 .. k \/ i = k + 1
  OBVIOUS
<1>3. \A i \in j + 1 .. k + 1 : ~Rewrites(i) /\ Height[i] >= p
  BY <1>2 DEF ShownAt
<1>4. QED
  BY <1>1, <1>3 DEF ShownAt

LEMMA EditedShows ==
    ASSUME session.events \in Seq(EditEvent), NEW k \in Nat, k < Len(session.events),
           Shows(text, k)
    PROVE  Shows(Edited(k + 1), k + 1)
<1> DEFINE e == session.events[k + 1]
           h == Height[k]
           g == Height[k + 1]
           t == Edited(k + 1)
<1>1. /\ k + 1 \in 1 .. Len(session.events) /\ k + 1 \in 0 .. Len(session.events)
      /\ k \in 0 .. Len(session.events) /\ k + 1 # 0 /\ k + 1 - 1 = k
  OBVIOUS
<1>2. h \in Nat /\ g \in Nat /\ g = NextHeight(k + 1, h)
  BY <1>1, HeightIs
<1>3. /\ text \in Seq(AllMarks) /\ Len(text) = h /\ DOMAIN text = 1 .. h
      /\ \A p \in 1 .. h : ShownAt(p, text[p][1], text[p][2], k) /\ text[p][1] \in Nat
  <2>1. /\ text \in Seq(AllMarks) /\ Len(text) = h
        /\ \A p \in DOMAIN text : ShownAt(p, text[p][1], text[p][2], k)
    BY DEF Shows
  <2>2. DOMAIN text = 1 .. h
    BY <2>1
  <2>3. \A m \in AllMarks : m[1] \in Nat
    BY DEF AllMarks
  <2>4. \A p \in 1 .. h : text[p] \in AllMarks
    BY <2>1, <2>2
  <2>5. QED
    BY <2>1, <2>2, <2>3, <2>4
<1>4. e.size \in Nat /\ Count(e) \in Int
  BY <1>1, EventNumbers
<1>5. /\ Marks(k + 1) \in Seq(AllMarks) /\ Len(Marks(k + 1)) = e.size
      /\ \A o \in 1 .. e.size : Marks(k + 1)[o] = <<k + 1, o>>
  BY <1>1, MarksAre
<1>6. CASE e.type = "insert"
  <2>1. t = text \o Marks(k + 1) /\ g = h + e.size
    BY <1>2, <1>6, EventIs
  <2>2. ~Rewrites(k + 1)
    BY <1>6 DEF Rewrites
  <2> HIDE DEF h, g, t
  <2>3. /\ t \in Seq(AllMarks) /\ Len(t) = g /\ DOMAIN t = 1 .. g
        /\ \A p \in 1 .. g : t[p] = IF p <= h THEN text[p] ELSE Marks(k + 1)[p - h]
    <3> DEFINE m == Marks(k + 1)
               z == e.size
    <3>1. m \in Seq(AllMarks) /\ Len(m) = z /\ z \in Nat /\ t = text \o m /\ g = h + z
      BY <1>4, <1>5, <2>1
    <3> HIDE DEF m, z, AllMarks
    <3>2. /\ t \in Seq(AllMarks) /\ Len(t) = g /\ DOMAIN t = 1 .. g
          /\ \A p \in 1 .. g : t[p] = IF p <= h THEN text[p] ELSE m[p - h]
      <4>1. text \in Seq(AllMarks) /\ Len(text) = h /\ h \in Nat
        BY <1>2, <1>3
      <4>2. /\ text \o m \in Seq(AllMarks) /\ Len(text \o m) = Len(text) + Len(m)
            /\ DOMAIN (text \o m) = 1 .. Len(text) + Len(m)
            /\ \A p \in 1 .. Len(text) + Len(m) :
                  (text \o m)[p] = IF p <= Len(text) THEN text[p] ELSE m[p - Len(text)]
        BY <3>1, <4>1, Joined
      <4>3. QED
        BY <3>1, <4>1, <4>2
    <3>3. QED
      BY <3>2 DEF m
  <2>4. ASSUME NEW p \in 1 .. g PROVE ShownAt(p, t[p][1], t[p][2], k + 1)
    <3>1. CASE p <= h
      <4>1. p \in 1 .. h /\ t[p] = text[p]
        BY <1>2, <2>3, <3>1
      <4>2. ShownAt(p, text[p][1], text[p][2], k) /\ text[p][1] \in Nat
        BY <1>3, <4>1
      <4>3. Height[k + 1] >= p
        BY <1>2 DEF g
      <4>4. QED
        BY <2>2, <4>1, <4>2, <4>3, StillShown
    <3>2. CASE p > h
      <4>1. p - h \in 1 .. e.size /\ p = h + (p - h)
        BY <1>2, <1>4, <2>1, <3>2
      <4>2. t[p] = <<k + 1, p - h>>
        BY <1>2, <1>5, <2>3, <3>2, <4>1
      <4>3. ShownAt(p, k + 1, p - h, k + 1)
        <5>1. p = Height[(k + 1) - 1] + (p - h)
          BY <1>1, <4>1 DEF h
        <5>2. k + 1 <= k + 1 /\ \A i \in (k + 1) + 1 .. k + 1 : FALSE
          OBVIOUS
        <5>3. QED
          BY <1>6, <4>1, <5>1, <5>2 DEF ShownAt
      <4>4. QED
        BY <4>2, <4>3
    <3>3. QED
      BY <1>2, <3>1, <3>2
  <2>5. QED
    BY <2>3, <2>4 DEF Shows, t, g
<1>7. CASE e.type = "delete"
  <2> DEFINE n == Count(e)
  <2>1. t = Chop(text, n) /\ g = IF n < 0 THEN Min({h, -n}) ELSE Max({h - n, 0})
    BY <1>2, <1>7, EventIs
  <2>2. ~Rewrites(k + 1)
    BY <1>7 DEF Rewrites
  <2>3. /\ g \in 0 .. h /\ t \in Seq(AllMarks) /\ Len(t) = g /\ DOMAIN t = 1 .. g
        /\ \A p \in 1 .. g : t[p] = text[p]
    <3> HIDE DEF n, t, g, h, AllMarks
    <3>1. QED
      BY <1>3, <1>4, <2>1, ChopIs DEF n
  <2> HIDE DEF h, g, t, n
  <2>4. ASSUME NEW p \in 1 .. g PROVE ShownAt(p, t[p][1], t[p][2], k + 1)
    <3>1. p \in 1 .. h /\ t[p] = text[p]
      BY <1>2, <2>3
    <3>2. ShownAt(p, text[p][1], text[p][2], k) /\ text[p][1] \in Nat
      BY <1>3, <3>1
    <3>3. Height[k + 1] >= p
      BY <1>2 DEF g
    <3>4. QED
      BY <2>2, <3>1, <3>2, <3>3, StillShown
  <2>5. QED
    BY <2>3, <2>4 DEF Shows, t, g
<1>8. CASE Rewrites(k + 1)
  <2>1. t = Marks(k + 1) /\ g = e.size
    BY <1>2, <1>8, EventIs
  <2>2. /\ t \in Seq(AllMarks) /\ Len(t) = g /\ DOMAIN t = 1 .. g
        /\ \A p \in 1 .. g : t[p] = <<k + 1, p>>
    BY <1>1, <2>1, MarksAre
  <2> HIDE DEF t, g
  <2>3. ASSUME NEW p \in 1 .. g PROVE ShownAt(p, t[p][1], t[p][2], k + 1)
    <3>1. t[p] = <<k + 1, p>> /\ p \in 1 .. e.size
      BY <2>1, <2>2
    <3>2. k + 1 <= k + 1 /\ \A i \in (k + 1) + 1 .. k + 1 : FALSE
      OBVIOUS
    <3>3. ShownAt(p, k + 1, p, k + 1)
      BY <1>8, <3>1, <3>2 DEF ShownAt
    <3>4. QED
      BY <3>1, <3>3
  <2>4. QED
    BY <2>2, <2>3 DEF Shows, t, g
<1>9. CASE ~(e.type = "insert") /\ ~(e.type = "delete") /\ ~Rewrites(k + 1)
  <2>1. t = text /\ g = h
    BY <1>2, <1>9, EventIs
  <2>2. ASSUME NEW p \in 1 .. h PROVE ShownAt(p, text[p][1], text[p][2], k + 1)
    <3>1. ShownAt(p, text[p][1], text[p][2], k) /\ text[p][1] \in Nat
      BY <1>3
    <3>2. Height[k + 1] >= p
      BY <1>2, <2>1
    <3>3. QED
      BY <1>9, <3>1, <3>2, StillShown
  <2>3. QED
    BY <1>3, <2>1, <2>2 DEF Shows
<1>10. QED
  BY <1>6, <1>7, <1>8, <1>9

-----------------------------------------------------------------------------
(* The length of the video *)

LEMMA LongestOfNumbers ==
    ASSUME NEW a \in Nat \ {0}, NEW b \in Int
    PROVE  Max({a, b}) \in Nat \ {0} /\ Max({a, b}) >= a /\ Max({a, b}) >= b
           /\ (Max({a, b}) = a \/ Max({a, b}) = b)
BY LargerIs

(* n frames of which at least one is shown each second, over t seconds. *)
LEMMA RateKeepsTheLength ==
    ASSUME NEW n \in Nat, NEW t \in Nat, t >= 5
    PROVE  LET f == Max({1, n \div t})
               g == Max({5, n \div f})
           IN  /\ f \in Nat \ {0} /\ n < 2 * t * f /\ (n >= t => n >= t * f)
               /\ g \in Nat /\ g < 2 * t * 1 /\ (n >= t => g >= t * 1)
<1> DEFINE q == n \div t
           f == Max({1, q})
           s == n \div f
           g == Max({5, s})
<1>1. q \in Int /\ t * q <= n /\ n < t * q + t
  BY Division
<1> HIDE DEF q
<1>2. f \in Nat \ {0} /\ f >= 1 /\ f >= q /\ (f = 1 \/ f = q)
  BY <1>1, LongestOfNumbers
<1> HIDE DEF f
<1>3. t * f \in Nat /\ t * q \in Int /\ 2 * t * f = t * f + t * f
  BY <1>1, <1>2
<1>4. t * q <= t * f /\ t <= t * f
  BY <1>1, <1>2
<1>5. n < 2 * t * f
  BY <1>1, <1>3, <1>4
<1>6. ASSUME n >= t PROVE n >= t * f
  <2>1. q >= 1
    <3>1. ASSUME q <= 0 PROVE FALSE
      <4>1. t * q <= 0
        BY <1>1, <3>1
      <4>2. QED
        BY <1>1, <1>6, <4>1
    <3>2. QED
      BY <1>1, <3>1
  <2>2. f = q
    BY <1>1, <1>2, <2>1
  <2>3. QED
    BY <1>1, <2>2
<1>7. s \in Int /\ f * s <= n /\ n < f * s + f
  BY <1>2, Division
<1> HIDE DEF s
<1>8. s < 2 * t
  <2>1. ASSUME s >= 2 * t PROVE FALSE
    <3>1. f * s >= f * (2 * t)
      BY <1>2, <1>7, <2>1
    <3>2. f * (2 * t) = 2 * t * f /\ f * s \in Int
      BY <1>2, <1>7
    <3>3. QED
      BY <1>3, <1>5, <1>7, <3>1, <3>2
  <2>2. QED
    BY <1>7, <2>1
<1>9. ASSUME n >= t PROVE s >= t
  <2>1. ASSUME s <= t - 1 PROVE FALSE
    <3>1. f * s <= f * (t - 1)
      BY <1>2, <1>7, <2>1
    <3>2. f * (t - 1) = t * f - f /\ f * s \in Int
      BY <1>2, <1>7
    <3>3. QED
      BY <1>2, <1>3, <1>6, <1>7, <1>9, <3>1, <3>2
  <2>2. QED
    BY <1>7, <2>1
<1>10. g \in Nat /\ g >= s /\ (g = 5 \/ g = s)
  <2>1. 5 \in Nat \ {0}
    OBVIOUS
  <2>2. QED
    BY <1>7, <2>1, LongestOfNumbers
<1> HIDE DEF g
<1>11. g < 2 * t * 1 /\ (n >= t => g >= t * 1)
  BY <1>7, <1>8, <1>9, <1>10
<1>12. QED
  BY <1>2, <1>5, <1>6, <1>10, <1>11 DEF q, f, s, g

LEMMA TargetIsNumber ==
    ASSUME session.duration \in Int
    PROVE  Target \in Nat /\ Target >= 5
<1> DEFINE d == session.duration \div 10
<1>1. d \in Int
  OBVIOUS
<1> HIDE DEF d
<1>2. Max({5, d}) \in Nat /\ Max({5, d}) >= 5
  <2>1. 5 \in Nat \ {0}
    OBVIOUS
  <2>2. QED
    BY <1>1, <2>1, LongestOfNumbers
<1>3. QED
  BY <1>2 DEF Target, Speedup, d

-----------------------------------------------------------------------------
(* What every frame shows, at every step *)

ReplayInv ==
    /\ ReplayTypeOK
    /\ FramesShowTheEdits
    /\ ReplayLengthBounded

LEMMA SessionIs ==
    ASSUME ReplayTypeOK
    PROVE  session.events \in Seq(EditEvent) /\ session.duration \in Int
<1>1. CASE session \in Sessions
  BY <1>1, SessionsAssumption
<1>2. CASE session = NoSession
  <2>1. session.events = <<>> /\ session.duration = 0
    BY <1>2 DEF NoSession
  <2>2. \A S : <<>> \in Seq(S)
    OBVIOUS
  <2>3. QED
    BY <2>1, <2>2
<1>3. QED
  BY <1>1, <1>2 DEF ReplayTypeOK

(* With no frame yet there is no text; with some, the text is what the last one shows. *)
LEMMA TextShows ==
    ASSUME ReplayTypeOK, FramesShowTheEdits
    PROVE  Shows(text, Len(frames)) /\ Len(frames) \in Nat
<1>1. frames \in Seq(Seq(AllMarks))
  BY DEF ReplayTypeOK, AllMarks
<1> HIDE DEF AllMarks
<1>2. Len(frames) \in Nat /\ DOMAIN frames = 1 .. Len(frames)
  BY <1>1
<1>3. CASE frames = <<>>
  <2>1. Len(frames) = 0 /\ text = <<>>
    BY <1>3 DEF ReplayTypeOK
  <2>2. Height[0] = 0
    <3>1. 0 \in 0 .. Len(session.events)
      BY SessionIs
    <3>2. QED
      BY <3>1, SessionIs, HeightIs
  <2>3. /\ <<>> \in Seq(AllMarks) /\ Len(<<>>) = 0
        /\ \A p \in DOMAIN <<>> : FALSE
    OBVIOUS
  <2>4. \A p \in DOMAIN text : ShownAt(p, text[p][1], text[p][2], 0)
    BY <2>1, <2>3
  <2>5. QED
    BY <2>1, <2>2, <2>3, <2>4 DEF Shows
<1>4. CASE frames # <<>>
  <2>1. Len(frames) \in DOMAIN frames
    BY <1>1, <1>2, <1>4
  <2>2. text = frames[Len(frames)]
    BY <1>4 DEF ReplayTypeOK
  <2>3. text \in Seq(AllMarks)
    BY <1>1, <1>2, <2>1, <2>2
  <2>4. /\ Len(text) = Height[Len(frames)]
        /\ \A p \in DOMAIN text : ShownAt(p, text[p][1], text[p][2], Len(frames))
    BY <2>1, <2>2 DEF FramesShowTheEdits
  <2>5. QED
    BY <1>2, <2>3, <2>4 DEF Shows
<1>5. QED
  BY <1>3, <1>4

LEMMA SameHeight ==
    ASSUME session' = session
    PROVE  Height' = Height
BY DEF Height, NextHeight, Count

(* Frames that show the edits of the session still do when the session is the same. *)
LEMMA FramesPrimed ==
    ASSUME session' = session,
           \A k \in DOMAIN frames' :
              /\ Len(frames'[k]) = Height[k]
              /\ \A p \in DOMAIN frames'[k] : ShownAt(p, frames'[k][p][1], frames'[k][p][2], k)
    PROVE  FramesShowTheEdits'
<1>1. Height' = Height
  BY SameHeight
<1>2. QED
  BY <1>1 DEF FramesShowTheEdits, ShownAt, Rewrites

LEMMA ReplayInitInv == ReplayInit => ReplayInv
<1> SUFFICES ASSUME ReplayInit PROVE ReplayInv
  OBVIOUS
<1>1. /\ session \in Sessions /\ text = <<>> /\ frames = <<>> /\ video = NoVideo
      /\ replayStage = "rendering"
  BY DEF ReplayInit
<1>2. session.events \in Seq(EditEvent)
  BY <1>1, SessionsAssumption
<1>3. Len(session.events) \in Nat
  BY <1>2
<1>4. ReplayTypeOK
  <2>1. Len(frames) <= Len(session.events)
    BY <1>1, <1>3
  <2>2. frames \in Seq(Seq((1 .. Len(session.events)) \X Nat))
    BY <1>1
  <2>3. video \in [frames : Nat, rate : Nat \ {0}]
    BY <1>1 DEF NoVideo
  <2>4. QED
    BY <1>1, <2>1, <2>2, <2>3 DEF ReplayTypeOK
<1>5. FramesShowTheEdits
  <2>1. \A k \in DOMAIN frames : FALSE
    BY <1>1
  <2>2. QED
    BY <2>1 DEF FramesShowTheEdits
<1>6. ReplayLengthBounded
  BY <1>1 DEF ReplayLengthBounded
<1>7. QED
  BY <1>4, <1>5, <1>6 DEF ReplayInv

LEMMA IdleReplayInv == ReplayIdle => ReplayInv
<1> SUFFICES ASSUME ReplayIdle PROVE ReplayInv
  OBVIOUS
<1>1. /\ session = NoSession /\ text = <<>> /\ frames = <<>> /\ video = NoVideo
      /\ replayStage = "idle"
  BY DEF ReplayIdle
<1>2. session.events = <<>>
  BY <1>1 DEF NoSession
<1>3. ReplayTypeOK
  <2>1. Len(frames) <= Len(session.events)
    BY <1>1, <1>2
  <2>2. frames \in Seq(Seq((1 .. Len(session.events)) \X Nat))
    BY <1>1
  <2>3. video \in [frames : Nat, rate : Nat \ {0}]
    BY <1>1 DEF NoVideo
  <2>4. QED
    BY <1>1, <2>1, <2>2, <2>3 DEF ReplayTypeOK
<1>4. FramesShowTheEdits
  <2>1. \A k \in DOMAIN frames : FALSE
    BY <1>1
  <2>2. QED
    BY <2>1 DEF FramesShowTheEdits
<1>5. ReplayLengthBounded
  BY <1>1 DEF ReplayLengthBounded
<1>6. QED
  BY <1>3, <1>4, <1>5 DEF ReplayInv

LEMMA RenderKeepsInv ==
    ASSUME ReplayInv, Render
    PROVE  ReplayInv'
<1> DEFINE k == Len(frames)
           t == Edited(k + 1)
           M == Seq(AllMarks)
<1>1. ReplayTypeOK /\ FramesShowTheEdits /\ session.events \in Seq(EditEvent)
  BY SessionIs DEF ReplayInv
<1>2. /\ session' = session /\ video' = video /\ replayStage' = replayStage
      /\ replayStage = "rendering" /\ text' = t /\ frames' = Append(frames, t)
      /\ k < Len(session.events)
  BY DEF Render
<1>3. k \in Nat /\ Shows(text, k)
  BY <1>1, TextShows
<1>4. Shows(t, k + 1)
  BY <1>1, <1>2, <1>3, EditedShows
<1>5. t \in M /\ frames \in Seq(M) /\ M = Seq((1 .. Len(session.events)) \X Nat)
  BY <1>1, <1>4 DEF Shows, ReplayTypeOK, AllMarks
<1> HIDE DEF t, M
<1>6. /\ frames' \in Seq(M) /\ Len(frames') = k + 1 /\ frames' # <<>>
      /\ DOMAIN frames = 1 .. k /\ DOMAIN frames' = 1 .. k + 1
      /\ \A i \in 1 .. k : frames'[i] = frames[i]
      /\ frames'[k + 1] = t
  <2>1. \A S : \A s \in Seq(S), x \in S :
           /\ Append(s, x) \in Seq(S) /\ Len(Append(s, x)) = Len(s) + 1
           /\ \A i \in 1 .. Len(s) : Append(s, x)[i] = s[i]
           /\ Append(s, x)[Len(s) + 1] = x
    OBVIOUS
  <2>2. frames' = Append(frames, t)
    BY <1>2
  <2>3. /\ frames' \in Seq(M) /\ Len(frames') = k + 1
        /\ \A i \in 1 .. k : frames'[i] = frames[i]
        /\ frames'[k + 1] = t
    BY <1>5, <2>1, <2>2
  <2>4. DOMAIN frames = 1 .. k /\ DOMAIN frames' = 1 .. k + 1
    BY <1>5, <2>3
  <2>5. frames' # <<>>
    <3>1. DOMAIN <<>> = {} /\ k + 1 \in DOMAIN frames'
      BY <1>3, <2>4
    <3>2. QED
      BY <3>1
  <2>6. QED
    BY <2>3, <2>4, <2>5
<1>7. ReplayTypeOK'
  <2>1. Len(frames') <= Len(session'.events)
    BY <1>1, <1>2, <1>3, <1>6
  <2>2. frames' \in Seq(Seq((1 .. Len(session'.events)) \X Nat))
    BY <1>2, <1>5, <1>6
  <2>3. text' = IF frames' = <<>> THEN <<>> ELSE frames'[Len(frames')]
    BY <1>2, <1>6
  <2>4. /\ session \in Sessions \/ session = NoSession
        /\ video \in [frames : Nat, rate : Nat \ {0}]
    BY <1>1 DEF ReplayTypeOK
  <2>5. /\ session' \in Sessions \/ session' = NoSession
        /\ video' \in [frames : Nat, rate : Nat \ {0}]
        /\ replayStage' \in {"idle", "rendering", "encoded", "failed"}
    BY <1>2, <2>4
  <2>6. NoSession' = NoSession
    BY DEF NoSession
  <2>7. QED
    BY <2>1, <2>2, <2>3, <2>5, <2>6 DEF ReplayTypeOK
<1>8. FramesShowTheEdits'
  <2>1. ASSUME NEW i \in DOMAIN frames'
        PROVE  /\ Len(frames'[i]) = Height[i]
               /\ \A p \in DOMAIN frames'[i] : ShownAt(p, frames'[i][p][1], frames'[i][p][2], i)
    <3>1. CASE i \in 1 .. k
      BY <1>1, <1>6, <3>1 DEF FramesShowTheEdits
    <3>2. CASE i = k + 1
      BY <1>4, <1>6, <3>2 DEF Shows
    <3>3. QED
      BY <1>3, <1>6, <3>1, <3>2
  <2>2. QED
    BY <1>2, <2>1, FramesPrimed
<1>9. ReplayLengthBounded'
  BY <1>2 DEF ReplayLengthBounded
<1>10. QED
  BY <1>7, <1>8, <1>9 DEF ReplayInv

LEMMA EncodeKeepsInv ==
    ASSUME ReplayInv, Encode
    PROVE  ReplayInv'
<1> DEFINE n == Len(frames)
           f == Max({1, n \div Target})
           g == Max({5, n \div f})
<1>1. ReplayTypeOK /\ FramesShowTheEdits /\ session.duration \in Int
  BY SessionIs DEF ReplayInv
<1>2. /\ session' = session /\ text' = text /\ frames' = frames /\ replayStage' = "encoded"
      /\ video' = [frames |-> n, rate |-> f] \/ video' = [frames |-> g, rate |-> 1]
  BY DEF Encode, InputFps
<1>3. Target \in Nat /\ Target >= 5 /\ n \in Nat
  BY <1>1, TargetIsNumber, TextShows
<1>4. /\ f \in Nat \ {0} /\ n < 2 * Target * f /\ (n >= Target => n >= Target * f)
      /\ g \in Nat /\ g < 2 * Target * 1 /\ (n >= Target => g >= Target * 1)
  <2> DEFINE t == Target
  <2>1. t \in Nat /\ t >= 5
    BY <1>3
  <2> HIDE DEF t, n
  <2>2. n \in Nat
    BY <1>3
  <2>3. LET e == Max({1, n \div t})
            h == Max({5, n \div e})
        IN  /\ e \in Nat \ {0} /\ n < 2 * t * e /\ (n >= t => n >= t * e)
            /\ h \in Nat /\ h < 2 * t * 1 /\ (n >= t => h >= t * 1)
    BY <2>1, <2>2, RateKeepsTheLength
  <2>4. QED
    BY <2>3, Zenon DEF t
<1> HIDE DEF f, g
<1>5. /\ video' \in [frames : Nat, rate : Nat \ {0}]
      /\ video'.frames < 2 * Target * video'.rate
      /\ n >= Target => video'.frames >= Target * video'.rate
  <2>1. CASE video' = [frames |-> n, rate |-> f]
    <3>1. video'.frames = n /\ video'.rate = f
      BY <2>1
    <3>2. video' \in [frames : Nat, rate : Nat \ {0}]
      BY <1>3, <1>4, <2>1
    <3>3. QED
      BY <1>4, <3>1, <3>2, Zenon
  <2>2. CASE video' = [frames |-> g, rate |-> 1]
    <3>1. video'.frames = g /\ video'.rate = 1
      BY <2>2
    <3>2. video' \in [frames : Nat, rate : Nat \ {0}]
      BY <1>4, <2>2
    <3>3. QED
      BY <1>4, <3>1, <3>2, Zenon
  <2>3. QED
    BY <1>2, <2>1, <2>2
<1>6. ReplayTypeOK'
  <2>1. NoSession' = NoSession
    BY DEF NoSession
  <2>2. QED
    BY <1>1, <1>2, <1>5, <2>1 DEF ReplayTypeOK
<1>7. FramesShowTheEdits'
  <2>1. \A k \in DOMAIN frames' :
           /\ Len(frames'[k]) = Height[k]
           /\ \A p \in DOMAIN frames'[k] : ShownAt(p, frames'[k][p][1], frames'[k][p][2], k)
    BY <1>1, <1>2, Zenon DEF FramesShowTheEdits
  <2>2. QED
    BY <1>2, <2>1, FramesPrimed
<1>8. ReplayLengthBounded'
  <2>1. Target' = Target
    BY <1>2 DEF Target
  <2>2. QED
    BY <1>2, <1>5, <2>1, Zenon DEF ReplayLengthBounded
<1>9. QED
  BY <1>6, <1>7, <1>8 DEF ReplayInv

LEMMA SameReplayKeepsInv ==
    ASSUME ReplayInv, UNCHANGED <<session, text, frames, video>>,
           replayStage' = replayStage \/ replayStage' = "failed"
    PROVE  ReplayInv'
<1>1. ReplayTypeOK /\ FramesShowTheEdits /\ ReplayLengthBounded
  BY DEF ReplayInv
<1>2. ReplayTypeOK'
  <2>1. NoSession' = NoSession
    BY DEF NoSession
  <2>2. replayStage' \in {"idle", "rendering", "encoded", "failed"}
    BY <1>1 DEF ReplayTypeOK
  <2>3. QED
    BY <1>1, <2>1, <2>2 DEF ReplayTypeOK
<1>3. FramesShowTheEdits'
  <2>1. \A k \in DOMAIN frames' :
           /\ Len(frames'[k]) = Height[k]
           /\ \A p \in DOMAIN frames'[k] : ShownAt(p, frames'[k][p][1], frames'[k][p][2], k)
    BY <1>1, Zenon DEF FramesShowTheEdits
  <2>2. QED
    BY <2>1, FramesPrimed
<1>4. ReplayLengthBounded'
  <2>1. Target' = Target /\ (replayStage' = "encoded" => replayStage = "encoded")
    BY DEF Target
  <2>2. QED
    BY <1>1, <2>1, Zenon DEF ReplayLengthBounded
<1>5. QED
  BY <1>2, <1>3, <1>4 DEF ReplayInv

LEMMA ReplayStepInv == ReplayInv /\ [ReplayNext]_replayVars => ReplayInv'
<1> SUFFICES ASSUME ReplayInv, [ReplayNext]_replayVars PROVE ReplayInv'
  OBVIOUS
<1>1. CASE Render
  BY <1>1, RenderKeepsInv
<1>2. CASE Encode
  BY <1>2, EncodeKeepsInv
<1>3. CASE NothingToRender
  BY <1>3, SameReplayKeepsInv DEF NothingToRender
<1>4. CASE UNCHANGED replayVars
  BY <1>4, SameReplayKeepsInv DEF replayVars
<1>5. QED
  BY <1>1, <1>2, <1>3, <1>4 DEF ReplayNext

LEMMA ReplayInvHolds == ReplaySpec => []ReplayInv
<1>1. QED
  BY ReplayInitInv, ReplayStepInv, PTL DEF ReplaySpec

(* One frame for each event, numbered without a gap, and the text is the last one's: for any *)
(* list of events and any length of the session. *)
THEOREM ReplayTypeCorrect == ReplaySpec => []ReplayTypeOK
<1>1. ReplayInv => ReplayTypeOK
  BY DEF ReplayInv
<1>2. QED
  BY <1>1, ReplayInvHolds, PTL

(* Every frame that render_frames_to_dir draws shows the characters typed where they stand   *)
(* and not deleted or replaced since, and no other: for deletes of nothing, of more than     *)
(* there is and with a negative count. *)
THEOREM FramesAreFaithful == ReplaySpec => []FramesShowTheEdits
<1>1. ReplayInv => FramesShowTheEdits
  BY DEF ReplayInv
<1>2. QED
  BY <1>1, ReplayInvHolds, PTL

(* The video that encode_video makes lasts less than twice a tenth of the session (or five  *)
(* seconds), and that long at least when there are frames enough, whatever its two integer  *)
(* divisions lose. *)
THEOREM ReplayLasts == ReplaySpec => []ReplayLengthBounded
<1>1. ReplayInv => ReplayLengthBounded
  BY DEF ReplayInv
<1>2. QED
  BY <1>1, ReplayInvHolds, PTL

-----------------------------------------------------------------------------
(* The variants of a challenge *)

(* A step of difficulty or of duration goes in its direction and stays in the bounds. *)
LEMMA StepsOfDifficulty ==
    ASSUME NEW d \in 1 .. 5
    PROVE  /\ Harder(d) \in 1 .. 5 /\ Harder(d) >= d /\ (Harder(d) > d \/ d = 5)
           /\ Easier(d) \in 1 .. 5 /\ Easier(d) <= d /\ (Easier(d) < d \/ d = 1)
<1> DEFINE up == d + 1
           down == d - 1
<1>1. up \in Int /\ down \in Int /\ 5 \in Int /\ 1 \in Int
  OBVIOUS
<1> HIDE DEF up, down
<1>2. Min({5, up}) = (IF 5 <= up THEN 5 ELSE up) /\ Max({1, down}) = IF 1 >= down THEN 1 ELSE down
  BY <1>1, SmallerIs, LargerIs
<1>3. Harder(d) = IF 5 <= up THEN 5 ELSE up
  BY <1>2 DEF Harder, up
<1>4. Easier(d) = IF 1 >= down THEN 1 ELSE down
  BY <1>2 DEF Easier, down
<1>5. QED
  BY <1>3, <1>4 DEF up, down

LEMMA StepsOfDuration ==
    ASSUME NEW d \in 5 .. 180
    PROVE  /\ Halved(d) \in 5 .. 180 /\ Halved(d) <= d /\ (Halved(d) < d \/ d = 5)
           /\ Doubled(d) \in 5 .. 180 /\ Doubled(d) >= d /\ (Doubled(d) > d \/ d = 180)
<1> DEFINE half == d \div 2
           twice == d * 2
           most == 180
<1>1. /\ half \in Int /\ 2 * half <= d /\ d < 2 * half + 2
      /\ twice \in Int /\ twice = d + d /\ most \in Int /\ 5 \in Int
  OBVIOUS
<1> HIDE DEF half, twice, most
<1>2. Min({most, twice}) = (IF most <= twice THEN most ELSE twice)
  BY <1>1, SmallerIs
<1>3. Max({5, half}) = IF 5 >= half THEN 5 ELSE half
  BY <1>1, LargerIs
<1>4. Halved(d) = IF 5 >= half THEN 5 ELSE half
  BY <1>3 DEF Halved, half
<1>5. Doubled(d) = IF most <= twice THEN most ELSE twice
  BY <1>2 DEF Doubled, most, twice
<1>6. QED
  BY <1>1, <1>4, <1>5 DEF most

(* More difficulty or more time is never worth less. *)
LEMMA RewardMonotone ==
    ASSUME NEW d \in Nat, NEW e \in Nat, d <= e, NEW t \in Nat, NEW u \in Nat, t <= u,
           NEW tone, NEW ai
    PROVE  Reward(d, t, tone, ai) <= Reward(e, u, tone, ai)
<1> DEFINE s == t \div 15
           v == u \div 15
           p == Max({1, s})
           q == Max({1, v})
           c == 10 + (IF tone = "absurd" THEN 5 ELSE 0) + (IF ai THEN 0 ELSE 3)
           a == d * p * c
           b == e * q * c
<1>1. s \in Int /\ v \in Int /\ s <= v
  BY DivisionMonotone
<1>2. c \in Nat
  <2>1. (IF tone = "absurd" THEN 5 ELSE 0) \in Nat /\ (IF ai THEN 0 ELSE 3) \in Nat
    OBVIOUS
  <2>2. QED
    BY <2>1
<1> HIDE DEF s, v, c
<1>3. p \in Nat /\ q \in Nat /\ p <= q
  <2>1. p = IF 1 >= s THEN 1 ELSE s
    BY <1>1, LargerIs
  <2>2. q = IF 1 >= v THEN 1 ELSE v
    BY <1>1, LargerIs
  <2>3. QED
    BY <1>1, <2>1, <2>2
<1> HIDE DEF p, q
<1>4. d * p \in Nat /\ e * q \in Nat /\ d * p <= e * q
  <2>1. d * p <= e * p /\ e * p <= e * q
    BY <1>3
  <2>2. d * p \in Nat /\ e * p \in Nat /\ e * q \in Nat
    BY <1>3
  <2>3. QED
    BY <2>1, <2>2
<1>5. a \in Int /\ b \in Int /\ a <= b
  <2> DEFINE m == d * p
             n == e * q
  <2>1. m \in Nat /\ n \in Nat /\ m <= n
    BY <1>4
  <2> HIDE DEF m, n
  <2>2. m * c \in Int /\ n * c \in Int /\ m * c <= n * c
    BY <1>2, <2>1
  <2>3. QED
    BY <2>2 DEF m, n
<1> HIDE DEF a, b
<1>6. a \div 10 <= b \div 10
  BY <1>5, DivisionMonotone
<1>7. Reward(d, t, tone, ai) = a \div 10 /\ Reward(e, u, tone, ai) = b \div 10
  BY DEF Reward, a, b, c, p, q, s, v
<1>8. QED
  BY <1>6, <1>7

(* What the service expects of a variant without a target. *)
LEMMA ExpectedOfKind ==
    ASSUME NEW o, o.target = {}
    PROVE  LET expected == ResolveMetadata(o)
           IN  /\ expected.difficulty = IF o.kind = "harder" THEN Harder(o.difficulty)
                                        ELSE IF o.kind = "easier" THEN Easier(o.difficulty)
                                        ELSE o.difficulty
               /\ expected.duration = IF o.kind = "shorter" THEN Halved(o.duration)
                                      ELSE IF o.kind = "longer" THEN Doubled(o.duration)
                                      ELSE o.duration
<1> DEFINE expected == ResolveMetadata(o)
<1>1. \A x : Given(o.target, x) = x
  BY DEF Given
<1>2. CASE o.kind = "harder"
  <2>1. expected.difficulty = Harder(o.difficulty) /\ expected.duration = o.duration
    BY <1>1, <1>2, Zenon DEF ResolveMetadata
  <2>2. QED
    BY <1>2, <2>1
<1>3. CASE o.kind = "easier"
  <2>1. expected.difficulty = Easier(o.difficulty) /\ expected.duration = o.duration
    BY <1>1, <1>3, Zenon DEF ResolveMetadata
  <2>2. QED
    BY <1>3, <2>1
<1>4. CASE o.kind = "shorter"
  <2>1. expected.difficulty = o.difficulty /\ expected.duration = Halved(o.duration)
    BY <1>1, <1>4, Zenon DEF ResolveMetadata
  <2>2. QED
    BY <1>4, <2>1
<1>5. CASE o.kind = "longer"
  <2>1. expected.difficulty = o.difficulty /\ expected.duration = Doubled(o.duration)
    BY <1>1, <1>5, Zenon DEF ResolveMetadata
  <2>2. QED
    BY <1>5, <2>1
<1>6. CASE o.kind \notin {"harder", "easier", "shorter", "longer"}
  <2>1. expected.difficulty = o.difficulty /\ expected.duration = o.duration
    BY <1>6, Zenon DEF ResolveMetadata
  <2>2. QED
    BY <1>6, <2>1
<1>7. QED
  BY <1>2, <1>3, <1>4, <1>5, <1>6

VariantTyped == variant \in Variants \/ variant = NoVariant

LEMMA OriginalIs ==
    ASSUME VariantTyped
    PROVE  /\ Original.kind = variant.kind /\ Original.target = variant.target
           /\ Original.tone = variant.tone /\ Original.ai = variant.ai
<1>1. CASE variant \in Variants
  <2>1. variant \in VariantRequest
    BY <1>1, VariantsAssumption
  <2>2. QED
    BY <2>1 DEF Original, VariantRequest
<1>2. CASE variant = NoVariant
  <2> DEFINE none == ""
  <2>1. variant = [titled |-> FALSE, kind |-> none, difficulty |-> 0, duration |-> 0,
                   tone |-> none, ai |-> FALSE, target |-> {}]
    BY <1>2 DEF NoVariant
  <2> HIDE DEF none
  <2>2. QED
    BY <2>1 DEF Original
<1>3. QED
  BY <1>1, <1>2 DEF VariantTyped

(* Nobody but the client and the model moves a measure out of the bounds. *)
LEMMA MeasuresOfKind ==
    ASSUME VariantTyped, told = NoAnswer, variant.target = {}, Valid(Original)
    PROVE  LET o == Original
           IN  /\ o.difficulty \in 1 .. 5 /\ o.duration \in 5 .. 180
               /\ Measures.difficulty = IF o.kind = "harder" THEN Harder(o.difficulty)
                                        ELSE IF o.kind = "easier" THEN Easier(o.difficulty)
                                        ELSE o.difficulty
               /\ Measures.duration = IF o.kind = "shorter" THEN Halved(o.duration)
                                      ELSE IF o.kind = "longer" THEN Doubled(o.duration)
                                      ELSE o.duration
               /\ Valid(Measures)
<1> DEFINE o == Original
           d == o.difficulty
           t == o.duration
<1>1. d \in 1 .. 5 /\ t \in 5 .. 180
  BY DEF Valid
<1>2. o.target = {}
  BY OriginalIs
<1>3. /\ Measures.difficulty = ResolveMetadata(o).difficulty
      /\ Measures.duration = ResolveMetadata(o).duration
  BY DEF Measures, NoAnswer, Given
<1>4. /\ Measures.difficulty = IF o.kind = "harder" THEN Harder(d)
                               ELSE IF o.kind = "easier" THEN Easier(d) ELSE d
      /\ Measures.duration = IF o.kind = "shorter" THEN Halved(t)
                             ELSE IF o.kind = "longer" THEN Doubled(t) ELSE t
  <2> HIDE DEF o
  <2>1. QED
    BY <1>2, <1>3, ExpectedOfKind
<1> HIDE DEF d, t
<1>5. Harder(d) \in 1 .. 5 /\ Easier(d) \in 1 .. 5
  BY <1>1, StepsOfDifficulty
<1>6. Halved(t) \in 5 .. 180 /\ Doubled(t) \in 5 .. 180
  BY <1>1, StepsOfDuration
<1>7. Measures.difficulty \in 1 .. 5 /\ Measures.duration \in 5 .. 180
  BY <1>1, <1>4, <1>5, <1>6
<1>8. QED
  BY <1>1, <1>4, <1>7 DEF Valid, d, t

Built == [difficulty |-> Measures.difficulty, duration |-> Measures.duration,
          reward |-> Reward(Measures.difficulty, Measures.duration, variant.tone, variant.ai)]

VariantInv ==
    /\ VariantTypeOK
    /\ variantStage = "success" => outcome = Built

(* A reward is not negative. *)
LEMMA RewardIsNumber ==
    ASSUME NEW d \in Nat, NEW t \in Nat, NEW tone, NEW ai
    PROVE  Reward(d, t, tone, ai) \in Nat
<1> DEFINE s == t \div 15
           p == Max({1, s})
           c == 10 + (IF tone = "absurd" THEN 5 ELSE 0) + (IF ai THEN 0 ELSE 3)
           a == d * p
<1>1. c \in Nat
  <2>1. (IF tone = "absurd" THEN 5 ELSE 0) \in Nat /\ (IF ai THEN 0 ELSE 3) \in Nat
    OBVIOUS
  <2>2. QED
    BY <2>1
<1>2. s \in Int
  OBVIOUS
<1> HIDE DEF s, c
<1>3. p \in Nat
  <2>1. p = IF 1 >= s THEN 1 ELSE s
    BY <1>2, LargerIs
  <2>2. QED
    BY <1>2, <2>1
<1> HIDE DEF p
<1>4. a \in Nat
  BY <1>3
<1> HIDE DEF a
<1>5. a * c \in Nat
  BY <1>1, <1>4
<1>6. (a * c) \div 10 \in Nat
  BY <1>5
<1>7. Reward(d, t, tone, ai) = (a * c) \div 10
  BY DEF Reward, a, c, p, s
<1>8. QED
  BY <1>6, <1>7

LEMMA SuccessMoves ==
    ASSUME VariantInv, variantStage = "success", variant.target = {}, told = NoAnswer,
           Valid(Original)
    PROVE  VariantMovesItsDimension
<1> DEFINE o == Original
           d == o.difficulty
           t == o.duration
           e == outcome.difficulty
           u == outcome.duration
           kind == variant.kind
           before == Reward(d, t, o.tone, o.ai)
           after == outcome.reward
<1>1. /\ d \in 1 .. 5 /\ t \in 5 .. 180
      /\ e = IF kind = "harder" THEN Harder(d) ELSE IF kind = "easier" THEN Easier(d) ELSE d
      /\ u = IF kind = "shorter" THEN Halved(t) ELSE IF kind = "longer" THEN Doubled(t) ELSE t
  <2>1. outcome = Built /\ VariantTyped
    BY DEF VariantInv, VariantTypeOK, VariantTyped
  <2>2. e = Measures.difficulty /\ u = Measures.duration
    BY <2>1 DEF Built
  <2>3. o.kind = kind
    BY <2>1, OriginalIs
  <2>4. QED
    BY <2>1, <2>2, <2>3, MeasuresOfKind
<1>2. after = Reward(e, u, o.tone, o.ai)
  <2>1. outcome = Built /\ VariantTyped
    BY DEF VariantInv, VariantTypeOK, VariantTyped
  <2>2. QED
    BY <2>1, OriginalIs DEF Built
<1>3. /\ Harder(d) \in Nat /\ Harder(d) >= d /\ (Harder(d) > d \/ d = 5)
      /\ Easier(d) \in Nat /\ Easier(d) <= d /\ (Easier(d) < d \/ d = 1)
  <2> HIDE DEF d
  <2>1. QED
    BY <1>1, StepsOfDifficulty
<1>4. /\ Halved(t) \in Nat /\ Halved(t) <= t /\ (Halved(t) < t \/ t = 5)
      /\ Doubled(t) \in Nat /\ Doubled(t) >= t /\ (Doubled(t) > t \/ t = 180)
  <2> HIDE DEF t
  <2>1. /\ Halved(t) \in 5 .. 180 /\ Halved(t) <= t /\ (Halved(t) < t \/ t = 5)
        /\ Doubled(t) \in 5 .. 180 /\ Doubled(t) >= t /\ (Doubled(t) > t \/ t = 180)
    BY <1>1, StepsOfDuration
  <2>2. \A x \in 5 .. 180 : x \in Nat
    OBVIOUS
  <2>3. QED
    BY <2>1, <2>2
<1> HIDE DEF d, t, e, u, kind
<1>5. CASE kind = "harder"
  <2>1. d <= e /\ (e > d \/ d = 5) /\ u = t /\ e \in Nat /\ d \in Nat /\ t \in Nat
    BY <1>1, <1>3, <1>5
  <2>2. after >= before
    BY <1>2, <2>1, RewardMonotone
  <2>3. QED
    BY <1>5, <2>1, <2>2, Zenon DEF VariantMovesItsDimension, d, t, e, u, kind
<1>6. CASE kind = "easier"
  <2>1. e <= d /\ (e < d \/ d = 1) /\ u = t /\ e \in Nat /\ d \in Nat /\ t \in Nat
    BY <1>1, <1>3, <1>6
  <2>2. after <= before
    BY <1>2, <2>1, RewardMonotone
  <2>3. QED
    BY <1>6, <2>1, <2>2, Zenon DEF VariantMovesItsDimension, d, t, e, u, kind
<1>7. CASE kind = "shorter"
  <2>1. e = d /\ (u < t \/ t = 5) /\ u <= t /\ u \in Nat /\ d \in Nat /\ t \in Nat
    BY <1>1, <1>4, <1>7
  <2>2. after <= before
    BY <1>2, <2>1, RewardMonotone
  <2>3. QED
    BY <1>7, <2>1, <2>2, Zenon DEF VariantMovesItsDimension, d, t, e, u, kind
<1>8. CASE kind = "longer"
  <2>1. e = d /\ (u > t \/ t = 180) /\ u >= t /\ u \in Nat /\ d \in Nat /\ t \in Nat
    BY <1>1, <1>4, <1>8
  <2>2. after >= before
    BY <1>2, <2>1, RewardMonotone
  <2>3. QED
    BY <1>8, <2>1, <2>2, Zenon DEF VariantMovesItsDimension, d, t, e, u, kind
<1>9. CASE kind \notin {"harder", "easier", "shorter", "longer"}
  <2>1. e = d /\ u = t
    BY <1>1, <1>9
  <2>2. after = before
    BY <1>2, <2>1
  <2>3. QED
    BY <1>9, <2>1, <2>2, Zenon DEF VariantMovesItsDimension, d, t, e, u, kind
<1>10. QED
  BY <1>5, <1>6, <1>7, <1>8, <1>9

LEMMA VariantInitInv == VariantInit \/ VariantIdle => VariantInv
BY DEF VariantInit, VariantIdle, VariantInv, VariantTypeOK

LEMMA VariantStepInv == VariantInv /\ [VariantNext]_variantVars => VariantInv'
<1> SUFFICES ASSUME VariantInv, [VariantNext]_variantVars PROVE VariantInv'
  OBVIOUS
<1> DEFINE Stages == {"idle", "received", "paid", "success", "declined", "aborted"}
<1>1. /\ variant' = variant
      /\ variant' \in Variants \/ variant' = NoVariant'
  <2>1. variant' = variant /\ NoVariant' = NoVariant
    BY DEF VariantNext, RefuseVariant, AskVariant, BuildVariant, UnreadableMeasures,
           variantVars, NoVariant
  <2>2. QED
    BY <2>1 DEF VariantInv, VariantTypeOK
<1>2. NoOutcome' = NoOutcome /\ NoAnswer' = NoAnswer
  BY DEF NoOutcome, NoAnswer
<1>0. told' \in ModelAnswers \cup {NoAnswer'} /\ variantStage' \in Stages
  BY <1>2 DEF VariantNext, RefuseVariant, AskVariant, BuildVariant, UnreadableMeasures,
              variantVars, VariantInv, VariantTypeOK
<1> HIDE DEF Stages
<1>3. CASE RefuseVariant \/ UnreadableMeasures
  <2>1. variantStage \in {"received", "paid"} /\ variantStage' # "success" /\ outcome' = outcome
    BY <1>3 DEF RefuseVariant, UnreadableMeasures
  <2>2. QED
    BY <1>0, <1>1, <1>2, <2>1 DEF VariantInv, VariantTypeOK, Stages
<1>4. CASE AskVariant
  <2>1. variantStage = "received" /\ variantStage' # "success" /\ outcome' = outcome
    BY <1>4 DEF AskVariant
  <2>2. QED
    BY <1>0, <1>1, <1>2, <2>1 DEF VariantInv, VariantTypeOK, Stages
<1>5. CASE BuildVariant
  <2>1. CASE Valid(Measures)
    <3>1. variantStage' = "success" /\ outcome' = Built /\ told' = told
      BY <1>5, <2>1 DEF BuildVariant, Built
    <3>2. Built' = Built
      BY <1>1, <3>1 DEF Built, Measures, Original
    <3>3. Valid(outcome)'
      BY <2>1, <3>1 DEF Valid, Built
    <3>4. outcome'.reward \in Nat
      <4>1. Measures.difficulty \in Nat /\ Measures.duration \in Nat
        BY <2>1 DEF Valid
      <4>2. QED
        BY <3>1, <4>1, RewardIsNumber DEF Built
    <3>5. QED
      BY <1>0, <1>1, <3>1, <3>2, <3>3, <3>4 DEF VariantInv, VariantTypeOK, Stages
  <2>2. CASE ~Valid(Measures)
    <3>1. variantStage = "paid" /\ variantStage' = "aborted" /\ outcome' = outcome
      BY <1>5, <2>2 DEF BuildVariant
    <3>2. QED
      BY <1>0, <1>1, <1>2, <3>1 DEF VariantInv, VariantTypeOK, Stages
  <2>3. QED
    BY <2>1, <2>2
<1>6. CASE UNCHANGED variantVars
  <2>1. UNCHANGED <<variant, told, outcome, variantStage>>
    BY <1>6 DEF variantVars
  <2>2. Built' = Built
    BY <2>1 DEF Built, Measures, Original
  <2>3. QED
    BY <1>0, <1>1, <1>2, <2>1, <2>2 DEF VariantInv, VariantTypeOK, Valid, Stages
<1>7. QED
  BY <1>3, <1>4, <1>5, <1>6 DEF VariantNext

LEMMA VariantInvHolds == VariantSpec => []VariantInv
<1>1. VariantInit => VariantInv
  BY VariantInitInv
<1>2. QED
  BY <1>1, VariantStepInv, PTL DEF VariantSpec

LEMMA PaidVariantStep ==
    ASSUME VariantInv, VariantNext, variantStage = "paid", told = NoAnswer, variant.target = {},
           Valid(Original)
    PROVE  variantStage' = "success"
<1>1. told.readable
  BY DEF NoAnswer
<1>2. BuildVariant
  BY <1>1 DEF VariantNext, RefuseVariant, AskVariant, UnreadableMeasures
<1>3. Valid(Measures)
  BY MeasuresOfKind DEF VariantInv, VariantTypeOK, VariantTyped
<1>4. QED
  BY <1>2, <1>3 DEF BuildVariant

LEMMA VariantMoves == VariantInv => VariantMovesItsDimension
<1>1. CASE variantStage = "success" /\ variant.target = {} /\ told = NoAnswer /\ Valid(Original)
  BY <1>1, SuccessMoves
<1>2. CASE ~(/\ variantStage = "success" /\ variant.target = {} /\ told = NoAnswer
             /\ Valid(Original))
  BY <1>2, Zenon DEF VariantMovesItsDimension
<1>3. QED
  BY <1>1, <1>2

(* A variant of any challenge moves the measure its kind names, the others stay, and the *)
(* reward that reward_fragments computes never goes against it: the integer divisions by *)
(* 15 and by 10 keep the order. *)
THEOREM VariantsMoveTheirDimension == VariantSpec => []VariantMovesItsDimension
<1>1. QED
  BY VariantMoves, VariantInvHolds, PTL

(* A variant that the model has been paid for is not refused by ChallengeParams, unless the  *)
(* client's target or the model's own measures are out of the bounds. *)
THEOREM PaidVariantsAlwaysCome == VariantSpec => PaidVariantsCome
<1>1. VariantInv /\ [VariantNext]_variantVars =>
         [variantStage = "paid" /\ told = NoAnswer /\ variant.target = {} /\ Valid(Original)
             => variantStage' = "success"]_variantVars
  BY PaidVariantStep
<1>2. QED
  BY <1>1, VariantInvHolds, PTL DEF VariantSpec, PaidVariantsCome

-----------------------------------------------------------------------------
(* The prompts of a challenge *)

Parameters == {Params(r) : r \in ChallengeRequest}

(* The fields of the parameters, whatever their values. *)
LEMMA ParametersAre ==
    ASSUME NEW p \in Parameters
    PROVE  DOMAIN p = {"domain", "difficulty", "duration", "mode", "tone", "ai", "language", "tags",
                       "programming", "orientation", "training", "project"}
<1>1. PICK r \in ChallengeRequest : p = Params(r)
  BY DEF Parameters
<1>2. DOMAIN r = {"domain", "difficulty", "duration", "mode", "tone", "ai", "language", "tags",
                  "programming", "orientation", "training", "project"}
  BY DEF ChallengeRequest
<1>3. DOMAIN Params(r) = DOMAIN r
  BY Zenon DEF Params
<1>4. QED
  BY <1>1, <1>2, <1>3

(* All of them but the tags are in the key as they are. *)
LEMMA KeyIs ==
    ASSUME NEW p \in Parameters
    PROVE  /\ CacheKey(p).tags = ToBag(p.tags)
           /\ \A field \in DOMAIN p : field # "tags" => CacheKey(p)[field] = p[field]
<1>1. "tags" \in DOMAIN p
  BY ParametersAre
<1>2. CacheKey(p) = [p EXCEPT !["tags"] = ToBag(p["tags"])]
  BY DEF CacheKey
<1>3. QED
  BY <1>1, <1>2

LEMMA SameKeySameFields ==
    ASSUME NEW p \in Parameters, NEW q \in Parameters, CacheKey(p) = CacheKey(q)
    PROVE  /\ p.domain = q.domain /\ p.difficulty = q.difficulty /\ p.duration = q.duration
           /\ p.mode = q.mode /\ p.tone = q.tone /\ p.ai = q.ai /\ p.language = q.language
           /\ p.programming = q.programming /\ p.orientation = q.orientation
           /\ p.training = q.training /\ p.project = q.project
           /\ ToBag(p.tags) = ToBag(q.tags)
<1>1. \A field \in DOMAIN p : field # "tags" => p[field] = q[field]
  BY KeyIs, ParametersAre
<1>2. DOMAIN p = {"domain", "difficulty", "duration", "mode", "tone", "ai", "language", "tags",
                  "programming", "orientation", "training", "project"}
  BY ParametersAre
<1>3. ToBag(p.tags) = ToBag(q.tags)
  BY KeyIs
<1>4. QED
  BY <1>1, <1>2, <1>3

(* The prompts and the metadata are made of the fields in the key, and of their tags in    *)
(* whatever order. *)
LEMMA SameKeySameChallenge ==
    ASSUME NEW p \in Parameters, NEW q \in Parameters, CacheKey(p) = CacheKey(q)
    PROVE  /\ UpToTagOrder(SystemPrompt(p)) = UpToTagOrder(SystemPrompt(q))
           /\ UpToTagOrder(UserPrompt(p)) = UpToTagOrder(UserPrompt(q))
           /\ Metadata(p) = Metadata(q)
<1>1. /\ p.domain = q.domain /\ p.difficulty = q.difficulty /\ p.duration = q.duration
      /\ p.mode = q.mode /\ p.tone = q.tone /\ p.ai = q.ai /\ p.language = q.language
      /\ p.programming = q.programming /\ p.orientation = q.orientation
      /\ p.training = q.training /\ p.project = q.project
      /\ ToBag(p.tags) = ToBag(q.tags)
  BY SameKeySameFields
<1>2. /\ EffectiveDifficulty(p) = EffectiveDifficulty(q) /\ Tongue(p) = Tongue(q)
      /\ Imposed(p) = Imposed(q)
  <2>1. EffectiveDifficulty(p) = EffectiveDifficulty(q)
    BY <1>1, Zenon DEF EffectiveDifficulty
  <2>2. Tongue(p) = Tongue(q)
    BY <1>1, Zenon DEF Tongue
  <2>3. Imposed(p) = Imposed(q)
    BY <1>1, Zenon DEF Imposed
  <2>4. QED
    BY <2>1, <2>2, <2>3
<1>3. SystemPrompt(p) = [SystemPrompt(q) EXCEPT !.tags = p.tags]
  <2> DEFINE domain(x) == IF x.domain \in Domains THEN x.domain ELSE "code"
             tone(x) == IF x.tone \in Tones THEN x.tone ELSE "serious"
             job(x) == IF x.orientation \in Orientations THEN x.orientation ELSE ""
             hidden(x) == IF EffectiveDifficulty(x) <= 3 THEN 2 ELSE 4
             record(x, tags) ==
                [language |-> Tongue(x), duration |-> x.duration,
                 difficulty |-> EffectiveDifficulty(x), hidden |-> hidden(x), mode |-> x.mode,
                 ai |-> x.ai, domain |-> domain(x), tone |-> tone(x), job |-> job(x),
                 training |-> x.training, project |-> x.project, imposed |-> Imposed(x),
                 tags |-> tags]
  <2>1. SystemPrompt(p) = record(p, p.tags) /\ SystemPrompt(q) = record(q, q.tags)
    BY Zenon DEF SystemPrompt
  <2>2. domain(p) = domain(q) /\ tone(p) = tone(q)
    BY <1>1, Zenon
  <2>3. job(p) = job(q)
    BY <1>1, Zenon
  <2>4. hidden(p) = hidden(q)
    BY <1>2, Zenon
  <2> HIDE DEF domain, tone, job, hidden
  <2>5. record(p, p.tags) = [record(q, q.tags) EXCEPT !.tags = p.tags]
    BY <1>1, <1>2, <2>2, <2>3, <2>4
  <2>6. QED
    BY <2>1, <2>5
<1>4. UserPrompt(p) = [UserPrompt(q) EXCEPT !.tags = p.tags]
  BY <1>1, <1>2 DEF UserPrompt
<1>5. \A x, t, u : "tags" \in DOMAIN x /\ x.tags = u /\ ToBag(t) = ToBag(u) =>
         UpToTagOrder([x EXCEPT !.tags = t]) = UpToTagOrder(x)
  BY DEF UpToTagOrder
<1>6. /\ "tags" \in DOMAIN SystemPrompt(q) /\ SystemPrompt(q).tags = q.tags
      /\ "tags" \in DOMAIN UserPrompt(q) /\ UserPrompt(q).tags = q.tags
  BY DEF SystemPrompt, UserPrompt
<1>7. UpToTagOrder(SystemPrompt(p)) = UpToTagOrder(SystemPrompt(q))
  BY <1>1, <1>3, <1>5, <1>6
<1>8. UpToTagOrder(UserPrompt(p)) = UpToTagOrder(UserPrompt(q))
  BY <1>1, <1>4, <1>5, <1>6
<1>9. Metadata(p) = Metadata(q)
  BY <1>1, Zenon DEF Metadata
<1>10. QED
  BY <1>7, <1>8, <1>9

-----------------------------------------------------------------------------
(* What a cache of challenges answers *)

(* A challenge that answers parameters p. *)
Fits(challenge, p) ==
    /\ UpToTagOrder(challenge.system) = UpToTagOrder(SystemPrompt(p))
    /\ UpToTagOrder(challenge.user) = UpToTagOrder(UserPrompt(p))
    /\ challenge.meta = Metadata(p)

PromptAnswers == {<<>>} \cup {<<Challenge(p)>> : p \in Parameters}

PromptInv ==
    /\ asks \in Seq(ChallengeRequest)
    /\ replies \in Seq(PromptAnswers)
    /\ PromptTypeOK
    /\ SameKeySamePrompt

(* What the cache has was written for the parameters of its key. *)
LEMMA StoredIs ==
    ASSUME PromptInv, NEW k \in DOMAIN stored
    PROVE  \E n \in 1 .. Len(replies) :
              /\ Params(asks[n]) \in Parameters
              /\ CacheKey(Params(asks[n])) = k /\ stored[k] = Challenge(Params(asks[n]))
<1>1. PICK n \in DOMAIN replies :
         k = CacheKey(Params(asks[n])) /\ stored[k] = Challenge(Params(asks[n]))
  BY DEF PromptInv, PromptTypeOK
<1>2. /\ asks \in Seq(ChallengeRequest) /\ Len(replies) \in Nat
      /\ DOMAIN replies = 1 .. Len(replies) /\ Len(replies) <= Len(asks)
  BY DEF PromptInv, PromptTypeOK
<1>3. n \in 1 .. Len(replies) /\ n \in 1 .. Len(asks)
  BY <1>1, <1>2
<1>4. asks[n] \in ChallengeRequest
  BY <1>2, <1>3
<1>5. Params(asks[n]) \in Parameters
  BY <1>4 DEF Parameters
<1>6. QED
  BY <1>1, <1>3, <1>5

LEMMA FitsSameKey ==
    ASSUME NEW p \in Parameters, NEW q \in Parameters, CacheKey(p) = CacheKey(q)
    PROVE  Fits(Challenge(p), q)
<1>1. /\ Challenge(p).system = SystemPrompt(p) /\ Challenge(p).user = UserPrompt(p)
      /\ Challenge(p).meta = Metadata(p)
  BY DEF Challenge
<1>2. QED
  BY <1>1, SameKeySameChallenge DEF Fits

LEMMA CurrentIsParameters ==
    ASSUME PromptInv, Asking
    PROVE  Current \in Parameters
<1>1. Len(replies) + 1 \in 1 .. Len(asks) /\ asks \in Seq(ChallengeRequest)
  BY DEF PromptInv, PromptTypeOK, Asking
<1>2. asks[Len(replies) + 1] \in ChallengeRequest
  BY <1>1
<1>3. QED
  BY <1>2 DEF Current, Parameters

(* An answer that fits its request leaves every earlier one as it was, and the cache with    *)
(* what was written for it or for them. *)
LEMMA AnswerKeeps ==
    ASSUME PromptInv, Asking, NEW reply \in PromptAnswers, asks' = asks,
           replies' = Append(replies, reply),
           \A challenge \in Range(reply) : Fits(challenge, Current),
           \/ reply = <<>>
           \/ \E m \in 1 .. Len(replies) + 1 : reply = <<Challenge(Params(asks[m]))>>,
           \/ stored' = stored
           \/ stored' = [x \in DOMAIN stored \cup {CacheKey(Current)} |->
                            IF x = CacheKey(Current) THEN Challenge(Current) ELSE stored[x]]
    PROVE  PromptInv'
<1> DEFINE n == Len(replies)
<1>1. /\ asks \in Seq(ChallengeRequest) /\ replies \in Seq(PromptAnswers)
      /\ n \in Nat /\ n < Len(asks)
  BY DEF PromptInv, Asking
<1> HIDE DEF PromptAnswers
<1>2. /\ replies' \in Seq(PromptAnswers) /\ Len(replies') = n + 1
      /\ DOMAIN replies = 1 .. n /\ DOMAIN replies' = 1 .. n + 1
      /\ \A i \in 1 .. n : replies'[i] = replies[i]
      /\ replies'[n + 1] = reply
  BY <1>1
<1>3. \A i \in DOMAIN replies' : \A challenge \in Range(replies'[i]) :
         Fits(challenge, Params(asks[i]))
  <2>1. SUFFICES ASSUME NEW i \in 1 .. n + 1, NEW challenge \in Range(replies'[i])
                 PROVE  Fits(challenge, Params(asks[i]))
    BY <1>2
  <2>2. CASE i = n + 1
    <3>1. Current = Params(asks[i])
      BY <2>2 DEF Current
    <3>2. QED
      BY <1>2, <2>1, <2>2, <3>1
  <2>3. CASE i \in 1 .. n
    <3>1. challenge \in Range(replies[i]) /\ i \in DOMAIN replies
      BY <1>2, <2>1, <2>3
    <3>2. QED
      BY <3>1 DEF PromptInv, SameKeySamePrompt, Fits
  <2>4. QED
    BY <1>1, <2>1, <2>2, <2>3
<1>4. SameKeySamePrompt'
  BY <1>3 DEF SameKeySamePrompt, Fits
<1>5. Current = Params(asks[n + 1])
  BY DEF Current
<1>6. ASSUME NEW k \in DOMAIN stored'
      PROVE  \E i \in DOMAIN replies' :
                k = CacheKey(Params(asks[i])) /\ stored'[k] = Challenge(Params(asks[i]))
  <2>1. CASE k \in DOMAIN stored /\ stored'[k] = stored[k]
    <3>1. PICK i \in 1 .. n :
             CacheKey(Params(asks[i])) = k /\ stored[k] = Challenge(Params(asks[i]))
      BY <2>1, StoredIs
    <3>2. i \in DOMAIN replies'
      BY <1>1, <1>2, <3>1
    <3>3. QED
      BY <2>1, <3>1, <3>2
  <2>2. CASE k = CacheKey(Current) /\ stored'[k] = Challenge(Current)
    <3>1. n + 1 \in DOMAIN replies'
      BY <1>1, <1>2
    <3>2. QED
      BY <1>5, <2>2, <3>1
  <2>3. QED
    BY <1>6, <2>1, <2>2
<1>7. ASSUME NEW i \in DOMAIN replies'
      PROVE  replies'[i] = <<>> \/ \E m \in 1 .. i : replies'[i] = <<Challenge(Params(asks[m]))>>
  <2>1. CASE i = n + 1
    BY <1>2, <2>1
  <2>2. CASE i \in 1 .. n
    BY <1>2, <2>2 DEF PromptInv, PromptTypeOK
  <2>3. QED
    BY <1>1, <1>2, <2>1, <2>2
<1>8. asks' \in Asks \/ asks' = <<>>
  BY DEF PromptInv, PromptTypeOK
<1>9. Len(replies') <= Len(asks')
  BY <1>1, <1>2
<1>10. PromptTypeOK'
  BY <1>6, <1>7, <1>8, <1>9 DEF PromptTypeOK
<1>11. QED
  BY <1>1, <1>2, <1>4, <1>10 DEF PromptInv

LEMMA PromptInitInv == PromptInit \/ PromptIdle => PromptInv
<1> SUFFICES ASSUME PromptInit \/ PromptIdle PROVE PromptInv
  OBVIOUS
<1>1. stored = <<>> /\ replies = <<>>
  BY DEF PromptInit, PromptIdle
<1>2. asks \in Seq(ChallengeRequest)
  <2>1. CASE PromptInit
    BY <2>1, AsksAssumption DEF PromptInit
  <2>2. CASE PromptIdle
    <3>1. \A S : <<>> \in Seq(S)
      OBVIOUS
    <3>2. asks = <<>>
      BY <2>2 DEF PromptIdle
    <3>3. QED
      BY <3>1, <3>2
  <2>3. QED
    BY <2>1, <2>2
<1>3. Len(asks) \in Nat
  BY <1>2
<1>4. /\ \A S : <<>> \in Seq(S)
      /\ Len(<<>>) = 0 /\ DOMAIN <<>> = {}
  OBVIOUS
<1>5. replies \in Seq(PromptAnswers) /\ Len(replies) <= Len(asks)
  BY <1>1, <1>3, <1>4
<1>6. SameKeySamePrompt
  BY <1>1, <1>4 DEF SameKeySamePrompt
<1>7. PromptTypeOK
  <2>1. asks \in Asks \/ asks = <<>>
    BY DEF PromptInit, PromptIdle
  <2>2. QED
    BY <1>1, <1>4, <1>5, <2>1 DEF PromptTypeOK
<1>8. QED
  BY <1>2, <1>5, <1>6, <1>7 DEF PromptInv

LEMMA PromptStepInv == PromptInv /\ [PromptNext]_promptVars => PromptInv'
<1> SUFFICES ASSUME PromptInv, [PromptNext]_promptVars PROVE PromptInv'
  OBVIOUS
<1>1. Range(<<>>) = {} /\ \A x : Range(<<x>>) = {x}
  BY RangeIs
<1>2. CASE DeclineChallenge
  <2>1. Asking /\ replies' = Append(replies, <<>>) /\ asks' = asks /\ stored' = stored
    BY <1>2 DEF DeclineChallenge
  <2>2. <<>> \in PromptAnswers
    BY DEF PromptAnswers
  <2>3. QED
    BY <1>1, <2>1, <2>2, AnswerKeeps
<1>3. CASE ServeCached
  <2> DEFINE k == CacheKey(Current)
  <2>1. Asking /\ replies' = Append(replies, <<stored[k]>>) /\ asks' = asks /\ stored' = stored
        /\ k \in DOMAIN stored
    BY <1>3 DEF ServeCached
  <2>2. PICK m \in 1 .. Len(replies) :
           /\ Params(asks[m]) \in Parameters
           /\ CacheKey(Params(asks[m])) = k /\ stored[k] = Challenge(Params(asks[m]))
    BY <2>1, StoredIs
  <2>3. <<stored[k]>> \in PromptAnswers
    BY <2>2 DEF PromptAnswers
  <2>4. Fits(stored[k], Current)
    BY <2>1, <2>2, CurrentIsParameters, FitsSameKey
  <2>5. m \in 1 .. Len(replies) + 1
    BY <2>2 DEF PromptInv
  <2> HIDE DEF k
  <2>6. QED
    BY <1>1, <2>1, <2>2, <2>3, <2>4, <2>5, AnswerKeeps
<1>4. CASE GenerateChallenge
  <2> DEFINE p == Current
             k == CacheKey(p)
             c == Challenge(p)
  <2>1. /\ Asking /\ replies' = Append(replies, <<c>>) /\ asks' = asks
        /\ \/ stored' = [x \in DOMAIN stored \cup {k} |-> IF x = k THEN c ELSE stored[x]]
           \/ stored' = stored
    BY <1>4 DEF GenerateChallenge
  <2>2. p \in Parameters /\ Fits(c, p)
    BY <2>1, CurrentIsParameters, FitsSameKey
  <2>3. <<c>> \in PromptAnswers
    BY <2>2 DEF PromptAnswers
  <2> HIDE DEF p, k, c
  <2>5. \A challenge \in Range(<<c>>) : Fits(challenge, Current)
    BY <1>1, <2>2 DEF p
  <2>6. Len(replies) + 1 \in 1 .. Len(replies) + 1 /\ c = Challenge(Params(asks[Len(replies) + 1]))
    BY DEF PromptInv, c, p, Current
  <2>7. QED
    BY <2>1, <2>3, <2>5, <2>6, AnswerKeeps DEF c, k, p
<1>5. CASE UNCHANGED promptVars
  BY <1>5 DEF promptVars, PromptInv, PromptTypeOK, SameKeySamePrompt
<1>6. QED
  BY <1>2, <1>3, <1>4, <1>5 DEF PromptNext

LEMMA PromptInvHolds == PromptSpec => []PromptInv
<1>1. PromptInit => PromptInv
  BY PromptInitInv
<1>2. QED
  BY <1>1, PromptStepInv, PTL DEF PromptSpec

(* GenerateChallenge answers with a challenge written to the prompts of the request, but for *)
(* the order of its tags, whatever the requests before it have left in the cache: the key    *)
(* leaves out nothing that a prompt or the metadata depends on. *)
THEOREM ChallengesFitTheirPrompts == PromptSpec => []SameKeySamePrompt
<1>1. PromptInv => SameKeySamePrompt
  BY DEF PromptInv
<1>2. QED
  BY <1>1, PromptInvHolds, PTL

-----------------------------------------------------------------------------
(* The semantic scores of a search *)

(* How every profile of search s is compared once the model has been tried. *)
Way(s) == IF searches[s].job # Blank /\ encoder = "ready" THEN "vectors" ELSE "shingles"

(* There is no vector without a model, and no score before it has been tried: a profile is   *)
(* never blank, so that its first one tries it. *)
MatcherInv ==
    /\ searches \in Seq(Search) /\ (searches \in Searches \/ searches = <<>>)
    /\ ways \in [DOMAIN searches -> Seq({"vectors", "shingles"})]
    /\ \A s \in DOMAIN searches : Len(ways[s]) <= Len(searches[s].profiles)
    /\ encoder \in {"untried", "ready", "none"}
    /\ IsFiniteSet(encoded) /\ Cardinality(encoded) <= CacheCap /\ Blank \notin encoded
    /\ encoded # {} => encoder = "ready"
    /\ broken \subseteq DOMAIN searches
    /\ \A s \in DOMAIN searches : \A n \in DOMAIN ways[s] :
          encoder # "untried" /\ ways[s][n] = Way(s)

CacheOK(texts) == IsFiniteSet(texts) /\ Cardinality(texts) <= CacheCap /\ Blank \notin texts

LEMMA KeptOK ==
    ASSUME NEW texts, NEW t, CacheOK(texts), t # Blank
    PROVE  CacheOK(Kept(texts, t))
<1>1. CASE Cardinality(texts) < CacheCap
  <2>1. Kept(texts, t) = texts \cup {t}
    BY <1>1 DEF Kept
  <2>2. IsFiniteSet(texts \cup {t}) /\ Blank \notin texts \cup {t}
    BY FS_AddElement DEF CacheOK
  <2>3. Cardinality(texts) \in Nat
    BY FS_CardinalityType DEF CacheOK
  <2>4. Cardinality(texts \cup {t}) <= CacheCap
    <3> DEFINE c == Cardinality(texts)
    <3>1. Cardinality(texts \cup {t}) = c \/ Cardinality(texts \cup {t}) = c + 1
      BY FS_AddElement DEF CacheOK
    <3>2. c < CacheCap /\ c \in Nat /\ CacheCap \in Nat
      BY <1>1, <2>3, MatcherAssumption
    <3> HIDE DEF c
    <3>3. QED
      BY <3>1, <3>2
  <2>5. QED
    BY <2>1, <2>2, <2>4 DEF CacheOK
<1>2. CASE ~(Cardinality(texts) < CacheCap)
  BY <1>2 DEF Kept
<1>3. QED
  BY <1>1, <1>2

LEMMA RememberedOK ==
    ASSUME NEW s, CacheOK(encoded)
    PROVE  CacheOK(Remembered(s))
<1> DEFINE first == IF NeedsModel(searches[s].job) THEN Kept(encoded, searches[s].job) ELSE encoded
<1>1. CacheOK(first)
  BY KeptOK DEF NeedsModel
<1> HIDE DEF first
<1>2. NeedsModel(Profile(s)) => CacheOK(Kept(first, Profile(s)))
  BY <1>1, KeptOK DEF NeedsModel
<1>3. Remembered(s) = IF NeedsModel(Profile(s)) THEN Kept(first, Profile(s)) ELSE first
  BY DEF Remembered, first
<1>4. QED
  BY <1>1, <1>2, <1>3

LEMMA ProfileIs ==
    ASSUME MatcherInv, NEW s \in DOMAIN searches, Now(s)
    PROVE  Profile(s) # Blank /\ Len(ways[s]) \in Nat /\ Len(ways[s]) < Len(searches[s].profiles)
<1> DEFINE P == {t \in STRING : t # Blank}
           profiles == searches[s].profiles
           n == Len(ways[s])
<1>1. searches[s] \in Search
  BY DEF MatcherInv
<1>2. profiles \in Seq(P)
  BY <1>1 DEF Search
<1>3. n \in Nat /\ n < Len(profiles)
  BY DEF MatcherInv, Now, Open
<1>4. \A t \in P : t # Blank
  OBVIOUS
<1> HIDE DEF P, profiles, n
<1>5. profiles[n + 1] \in P
  BY <1>2, <1>3
<1>6. QED
  BY <1>3, <1>4, <1>5 DEF Profile, profiles, n

LEMMA ScoreProfileKeeps ==
    ASSUME MatcherInv, NEW s \in DOMAIN searches, ScoreProfile(s)
    PROVE  MatcherInv'
<1> DEFINE way == IF Vector(searches[s].job) /\ Vector(Profile(s)) THEN "vectors" ELSE "shingles"
           W == {"vectors", "shingles"}
           n == Len(ways[s])
<1>1. /\ searches' = searches /\ broken' = broken /\ Now(s)
      /\ encoded' = IF encoder' = "ready" THEN Remembered(s) ELSE encoded
      /\ encoder' \in (IF NeedsModel(searches[s].job) \/ NeedsModel(Profile(s)) THEN Loaded
                                                                               ELSE {encoder})
  BY DEF ScoreProfile
<1>2. Profile(s) # Blank /\ n \in Nat /\ n < Len(searches[s].profiles)
  BY <1>1, ProfileIs
<1>3. CacheOK(encoded) /\ (encoded # {} => encoder = "ready")
  BY DEF MatcherInv, CacheOK
<1>4. encoder' \in {"ready", "none"} /\ (encoder # "untried" => encoder' = encoder)
  <2>1. CASE encoder = "untried"
    <3>1. NeedsModel(Profile(s))
      BY <1>2, <1>3, <2>1 DEF NeedsModel
    <3>2. QED
      BY <1>1, <2>1, <3>1 DEF Loaded
  <2>2. CASE encoder # "untried"
    <3>1. encoder' = encoder
      BY <1>1, <2>2 DEF Loaded
    <3>2. QED
      BY <2>2, <3>1 DEF MatcherInv
  <2>3. QED
    BY <2>1, <2>2
<1>5. CacheOK(encoded') /\ (encoded' # {} => encoder' = "ready")
  <2>1. CASE encoder' = "ready"
    BY <1>1, <1>3, <2>1, RememberedOK
  <2>2. CASE encoder' # "ready"
    BY <1>1, <1>3, <1>4, <2>2
  <2>3. QED
    BY <2>1, <2>2
<1>6. way = IF searches[s].job # Blank /\ encoder' = "ready" THEN "vectors" ELSE "shingles"
  <2>1. \A t : Vector(t) <=> t # Blank /\ encoder' = "ready"
    BY <1>3, <1>4 DEF Vector
  <2>2. QED
    BY <1>2, <2>1
<1>7. /\ ways \in [DOMAIN searches -> Seq(W)]
      /\ ways' = [ways EXCEPT ![s] = Append(ways[s], way)] /\ way \in W
  BY DEF ScoreProfile, MatcherInv
<1> HIDE DEF way, W
<1>8. /\ Append(ways[s], way) \in Seq(W) /\ Len(Append(ways[s], way)) = n + 1
      /\ DOMAIN ways[s] = 1 .. n /\ DOMAIN Append(ways[s], way) = 1 .. n + 1
      /\ \A i \in 1 .. n : Append(ways[s], way)[i] = ways[s][i]
      /\ Append(ways[s], way)[n + 1] = way
  <2>1. ways[s] \in Seq(W) /\ way \in W
    BY <1>7
  <2>2. QED
    BY <2>1
<1>9. /\ ways' \in [DOMAIN searches' -> Seq(W)]
      /\ ways'[s] = Append(ways[s], way)
      /\ \A j \in DOMAIN searches : j # s => ways'[j] = ways[j]
  BY <1>1, <1>7, <1>8
<1>10. \A j \in DOMAIN searches' : Len(ways'[j]) <= Len(searches'[j].profiles)
  <2>1. SUFFICES ASSUME NEW j \in DOMAIN searches PROVE Len(ways'[j]) <= Len(searches[j].profiles)
    BY <1>1
  <2>2. CASE j = s
    <3>1. Len(ways'[j]) = n + 1
      BY <1>8, <1>9, <2>2
    <3>2. Len(searches[s].profiles) \in Nat
      <4>1. searches[s] \in Search
        BY DEF MatcherInv
      <4>2. QED
        BY <4>1 DEF Search
    <3>3. QED
      BY <1>2, <2>2, <3>1, <3>2
  <2>3. CASE j # s
    BY <1>9, <2>3 DEF MatcherInv
  <2>4. QED
    BY <2>2, <2>3
<1>11. ASSUME NEW j \in DOMAIN searches, NEW i \in DOMAIN ways'[j]
       PROVE  ways'[j][i] = IF searches[j].job # Blank /\ encoder' = "ready" THEN "vectors"
                                                                           ELSE "shingles"
  <2>1. CASE j = s /\ i = n + 1
    BY <1>6, <1>8, <1>9, <2>1
  <2>2. CASE ~(j = s /\ i = n + 1)
    <3>1. i \in DOMAIN ways[j] /\ ways'[j][i] = ways[j][i]
      <4>1. CASE j = s
        <5>1. i \in 1 .. n + 1 /\ i # n + 1
          BY <1>8, <1>9, <2>2, <4>1
        <5>2. i \in 1 .. n
          BY <1>2, <5>1
        <5>3. QED
          BY <1>8, <1>9, <4>1, <5>2
      <4>2. CASE j # s
        BY <1>9, <4>2
      <4>3. QED
        BY <4>1, <4>2
    <3>2. encoder # "untried" /\ ways[j][i] = Way(j)
      BY <3>1 DEF MatcherInv
    <3>3. QED
      BY <1>4, <3>1, <3>2 DEF Way
  <2>3. QED
    BY <2>1, <2>2
<1>12. \A j \in DOMAIN searches' : \A i \in DOMAIN ways'[j] :
          encoder' # "untried" /\ ways'[j][i] = Way(j)'
  BY <1>1, <1>4, <1>11 DEF Way
<1>13. QED
  BY <1>1, <1>4, <1>5, <1>9, <1>10, <1>12 DEF MatcherInv, CacheOK, W

LEMMA EncodeRaisesKeeps ==
    ASSUME MatcherInv, NEW s \in DOMAIN searches, EncodeRaises(s)
    PROVE  MatcherInv'
<1>1. /\ searches' = searches /\ ways' = ways /\ broken' = broken \cup {s}
      /\ encoder' \in Loaded /\ encoder' = "ready"
      /\ encoded' = encoded \/ (NeedsModel(searches[s].job)
                                /\ encoded' = Kept(encoded, searches[s].job))
  BY DEF EncodeRaises
<1>2. CacheOK(encoded)
  BY DEF MatcherInv, CacheOK
<1>3. CacheOK(encoded')
  BY <1>1, <1>2, KeptOK DEF NeedsModel
<1>4. encoder # "untried" => encoder' = encoder
  BY <1>1 DEF Loaded
<1>5. \A j \in DOMAIN searches : \A i \in DOMAIN ways[j] :
         encoder' # "untried" /\ ways[j][i] = Way(j)'
  BY <1>1, <1>4 DEF MatcherInv, Way
<1>6. QED
  BY <1>1, <1>3, <1>5 DEF MatcherInv, CacheOK

LEMMA MatcherInitInv == MatcherInit \/ MatcherIdle => MatcherInv
<1> SUFFICES ASSUME MatcherInit \/ MatcherIdle PROVE MatcherInv
  OBVIOUS
<1>1. encoder = "untried" /\ encoded = {} /\ broken = {}
  BY DEF MatcherInit, MatcherIdle
<1>2. /\ searches \in Seq(Search) /\ (searches \in Searches \/ searches = <<>>)
      /\ ways = [s \in DOMAIN searches |-> <<>>]
  <2>1. CASE MatcherInit
    BY <2>1, MatcherAssumption DEF MatcherInit
  <2>2. CASE MatcherIdle
    <3>1. searches = <<>> /\ ways = <<>>
      BY <2>2 DEF MatcherIdle
    <3>2. \A S : <<>> \in Seq(S)
      OBVIOUS
    <3>3. <<>> = [s \in DOMAIN <<>> |-> <<>>]
      OBVIOUS
    <3>4. QED
      BY <3>1, <3>2, <3>3
  <2>3. QED
    BY <2>1, <2>2
<1>3. ways \in [DOMAIN searches -> Seq({"vectors", "shingles"})]
  <2>1. \A S : <<>> \in Seq(S)
    OBVIOUS
  <2>2. QED
    BY <1>2, <2>1
<1>4. \A s \in DOMAIN searches : Len(ways[s]) <= Len(searches[s].profiles)
  <2>1. ASSUME NEW s \in DOMAIN searches PROVE Len(searches[s].profiles) \in Nat
    <3>1. searches[s] \in Search
      BY <1>2
    <3>2. QED
      BY <3>1 DEF Search
  <2>2. \A s \in DOMAIN searches : Len(ways[s]) = 0
    BY <1>2
  <2>3. QED
    BY <2>1, <2>2
<1>5. IsFiniteSet(encoded) /\ Cardinality(encoded) <= CacheCap
  BY <1>1, FS_EmptySet, MatcherAssumption
<1>6. \A s \in DOMAIN searches : DOMAIN ways[s] = {}
  BY <1>2
<1>7. QED
  BY <1>1, <1>2, <1>3, <1>4, <1>5, <1>6 DEF MatcherInv

LEMMA MatcherStepInv == MatcherInv /\ [MatcherNext]_matcherVars => MatcherInv'
<1> SUFFICES ASSUME MatcherInv, [MatcherNext]_matcherVars PROVE MatcherInv'
  OBVIOUS
<1>1. CASE MatcherNext
  BY <1>1, ScoreProfileKeeps, EncodeRaisesKeeps DEF MatcherNext
<1>2. CASE UNCHANGED matcherVars
  BY <1>2 DEF matcherVars, MatcherInv, Way
<1>3. QED
  BY <1>1, <1>2

LEMMA MatcherInvHolds == MatcherSpec => []MatcherInv
<1>1. MatcherInit => MatcherInv
  BY MatcherInitInv
<1>2. QED
  BY <1>1, MatcherStepInv, PTL DEF MatcherSpec

(* The talents of a search are all compared by vectors or all by shingles: a model that      *)
(* does not load leaves no vector behind, and one that does gives one to every text that     *)
(* is not blank, however many of them the cache can keep. *)
THEOREM TalentsAreScoredAlike == MatcherSpec => []ScoredAlike
<1>1. MatcherInv => ScoredAlike
  BY DEF MatcherInv, ScoredAlike
<1>2. QED
  BY <1>1, MatcherInvHolds, PTL

-----------------------------------------------------------------------------
(* The filter of a career path *)

(* The heads of a list are filtered one after the other, so that the recursive definition *)
(* defines what is left of it: slugs of the catalogue. *)
LEMMA ListedIsInCatalogue ==
    ASSUME NEW slugs \in Seq(STRING)
    PROVE  Listed(slugs) \in Seq(Orientations)
<1> DEFINE L == Len(slugs)
           Step(h, n) == IF n = 0 THEN <<>>
                         ELSE IF InCatalogue(slugs[n]) THEN Append(h[n - 1], slugs[n]) ELSE h[n - 1]
           IsListed(h, n) == h = [k \in 0 .. n |-> Step(h, k)]
           Holds == {n \in Nat : \E h : IsListed(h, n)}
<1>1. L \in Nat
  OBVIOUS
<1> HIDE DEF L
<1>2. 0 \in Holds
  <2> DEFINE h == [k \in 0 .. 0 |-> <<>>]
  <2>1. h = [k \in 0 .. 0 |-> Step(h, k)]
    OBVIOUS
  <2>2. QED
    BY <2>1
<1>3. ASSUME NEW n \in 1 .. L, n - 1 \in Holds
      PROVE  n \in Holds
  <2>1. PICK h : IsListed(h, n - 1)
    BY <1>3
  <2> DEFINE g == [k \in 0 .. n |-> IF k = n THEN Step(h, n) ELSE h[k]]
  <2>2. \A k \in 0 .. n - 1 : h[k] = Step(h, k)
    BY <2>1, Zenon
  <2> HIDE DEF IsListed
  <2>3. ASSUME NEW k \in 0 .. n PROVE g[k] = Step(g, k)
    <3>1. ASSUME k # 0 PROVE g[k - 1] = h[k - 1]
      BY <1>1, <3>1
    <3>2. k = n => k # 0
      BY <1>1
    <3>3. k # n => k \in 0 .. n - 1
      BY <1>1
    <3>4. g[k] = IF k = n THEN Step(h, n) ELSE h[k]
      OBVIOUS
    <3> HIDE DEF g
    <3>5. CASE k = 0
      BY <2>2, <3>2, <3>3, <3>4, <3>5
    <3>6. CASE k # 0
      <4>1. Step(g, k) = Step(h, k)
        BY <3>1, <3>6, Zenon
      <4>2. g[k] = Step(h, k)
        BY <2>2, <3>3, <3>4, Zenon
      <4>3. QED
        BY <4>1, <4>2
    <3>7. QED
      BY <3>5, <3>6
  <2>4. g = [k \in 0 .. n |-> g[k]]
    OBVIOUS
  <2> HIDE DEF g
  <2>5. g = [k \in 0 .. n |-> Step(g, k)]
    BY <2>3, <2>4
  <2>6. n \in Nat /\ IsListed(g, n)
    <3>1. IsListed(g, n)
      BY <2>5, Zenon DEF IsListed
    <3>2. n \in Nat
      BY <1>1
    <3>3. QED
      BY <3>1, <3>2
  <2>7. QED
    BY <2>6
<1>4. L \in Holds
  <2>1. Holds \in SUBSET Nat
    OBVIOUS
  <2> HIDE DEF Holds
  <2>2. 0 .. L \subseteq Holds
    BY <1>1, <1>2, <1>3, <2>1, UpTo
  <2>3. QED
    BY <1>1, <2>2
<1> DEFINE f == CHOOSE h : IsListed(h, L)
<1>5. IsListed(f, L)
  <2>1. \E h : IsListed(h, L)
    BY <1>4
  <2> HIDE DEF IsListed
  <2>2. QED
    BY <2>1
<1>6. Listed(slugs) = f[L]
  BY Zenon DEF Listed, L
<1> HIDE DEF f
<1>7. \A k \in 0 .. L : f[k] = Step(f, k)
  BY <1>5, Zenon
<1> HIDE DEF IsListed
<1>8. f[L] \in Seq(Orientations)
  <2> DEFINE N == {k \in Nat : f[k] \in Seq(Orientations)}
  <2>1. 0 \in N
    <3>1. f[0] = <<>>
      BY <1>1, <1>7
    <3>2. \A S : <<>> \in Seq(S)
      OBVIOUS
    <3>3. f[0] \in Seq(Orientations)
      BY <3>1, <3>2
    <3>4. QED
      BY <3>3
  <2>2. ASSUME NEW k \in 1 .. L, k - 1 \in N PROVE k \in N
    <3>1. k \in 0 .. L /\ k # 0 /\ k \in Nat /\ f[k - 1] \in Seq(Orientations)
      BY <1>1, <2>2
    <3>2. f[k] = IF InCatalogue(slugs[k]) THEN Append(f[k - 1], slugs[k]) ELSE f[k - 1]
      BY <1>7, <3>1, Zenon
    <3>3. \A s \in Seq(Orientations), x \in Orientations : Append(s, x) \in Seq(Orientations)
      OBVIOUS
    <3>4. f[k] \in Seq(Orientations)
      BY <3>1, <3>2, <3>3 DEF InCatalogue
    <3>5. QED
      BY <3>1, <3>4
  <2>3. N \in SUBSET Nat
    OBVIOUS
  <2> HIDE DEF N
  <2>4. 0 .. L \subseteq N
    BY <1>1, <2>1, <2>2, <2>3, UpTo
  <2>5. QED
    BY <1>1, <2>4 DEF N
<1>9. QED
  BY <1>6, <1>8

CareerInv ==
    /\ CareerTypeOK
    /\ careerStage = "advised" => advice \in Advice
    /\ careerStage = "answered" /\ profile.skilled =>
          /\ path.suggestions \in Seq(Orientations) /\ path.secondary \in Seq(Orientations)
          /\ path.primary \in Orientations \cup {""}
          /\ path.suggestions # <<>> => path.primary \in Orientations

LEMMA CareerInitInv == CareerInit \/ CareerIdle => CareerInv
<1> SUFFICES ASSUME CareerInit \/ CareerIdle PROVE CareerInv
  OBVIOUS
<1>1. /\ profile \in Profiles \/ profile = NoProfile
      /\ advice = NoPath /\ path = NoPath
      /\ careerStage \in {"idle", "received"}
  BY DEF CareerInit, CareerIdle
<1>2. careerStage # "answered" /\ careerStage # "advised"
  BY <1>1
<1>3. CareerTypeOK
  <2>1. careerStage \in {"idle", "received", "advised", "answered", "aborted"}
    BY <1>1
  <2>2. QED
    BY <1>1, <2>1, Zenon DEF CareerTypeOK
<1>4. QED
  BY <1>2, <1>3, Zenon DEF CareerInv

(* A path as the catalogue allows it. *)
CataloguePaths ==
    [suggestions : Seq(Orientations), primary : Orientations \cup {""}, secondary : Seq(Orientations)]

LEMMA CareerTyped ==
    ASSUME profile' \in Profiles \/ profile' = NoProfile,
           advice' \in Advice \/ advice' = NoPath,
           careerStage' \in {"idle", "received", "advised", "answered", "aborted"},
           careerStage' # "answered" => path' = NoPath,
           path' \in {NoPath, FirstPath} \/ path' \in CataloguePaths
    PROVE  CareerTypeOK'
<1>1. NoPath' = NoPath /\ FirstPath' = FirstPath /\ NoProfile' = NoProfile
  BY Zenon DEF NoPath, FirstPath, NoProfile
<1>2. QED
  BY <1>1, Zenon DEF CareerTypeOK, CataloguePaths

(* The path that the answer of the model is filtered to. *)
LEMMA FilteredPath ==
    ASSUME advice \in Advice
    PROVE  /\ Suggested \in Seq(Orientations) /\ Listed(advice.secondary) \in Seq(Orientations)
           /\ Primary \in Orientations \cup {""}
           /\ Suggested # <<>> => Primary \in Orientations
<1> DEFINE slugs == [n \in DOMAIN advice.suggestions |-> advice.suggestions[n].slug]
           Suggestion == [slug : STRING, fit : BOOLEAN]
<1>1. advice.suggestions \in Seq(Suggestion) /\ advice.secondary \in Seq(STRING)
  BY CareerAssumption
<1>2. slugs \in Seq(STRING)
  <2> DEFINE s == advice.suggestions
             n == Len(s)
  <2>1. n \in Nat /\ DOMAIN s = 1 .. n /\ \A i \in 1 .. n : s[i] \in Suggestion
    <3>1. \A S : \A t \in Seq(S) :
             Len(t) \in Nat /\ DOMAIN t = 1 .. Len(t) /\ \A i \in 1 .. Len(t) : t[i] \in S
      OBVIOUS
    <3> HIDE DEF Suggestion
    <3>2. QED
      BY <1>1, <3>1
  <2>2. \A x \in Suggestion : x.slug \in STRING
    OBVIOUS
  <2> HIDE DEF Suggestion, s, n
  <2>3. slugs = [i \in 1 .. n |-> s[i].slug] /\ \A i \in 1 .. n : s[i].slug \in STRING
    BY <2>1, <2>2 DEF s
  <2> HIDE DEF slugs
  <2>4. QED
    BY <2>1, <2>3
<1>3. Suggested \in Seq(Orientations) /\ Listed(advice.secondary) \in Seq(Orientations)
  <2>1. Suggested = Listed(slugs)
    BY DEF Suggested
  <2> HIDE DEF slugs
  <2>2. QED
    BY <1>1, <1>2, <2>1, ListedIsInCatalogue
<1>4. Suggested # <<>> => Head(Suggested) \in Orientations
  <2>1. \A S : \A s \in Seq(S) : s # <<>> => Head(s) \in S
    OBVIOUS
  <2>2. QED
    BY <1>3, <2>1
<1>5. CASE InCatalogue(advice.primary)
  <2>1. Primary = advice.primary /\ Primary \in Orientations
    BY <1>5, Zenon DEF Primary, InCatalogue
  <2>2. QED
    BY <1>3, <2>1
<1>6. CASE ~InCatalogue(advice.primary) /\ Suggested # <<>>
  <2>1. Primary = Head(Suggested)
    BY <1>6, Zenon DEF Primary
  <2>2. QED
    BY <1>3, <1>4, <1>6, <2>1
<1>7. CASE ~InCatalogue(advice.primary) /\ Suggested = <<>>
  <2>1. Primary = ""
    BY <1>7, Zenon DEF Primary
  <2>2. QED
    BY <1>3, <1>7, <2>1, Zenon
<1>8. QED
  BY <1>5, <1>6, <1>7

LEMMA CareerStepInv == CareerInv /\ [CareerNext]_careerVars => CareerInv'
<1> SUFFICES ASSUME CareerInv, [CareerNext]_careerVars PROVE CareerInv'
  OBVIOUS
<1> DEFINE Answer(p) == /\ p.suggestions \in Seq(Orientations) /\ p.secondary \in Seq(Orientations)
                        /\ p.primary \in Orientations \cup {""}
                        /\ p.suggestions # <<>> => p.primary \in Orientations
           Stages == {"idle", "received", "advised", "answered", "aborted"}
<1>0. /\ profile \in Profiles \/ profile = NoProfile
      /\ advice \in Advice \/ advice = NoPath
      /\ careerStage \in Stages
      /\ careerStage # "answered" => path = NoPath
      /\ path \in {NoPath, FirstPath} \/ path \in CataloguePaths
      /\ careerStage = "advised" => advice \in Advice
      /\ careerStage = "answered" /\ profile.skilled => Answer(path)
  BY Zenon DEF CareerInv, CareerTypeOK, CataloguePaths
<1>a. ASSUME CareerTypeOK',
             careerStage' = "advised" => advice' \in Advice,
             careerStage' = "answered" /\ profile'.skilled => Answer(path')
      PROVE  CareerInv'
  BY <1>a, Zenon DEF CareerInv
<1> HIDE DEF Answer
<1>1. CASE RefuseProfile
  <2>1. /\ careerStage' = "aborted" /\ careerStage = "received"
        /\ profile' = profile /\ advice' = advice /\ path' = path
    BY <1>1 DEF RefuseProfile
  <2>2. careerStage' \in Stages /\ careerStage' # "advised" /\ careerStage' # "answered"
        /\ careerStage # "answered"
    BY <2>1
  <2>3. CareerTypeOK'
    BY <1>0, <2>1, <2>2, CareerTyped, Zenon
  <2>4. QED
    BY <1>a, <2>2, <2>3, Zenon
<1>2. CASE DefaultPath
  <2>1. /\ careerStage' = "answered" /\ profile' = profile /\ ~profile.skilled
        /\ advice' = advice /\ path' = FirstPath
    BY <1>2, Zenon DEF DefaultPath
  <2>2. careerStage' \in Stages /\ careerStage' # "advised"
    BY <2>1
  <2>3. CareerTypeOK'
    BY <1>0, <2>1, <2>2, CareerTyped, Zenon
  <2>4. QED
    BY <1>a, <2>1, <2>2, <2>3, Zenon
<1>3. CASE AskAdvice
  <2>1. /\ profile' = profile /\ path' = path /\ careerStage = "received"
        /\ \/ advice' \in Advice /\ careerStage' = "advised"
           \/ careerStage' = "aborted" /\ advice' = advice
    BY <1>3 DEF AskAdvice
  <2>2. careerStage' \in Stages /\ careerStage' # "answered" /\ careerStage # "answered"
    BY <2>1
  <2>3. careerStage' = "advised" => advice' \in Advice
    BY <2>1
  <2>4. CareerTypeOK'
    BY <1>0, <2>1, <2>2, CareerTyped, Zenon
  <2>5. QED
    BY <1>a, <2>2, <2>3, <2>4, Zenon
<1>4. CASE FilterAdvice
  <2>1. /\ careerStage = "advised" /\ advice \in Advice
        /\ profile' = profile /\ advice' = advice
    BY <1>0, <1>4, Zenon DEF FilterAdvice
  <2>2. CASE /\ careerStage' = "answered"
             /\ path' = [suggestions |-> Suggested, primary |-> Primary,
                         secondary |-> Listed(advice.secondary)]
    <3>1. /\ path'.suggestions = Suggested /\ path'.primary = Primary
          /\ path'.secondary = Listed(advice.secondary)
      BY <2>2
    <3>2. Answer(path')
      BY <2>1, <3>1, FilteredPath, Zenon DEF Answer
    <3>3. path' \in CataloguePaths
      <4> DEFINE S == Seq(Orientations)
                 P == Orientations \cup {""}
      <4>1. Suggested \in S /\ Listed(advice.secondary) \in S /\ Primary \in P
        BY <2>1, FilteredPath, Zenon
      <4> HIDE DEF S, P
      <4>2. path' \in [suggestions : S, primary : P, secondary : S]
        BY <2>2, <4>1
      <4>3. QED
        BY <4>2, Zenon DEF CataloguePaths, S, P
    <3>4. careerStage' \in Stages /\ careerStage' # "advised"
      BY <2>2
    <3>5. CareerTypeOK'
      BY <1>0, <2>1, <2>2, <3>3, <3>4, CareerTyped, Zenon
    <3>6. QED
      BY <1>a, <3>2, <3>4, <3>5, Zenon
  <2>3. CASE careerStage' = "aborted" /\ path' = path
    <3>1. /\ careerStage' \in Stages /\ careerStage' # "advised" /\ careerStage' # "answered"
          /\ careerStage # "answered"
      BY <2>1, <2>3
    <3>2. CareerTypeOK'
      BY <1>0, <2>1, <2>3, <3>1, CareerTyped, Zenon
    <3>3. QED
      BY <1>a, <3>1, <3>2, Zenon
  <2>4. QED
    BY <1>4, <2>2, <2>3, Zenon DEF FilterAdvice
<1>5. CASE UNCHANGED careerVars
  <2>1. /\ profile' = profile /\ advice' = advice /\ path' = path
        /\ careerStage' = careerStage
    BY <1>5, Zenon DEF careerVars
  <2>2. CareerTypeOK'
    BY <1>0, <2>1, CareerTyped, Zenon
  <2>3. QED
    BY <1>0, <1>a, <2>1, <2>2, Zenon
<1>6. QED
  BY <1>1, <1>2, <1>3, <1>4, <1>5 DEF CareerNext

LEMMA CareerInvCatalogue == CareerInv => CareerStaysInCatalogue
<1> SUFFICES ASSUME CareerInv, careerStage = "answered", profile.skilled
             PROVE  /\ Recommended \subseteq Orientations
                    /\ path.suggestions # <<>> => path.primary # ""
  BY DEF CareerStaysInCatalogue
<1>1. /\ path.suggestions \in Seq(Orientations) /\ path.secondary \in Seq(Orientations)
      /\ path.primary \in Orientations \cup {""}
      /\ path.suggestions # <<>> => path.primary \in Orientations
  BY DEF CareerInv
<1>2. \A s \in Seq(Orientations) : Range(s) \subseteq Orientations
  <2>1. \A s \in Seq(Orientations) : \A n \in DOMAIN s : s[n] \in Orientations
    OBVIOUS
  <2>2. QED
    BY <2>1, RangeIs
<1>3. {path.primary} \ {""} \subseteq Orientations
  BY <1>1, Zenon
<1>4. path.suggestions # <<>> => path.primary # ""
  BY <1>1, CareerAssumption, Zenon
<1>5. QED
  BY <1>1, <1>2, <1>3, <1>4 DEF Recommended

LEMMA CareerInvHolds == CareerSpec => []CareerInv
<1>1. CareerInit => CareerInv
  BY CareerInitInv
<1>2. QED
  BY <1>1, CareerStepInv, PTL DEF CareerSpec

(* Whatever the model makes up, suggest_career_path recommends orientations of the catalogue *)
(* only to a user with skills, and a first one if it suggests any. *)
THEOREM CareersStayInTheCatalogue == CareerSpec => []CareerStaysInCatalogue
<1>1. QED
  BY CareerInvCatalogue, CareerInvHolds, PTL

-----------------------------------------------------------------------------
(* The services beside each other *)

ServicesInv ==
    /\ RankInv /\ CheckInv /\ ReplayInv
    /\ EnginesInv /\ MatcherInv
    /\ PromptInv /\ VariantInv /\ CareerInv

LEMMA IdleRankInv == RankIdle => RankInv
<1> SUFFICES ASSUME RankIdle PROVE RankInv
  OBVIOUS
<1>1. /\ batch = NoBatch /\ at = 0 /\ scored = <<>> /\ ranking = <<>>
      /\ rankStage = "idle"
  BY DEF RankIdle
<1>2. batch.items = <<>>
  BY <1>1 DEF NoBatch
<1>3. Range(scored) = {} /\ Range(ranking) = {} /\ DOMAIN scored = {}
  BY <1>1, RangeIs
<1>4. RankTypeOK
  BY <1>1, <1>2, <1>3 DEF RankTypeOK
<1>5. 1 .. at = {}
  BY <1>1
<1>6. QED
  BY <1>1, <1>3, <1>4, <1>5 DEF RankInv

(* Each service starts with its job or without one. *)
LEMMA ServicesStart ==
    ASSUME ServicesInit
    PROVE  /\ RankInit \/ RankIdle
           /\ CheckInit \/ CheckIdle
           /\ ReplayInit \/ ReplayIdle
           /\ EnginesInit \/ EnginesIdle
           /\ MatcherInit \/ MatcherIdle
           /\ PromptInit \/ PromptIdle
           /\ VariantInit \/ VariantIdle
           /\ CareerInit \/ CareerIdle
<1>1. /\ BatchInit \/ BatchIdle
      /\ EmbeddingInit \/ EmbeddingIdle
      /\ RpcInit \/ RpcIdle
  BY Zenon DEF ServicesInit
<1>2. (RankInit \/ RankIdle) /\ (CheckInit \/ CheckIdle) /\ (ReplayInit \/ ReplayIdle)
  BY <1>1, Zenon DEF BatchInit, BatchIdle
<1>3. (EnginesInit \/ EnginesIdle) /\ (MatcherInit \/ MatcherIdle)
  BY <1>1, Zenon DEF EmbeddingInit, EmbeddingIdle
<1>4. (PromptInit \/ PromptIdle) /\ (VariantInit \/ VariantIdle) /\ (CareerInit \/ CareerIdle)
  BY <1>1, Zenon DEF RpcInit, RpcIdle
<1>5. QED
  BY <1>2, <1>3, <1>4, Zenon

LEMMA ServicesInitInv == ServicesInit => ServicesInv
<1> SUFFICES ASSUME ServicesInit PROVE ServicesInv
  OBVIOUS
<1>1. RankInv /\ CheckInv /\ ReplayInv
  BY ServicesStart, RankInitInv, IdleRankInv, InvInit, ReplayInitInv, IdleReplayInv, Zenon
<1>2. EnginesInv /\ MatcherInv
  BY ServicesStart, EnginesInitInv, MatcherInitInv, Zenon
<1>3. PromptInv /\ VariantInv /\ CareerInv
  BY ServicesStart, PromptInitInv, VariantInitInv, CareerInitInv, Zenon
<1>4. QED
  BY <1>1, <1>2, <1>3 DEF ServicesInv

(* A step of one service is a step of none of the others. *)
LEMMA OneServiceSteps ==
    ASSUME [ServicesNext]_ServiceVars
    PROVE  /\ [RankNext]_rankVars
           /\ [CheckNext]_checkVars
           /\ [ReplayNext]_replayVars
           /\ [EnginesNext]_engineVars
           /\ [MatcherNext]_matcherVars
           /\ [PromptNext]_promptVars
           /\ [VariantNext]_variantVars
           /\ [CareerNext]_careerVars
<1>1. /\ [BatchNext]_BatchVars
      /\ [EmbeddingNext]_EmbeddingVars
      /\ [RpcNext]_RpcVars
  BY DEF ServicesNext, ServiceVars
<1>2. [RankNext]_rankVars /\ [CheckNext]_checkVars /\ [ReplayNext]_replayVars
  BY <1>1 DEF BatchNext, BatchVars
<1>3. [EnginesNext]_engineVars /\ [MatcherNext]_matcherVars
  BY <1>1 DEF EmbeddingNext, EmbeddingVars
<1>4. [PromptNext]_promptVars /\ [VariantNext]_variantVars /\ [CareerNext]_careerVars
  BY <1>1 DEF RpcNext, RpcVars
<1>5. QED
  BY <1>2, <1>3, <1>4

LEMMA ServicesStepInv == ServicesInv /\ [ServicesNext]_ServiceVars => ServicesInv'
<1> SUFFICES ASSUME ServicesInv, [ServicesNext]_ServiceVars PROVE ServicesInv'
  OBVIOUS
<1>1. RankInv' /\ CheckInv' /\ ReplayInv'
  BY OneServiceSteps, RankStepInv, CheckStepInv, ReplayStepInv DEF ServicesInv
<1>2. EnginesInv' /\ MatcherInv'
  BY OneServiceSteps, EnginesStepInv, MatcherStepInv DEF ServicesInv
<1>3. PromptInv' /\ VariantInv' /\ CareerInv'
  BY OneServiceSteps, PromptStepInv, VariantStepInv, CareerStepInv DEF ServicesInv
<1>4. QED
  BY <1>1, <1>2, <1>3 DEF ServicesInv

LEMMA ServicesInvHolds == ServicesSpec => []ServicesInv
<1>1. QED
  BY ServicesInitInv, ServicesStepInv, PTL DEF ServicesSpec

(* Every service keeps to the values that its result model, the protocol and its cache allow, *)
(* for any batches, pools, sessions, sources, searches, requests and answers of the model. *)
THEOREM ServicesTypeCorrect == ServicesSpec => []ServicesTypeOK
<1>1. ServicesInv => ServicesTypeOK
  <2> SUFFICES ASSUME ServicesInv PROVE ServicesTypeOK
    OBVIOUS
  <2>1. RankTypeOK /\ CheckTypeOK /\ ReplayTypeOK /\ EnginesTypeOK
    BY DEF ServicesInv, RankInv, CheckInv, ReplayInv, EnginesInv
  <2>2. MatcherTypeOK
    BY DEF ServicesInv, MatcherInv, MatcherTypeOK
  <2>3. PromptTypeOK /\ VariantTypeOK /\ CareerTypeOK
    BY DEF ServicesInv, PromptInv, VariantInv, CareerInv
  <2>4. QED
    BY <2>1, <2>2, <2>3 DEF ServicesTypeOK
<1>2. QED
  BY <1>1, ServicesInvHolds, PTL

(* What each service promises of its own, it promises beside the others: the properties of a *)
(* ranking, a plagiarism check, a replay, the engines, a search and the three RPCs, all of   *)
(* them invariants of the same system. *)
THEOREM ServicesKeepTheirPromises ==
    ServicesSpec =>
        [](/\ RankingIsComplete /\ BetterNeverBehind
           /\ CheckTypeOK /\ FlagCoversPlagiarism /\ VerdictCitesItsMatch
           /\ FramesShowTheEdits /\ ReplayLengthBounded
           /\ CopiesScoreFull /\ ScoredAlike
           /\ SameKeySamePrompt /\ VariantMovesItsDimension /\ CareerStaysInCatalogue)
<1> DEFINE Promises ==
        /\ RankingIsComplete /\ BetterNeverBehind
        /\ CheckTypeOK /\ FlagCoversPlagiarism /\ VerdictCitesItsMatch
        /\ FramesShowTheEdits /\ ReplayLengthBounded
        /\ CopiesScoreFull /\ ScoredAlike
        /\ SameKeySamePrompt /\ VariantMovesItsDimension /\ CareerStaysInCatalogue
<1>1. ServicesInv => Promises
  <2> SUFFICES ASSUME ServicesInv PROVE Promises
    OBVIOUS
  <2>1. RankingIsComplete /\ BetterNeverBehind
    BY RankInvComplete, RankInvNeverBehind DEF ServicesInv
  <2>2. CheckTypeOK /\ FlagCoversPlagiarism /\ VerdictCitesItsMatch
    BY FlagFollows, VerdictFollows DEF ServicesInv, CheckInv
  <2>3. FramesShowTheEdits /\ ReplayLengthBounded
    BY DEF ServicesInv, ReplayInv
  <2>4. CopiesScoreFull /\ ScoredAlike
    BY DEF ServicesInv, EnginesInv, MatcherInv, ScoredAlike
  <2>5. SameKeySamePrompt /\ VariantMovesItsDimension /\ CareerStaysInCatalogue
    BY VariantMoves, CareerInvCatalogue DEF ServicesInv, PromptInv
  <2>6. QED
    BY <2>1, <2>2, <2>3, <2>4, <2>5
<1>2. QED
  BY <1>1, ServicesInvHolds, PTL

(* A variant that has been paid for comes, beside the other services. *)
THEOREM PaidVariantsComeBesideOthers == ServicesSpec => PaidVariantsCome
<1>1. ServicesInv /\ [ServicesNext]_ServiceVars =>
         [variantStage = "paid" /\ told = NoAnswer /\ variant.target = {} /\ Valid(Original)
             => variantStage' = "success"]_variantVars
  BY OneServiceSteps, PaidVariantStep DEF ServicesInv
<1>2. QED
  BY <1>1, ServicesInvHolds, PTL DEF ServicesSpec, PaidVariantsCome
=============================================================================
