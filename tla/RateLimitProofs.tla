--------------------------- MODULE RateLimitProofs ---------------------------
(***************************************************************************)
(* Proofs about RateLimit, for any clients, budgets, length of a minute,   *)
(* clock skew, window and number of restarts.                              *)
(***************************************************************************)
EXTENDS RateLimit, FiniteSetTheorems, TLAPS

-----------------------------------------------------------------------------
(* The arithmetic of one bucket *)

LEMMA ProductInNat == \A a, b \in Nat : a * b \in Nat
OBVIOUS

(* The facts about the constants of one key, as the provers use them. *)
LEMMA KeyFacts ==
    ASSUME NEW k \in Keys
    PROVE  /\ Refill(k) \in Nat \ {0}
           /\ Capacity(k) \in Nat /\ Token \in Nat \ {0}
           /\ Capacity(k) = Refill(k) * Minute
           /\ \A s \in 0 .. MaxSkew : Capacity(k) - s * Refill(k) \in Token .. Capacity(k)
<1>1. k[2] \in Methods
  BY DEF Keys
<1>2. Budget[k[2]] \in Nat \ {0} /\ Minute \in Nat \ {0} /\ MaxSkew \in Nat
  BY <1>1, RateLimitAssumption
<1>3. MaxSkew * Budget[k[2]] <= Minute * (Budget[k[2]] - 1)
  BY <1>1, RateLimitAssumption
<1> DEFINE b == Budget[k[2]]
<1>4. b * Minute \in Nat
  BY <1>2
<1>5. ASSUME NEW s \in 0 .. MaxSkew
      PROVE  b * Minute - s * b \in Minute .. (b * Minute)
  <2>1. s * b <= MaxSkew * b /\ s * b \in Nat /\ MaxSkew * b \in Nat
    BY <1>2
  <2>2. Minute * (b - 1) = b * Minute - Minute
    BY <1>2
  <2>3. QED
    BY <1>2, <1>3, <1>4, <2>1, <2>2
<1>6. QED
  BY <1>2, <1>4, <1>5 DEF Refill, Capacity, Token

(* A call moves the clock only when it creates the bucket. *)
LEMMA SkewFacts ==
    ASSUME NEW k \in Keys, NEW skew \in Skews(k)
    PROVE  skew \in 0 .. MaxSkew /\ skew \in Nat /\ (bucket[k] # NoBucket => skew = 0)
BY RateLimitAssumption DEF Skews

(* A refilled bucket holds between nothing and its capacity, and no more than   *)
(* the time since the last refill brought: a new bucket starts full, less what  *)
(* the clock skew costs it.                                                     *)
LEMMA AvailableFacts ==
    ASSUME TypeOK, NEW k \in Keys, NEW skew \in Skews(k)
    PROVE  /\ Available(k, skew) \in 0 .. Capacity(k)
           /\ bucket[k] = NoBucket =>
                 Available(k, skew) + Refill(k) * skew = Capacity(k)
           /\ bucket[k] # NoBucket =>
                 /\ bucket[k] \in [tokens : Nat, last : Nat]
                 /\ bucket[k].last <= now
                 /\ Available(k, skew) <=
                        bucket[k].tokens + Refill(k) * (now - bucket[k].last)
<1>1. Refill(k) \in Nat /\ Capacity(k) \in Nat
  BY KeyFacts
<1>2. CASE bucket[k] = NoBucket
  <2> DEFINE units == Capacity(k) - skew * Refill(k)
  <2>1. skew \in 0 .. MaxSkew /\ skew \in Nat
    BY SkewFacts
  <2>2. units \in Token .. Capacity(k) /\ Token \in Nat
    BY <2>1, KeyFacts
  <2>3. Available(k, skew) = units
    BY <1>1, <1>2, <2>2 DEF Available
  <2>4. units + Refill(k) * skew = Capacity(k)
    BY <1>1, <2>1
  <2>5. QED
    BY <1>1, <1>2, <2>2, <2>3, <2>4
<1>3. CASE bucket[k] # NoBucket
  <2>1. bucket[k] \in [tokens : Nat, last : Nat] /\ bucket[k].last <= now /\ now \in Nat
    BY <1>3, RateLimitAssumption DEF TypeOK
  <2>2. /\ (now - bucket[k].last) * Refill(k) = Refill(k) * (now - bucket[k].last)
        /\ (now - bucket[k].last) * Refill(k) \in Nat
    BY <1>1, <2>1
  <2>3. QED
    BY <1>1, <1>3, <2>1, <2>2 DEF Available
<1>4. QED
  BY <1>2, <1>3

(* What a call leaves in the bucket has the bucket's type. *)
LEMMA RefilledType ==
    ASSUME TypeOK, NEW k \in Keys, NEW units \in 0 .. Capacity(k), NEW skew \in Nat,
           bucket' = Refilled(k, units, now), now' = now + skew, now + skew <= MaxTime
    PROVE  /\ now' \in 0 .. MaxTime
           /\ bucket' \in [Keys -> [tokens : Nat, last : Nat] \cup {NoBucket}]
           /\ \A j \in Keys :
                 \/ bucket'[j] = NoBucket
                 \/ /\ bucket'[j] \in [tokens : Nat, last : Nat]
                    /\ bucket'[j].tokens <= Capacity(j)
                    /\ bucket'[j].last <= now'
<1>1. now \in Nat /\ Capacity(k) \in Nat /\ MaxTime \in Nat
  BY KeyFacts, RateLimitAssumption DEF TypeOK
<1>2. [tokens |-> units, last |-> now] \in [tokens : Nat, last : Nat]
  BY <1>1
<1>3. bucket' = [bucket EXCEPT ![k] = [tokens |-> units, last |-> now]]
  BY DEF Refilled
<1>4. ASSUME NEW j \in Keys
      PROVE  \/ bucket'[j] = NoBucket
             \/ /\ bucket'[j] \in [tokens : Nat, last : Nat]
                /\ bucket'[j].tokens <= Capacity(j)
                /\ bucket'[j].last <= now'
  <2>1. CASE j = k
    BY <1>1, <1>2, <1>3, <2>1 DEF TypeOK
  <2>2. CASE j # k
    BY <1>1, <1>3, <2>2 DEF TypeOK
  <2>3. QED
    BY <2>1, <2>2
<1>5. bucket' \in [Keys -> [tokens : Nat, last : Nat] \cup {NoBucket}]
  BY <1>2, <1>3 DEF TypeOK
<1>6. QED
  BY <1>1, <1>4, <1>5

(* The observer of the last minute keeps finite sets of numbered times. *)
LEMMA NoteType ==
    ASSUME TypeOK, NEW k \in Keys, Note(k)
    PROVE  /\ recent' \in [Keys -> SUBSET (Nat \X Nat)]
           /\ \A j \in Keys : IsFiniteSet(recent'[j])
           /\ overrun' \in SUBSET Keys
<1> DEFINE calls == LastMinute(k) \cup {<<now, Cardinality(Current(k))>>}
<1>1. recent[k] \in SUBSET (Nat \X Nat) /\ IsFiniteSet(recent[k]) /\ now \in Nat
  BY RateLimitAssumption DEF TypeOK
<1>2. /\ LastMinute(k) \in SUBSET recent[k] /\ IsFiniteSet(LastMinute(k))
      /\ Current(k) \in SUBSET recent[k] /\ IsFiniteSet(Current(k))
  BY <1>1, FS_Subset DEF LastMinute, Current
<1>3. Cardinality(Current(k)) \in Nat
  BY <1>2, FS_CardinalityType
<1>4. calls \in SUBSET (Nat \X Nat) /\ IsFiniteSet(calls)
  <2>1. <<now, Cardinality(Current(k))>> \in Nat \X Nat
    BY <1>1, <1>3
  <2>2. IsFiniteSet(calls)
    BY <1>2, FS_AddElement
  <2>3. QED
    BY <1>1, <1>2, <2>1, <2>2
<1>5. IsFiniteSet({})
  BY FS_EmptySet
<1>6. \/ recent' = [recent EXCEPT ![k] = calls] /\ overrun' = overrun
      \/ recent' = [recent EXCEPT ![k] = {}] /\ overrun' = overrun \cup {k}
  BY DEF Note
<1> HIDE DEF calls
<1>7. QED
  BY <1>4, <1>5, <1>6 DEF TypeOK

-----------------------------------------------------------------------------
(* Type correctness *)

(* In every reachable state a bucket holds between nothing and its capacity and *)
(* was last refilled in the past, whatever the clock skew of its first call.    *)
THEOREM TypeCorrect == Spec => []TypeOK
<1>1. Init => TypeOK
  BY RateLimitAssumption, FS_EmptySet DEF Init, TypeOK
<1>2. TypeOK /\ [Next]_vars => TypeOK'
  <2> SUFFICES ASSUME TypeOK, [Next]_vars PROVE TypeOK'
    OBVIOUS
  <2>1. ASSUME NEW c \in Clients, NEW m \in Methods, Admit(c, m) PROVE TypeOK'
    <3> DEFINE k == <<PeerOf[c], m>>
    <3>1. k \in Keys
      BY DEF Keys
    <3> HIDE DEF k
    <3>2. PICK skew \in Skews(k) :
             /\ now + skew <= MaxTime
             /\ Available(k, skew) >= Token
             /\ bucket' = Refilled(k, Available(k, skew) - Token, now)
             /\ now' = now + skew
             /\ admitted' = [admitted EXCEPT ![k] = IF now >= since THEN @ + 1 ELSE @]
             /\ Note(k)
             /\ UNCHANGED <<since, reboots, refused, restarts>>
      BY <2>1 DEF Admit, k
    <3>3. Available(k, skew) - Token \in 0 .. Capacity(k) /\ skew \in Nat
      BY <3>1, <3>2, AvailableFacts, KeyFacts, SkewFacts
    <3>4. admitted' \in [Keys -> Nat]
      <4>1. admitted \in [Keys -> Nat] /\ admitted[k] \in Nat /\ admitted[k] + 1 \in Nat
        BY <3>1 DEF TypeOK
      <4>2. \/ admitted' = [admitted EXCEPT ![k] = admitted[k] + 1]
            \/ admitted' = [admitted EXCEPT ![k] = admitted[k]]
        BY <3>2
      <4>3. QED
        BY <4>1, <4>2
    <3>5. QED
      BY <3>1, <3>2, <3>3, <3>4, RefilledType, NoteType DEF TypeOK
  <2>2. ASSUME NEW c \in Clients, NEW m \in Methods, Refuse(c, m) PROVE TypeOK'
    <3> DEFINE k == <<PeerOf[c], m>>
    <3>1. k \in Keys
      BY DEF Keys
    <3> HIDE DEF k
    <3>2. PICK skew \in Skews(k) :
             /\ now + skew <= MaxTime
             /\ bucket' = Refilled(k, Available(k, skew), now)
             /\ now' = now + skew
             /\ refused' = refused \cup {k}
             /\ Note(k)
             /\ UNCHANGED <<since, admitted, reboots, restarts>>
      BY <2>2 DEF Refuse, k
    <3>3. Available(k, skew) \in 0 .. Capacity(k) /\ skew \in Nat
      BY <3>1, <3>2, AvailableFacts, SkewFacts
    <3>4. QED
      BY <3>1, <3>2, <3>3, RefilledType, NoteType DEF TypeOK
  <2>3. CASE Tick
    BY <2>3, RateLimitAssumption DEF Tick, TypeOK
  <2>4. CASE Restart
    BY <2>4, RateLimitAssumption DEF Restart, TypeOK
  <2>5. CASE UNCHANGED vars
    BY <2>5 DEF vars, TypeOK
  <2>6. QED
    BY <2>1, <2>2, <2>3, <2>4, <2>5 DEF Next
<1>3. QED
  BY <1>1, <1>2, PTL DEF Spec

-----------------------------------------------------------------------------
(* The budget of a window *)

(* What a key may still give away: its bucket and the refill since its last use. *)
Spare(k) == IF bucket[k] = NoBucket
            THEN Capacity(k)
            ELSE bucket[k].tokens + Refill(k) * (now - bucket[k].last)

(* What the window grants it. *)
Granted(k) == Capacity(k) * (1 + reboots) + Refill(k) * (now - since)

(* WindowInv for one key. *)
Within(k) ==
    admitted[k] > 0 => now >= since /\ admitted[k] * Token + Spare(k) <= Granted(k)

(* Both in the next state. *)
LEMMA NextState ==
    ASSUME NEW k \in Keys
    PROVE  /\ Granted(k)' = Capacity(k) * (1 + reboots') + Refill(k) * (now' - since')
           /\ Spare(k)' = IF bucket'[k] = NoBucket
                          THEN Capacity(k)
                          ELSE bucket'[k].tokens + Refill(k) * (now' - bucket'[k].last)
BY DEF Granted, Spare, Capacity, Refill

LEMMA WindowInvIsWithin == WindowInv <=> \A k \in Keys : Within(k)
BY DEF WindowInv, Within, Spare, Granted

(* The numbers of one key are numbers. *)
LEMMA NumberFacts ==
    ASSUME TypeOK, NEW k \in Keys
    PROVE  /\ now \in Nat /\ since \in Nat /\ reboots \in Nat /\ admitted[k] \in Nat
           /\ Refill(k) \in Nat /\ Capacity(k) \in Nat /\ Token \in Nat
           /\ Capacity(k) * (1 + reboots) \in Nat
           /\ Capacity(k) * (1 + reboots) >= Capacity(k)
           /\ admitted[k] * Token \in Nat
           /\ Spare(k) \in Nat
<1>1. /\ now \in Nat /\ since \in Nat /\ reboots \in Nat /\ admitted[k] \in Nat
      /\ Refill(k) \in Nat /\ Capacity(k) \in Nat /\ Token \in Nat
  BY KeyFacts, RateLimitAssumption DEF TypeOK
<1>2. /\ Capacity(k) * (1 + reboots) = Capacity(k) + Capacity(k) * reboots
      /\ Capacity(k) * reboots \in Nat
      /\ admitted[k] * Token \in Nat
  BY <1>1
<1>3. Spare(k) \in Nat
  <2>1. CASE bucket[k] = NoBucket
    BY <1>1, <2>1 DEF Spare
  <2>2. CASE bucket[k] # NoBucket
    <3>1. bucket[k] \in [tokens : Nat, last : Nat] /\ now - bucket[k].last \in Nat
      BY <1>1, <2>2 DEF TypeOK
    <3>2. Refill(k) * (now - bucket[k].last) \in Nat
      BY <1>1, <3>1
    <3>3. QED
      BY <2>2, <3>1, <3>2 DEF Spare
  <2>3. QED
    BY <2>1, <2>2
<1>4. QED
  BY <1>1, <1>2, <1>3

(* The clock moves while nothing else happens to a key: what it may give away   *)
(* grows no faster than what the window grants.                                 *)
LEMMA TimeKeepsWithin ==
    ASSUME TypeOK, NEW k \in Keys, Within(k), NEW dt \in Nat, now' = now + dt,
           bucket'[k] = bucket[k], admitted'[k] = admitted[k], UNCHANGED <<since, reboots>>
    PROVE  Within(k)'
<1>1. SUFFICES ASSUME admitted[k] > 0
               PROVE  now' >= since /\ admitted[k] * Token + Spare(k)' <= Granted(k)'
  BY DEF Within
<1>2. /\ now \in Nat /\ since \in Nat /\ Refill(k) \in Nat /\ Spare(k) \in Nat
      /\ Capacity(k) * (1 + reboots) \in Nat /\ admitted[k] * Token \in Nat
      /\ Capacity(k) \in Nat
  BY NumberFacts
<1>3. now >= since /\ admitted[k] * Token + Spare(k) <= Granted(k)
  BY <1>1 DEF Within
<1>4. Refill(k) * dt \in Nat
  BY <1>2
<1>5. Granted(k)' = Granted(k) + Refill(k) * dt /\ Granted(k) \in Int
  <2>1. /\ Refill(k) * (now + dt - since) = Refill(k) * (now - since) + Refill(k) * dt
        /\ Refill(k) * (now - since) \in Int
    BY <1>2
  <2>2. Granted(k)' = Capacity(k) * (1 + reboots) + Refill(k) * (now + dt - since)
    BY <1>2, NextState
  <2>3. QED
    BY <1>2, <1>4, <2>1, <2>2 DEF Granted
<1>6. Spare(k)' <= Spare(k) + Refill(k) * dt /\ Spare(k)' \in Int
  <2>1. CASE bucket[k] = NoBucket
    BY <1>2, <1>4, <2>1 DEF Spare, Capacity
  <2>2. CASE bucket[k] # NoBucket
    <3>1. bucket[k].last \in Nat /\ bucket[k].tokens \in Nat
      BY <2>2 DEF TypeOK
    <3>2. /\ Refill(k) * (now + dt - bucket[k].last)
                = Refill(k) * (now - bucket[k].last) + Refill(k) * dt
          /\ Refill(k) * (now - bucket[k].last) \in Int
      BY <1>2, <3>1
    <3>3. Spare(k)' = bucket[k].tokens + Refill(k) * (now + dt - bucket[k].last)
      BY <1>2, <2>2, <3>1, NextState
    <3>4. QED
      BY <1>2, <1>4, <2>2, <3>1, <3>2, <3>3 DEF Spare
  <2>3. QED
    BY <2>1, <2>2
<1>7. QED
  BY <1>2, <1>3, <1>4, <1>5, <1>6

(* A call gives away one token or none, and leaves the rest in the bucket. *)
LEMMA CallKeepsWithin ==
    ASSUME TypeOK, NEW k \in Keys, Within(k), NEW skew \in Skews(k), NEW gain \in {0, 1},
           NEW units \in Nat, units + gain * Token = Available(k, skew),
           bucket' = Refilled(k, units, now), now' = now + skew,
           admitted'[k] = IF now >= since THEN admitted[k] + gain ELSE admitted[k],
           UNCHANGED <<since, reboots>>
    PROVE  Within(k)'
<1>1. /\ now \in Nat /\ since \in Nat /\ Refill(k) \in Nat /\ Spare(k) \in Nat
      /\ Capacity(k) \in Nat /\ Token \in Nat /\ admitted[k] \in Nat /\ skew \in Nat
      /\ Capacity(k) * (1 + reboots) \in Nat /\ admitted[k] * Token \in Nat
      /\ Capacity(k) * (1 + reboots) >= Capacity(k)
  BY NumberFacts, SkewFacts
<1>2. CASE ~ (now >= since)
  <2>1. ~ (admitted[k] > 0)
    BY <1>2 DEF Within
  <2>2. QED
    BY <1>1, <1>2, <2>1 DEF Within
<1>3. CASE now >= since
  <2>1. /\ bucket'[k] = [tokens |-> units, last |-> now]
        /\ [tokens |-> units, last |-> now] # NoBucket
    <3>1. [tokens |-> units, last |-> now] \in [tokens : Int, last : Int]
      BY <1>1
    <3>2. QED
      BY <3>1, RateLimitAssumption DEF Refilled, TypeOK
  <2>2. Spare(k)' = units + Refill(k) * skew
    <3>1. Spare(k)' = units + Refill(k) * (now + skew - now)
      BY <1>1, <2>1, NextState
    <3>2. QED
      BY <1>1, <3>1
  <2>3. Available(k, skew) + Refill(k) * skew <= Spare(k)
    <3>1. CASE bucket[k] = NoBucket
      BY <1>1, <3>1, AvailableFacts DEF Spare
    <3>2. CASE bucket[k] # NoBucket
      <4>1. skew = 0 /\ Refill(k) * skew = 0
        BY <1>1, <3>2, SkewFacts
      <4>2. QED
        BY <1>1, <3>2, <4>1, AvailableFacts DEF Spare
    <3>3. QED
      BY <3>1, <3>2
  <2>4. /\ Refill(k) * skew \in Nat /\ Refill(k) * (now - since) \in Nat
        /\ Granted(k) = Capacity(k) * (1 + reboots) + Refill(k) * (now - since)
        /\ Granted(k)' = Granted(k) + Refill(k) * skew
    <3>1. Refill(k) * (now + skew - since) = Refill(k) * (now - since) + Refill(k) * skew
      BY <1>1
    <3>2. Granted(k)' = Capacity(k) * (1 + reboots) + Refill(k) * (now + skew - since)
      BY <1>1, NextState
    <3>3. Refill(k) * skew \in Nat /\ Refill(k) * (now - since) \in Nat
      <4>1. now - since \in Nat /\ Refill(k) \in Nat /\ skew \in Nat
        BY <1>1, <1>3
      <4>2. QED
        BY <4>1, ProductInNat
    <3>4. QED
      BY <1>1, <3>1, <3>2, <3>3 DEF Granted
  <2>5. admitted[k] * Token + Available(k, skew) <= Granted(k)
    <3>1. CASE admitted[k] > 0
      <4>1. admitted[k] * Token + Spare(k) <= Granted(k)
        BY <3>1 DEF Within
      <4>2. Available(k, skew) \in Nat
        BY <1>1, AvailableFacts
      <4>3. QED
        BY <1>1, <2>3, <2>4, <4>1, <4>2
    <3>2. CASE admitted[k] = 0
      <4>1. admitted[k] * Token = 0
        BY <1>1, <3>2
      <4>2. Available(k, skew) \in 0 .. Capacity(k)
        BY AvailableFacts
      <4>3. QED
        BY <1>1, <2>4, <4>1, <4>2
    <3>3. QED
      BY <1>1, <3>1, <3>2
  <2>6. admitted'[k] * Token = admitted[k] * Token + gain * Token /\ gain * Token \in Nat
    BY <1>1, <1>3
  <2>7. now' >= since' /\ admitted'[k] * Token' + Spare(k)' <= Granted(k)'
    <3>1. Available(k, skew) \in Nat /\ Token' = Token
      BY <1>1, AvailableFacts DEF Token
    <3>2. QED
      BY <1>1, <1>3, <2>2, <2>4, <2>5, <2>6, <3>1
  <2>8. QED
    BY <2>7 DEF Within
<1>4. QED
  BY <1>2, <1>3

(* A restart in the window costs one more capacity. *)
LEMMA RestartKeepsWithin ==
    ASSUME TypeOK, NEW k \in Keys, Within(k), Restart
    PROVE  Within(k)'
<1>1. SUFFICES ASSUME admitted[k] > 0
               PROVE  now >= since /\ admitted[k] * Token + Spare(k)' <= Granted(k)'
  BY DEF Within, Restart, Token
<1>2. now >= since /\ admitted[k] * Token + Spare(k) <= Granted(k)
  BY <1>1 DEF Within
<1>3. /\ now \in Nat /\ since \in Nat /\ Refill(k) \in Nat /\ Spare(k) \in Nat
      /\ Capacity(k) \in Nat /\ reboots \in Nat /\ admitted[k] * Token \in Nat
  BY NumberFacts
<1>4. reboots' = reboots + 1 /\ Spare(k)' = Capacity(k)
  BY <1>2 DEF Restart, Spare, Capacity
<1>5. Granted(k)' = Capacity(k) * (1 + reboots') + Refill(k) * (now - since)
  BY DEF Restart, Granted, Capacity, Refill
<1>6. /\ Capacity(k) * (1 + (reboots + 1)) = Capacity(k) * (1 + reboots) + Capacity(k)
      /\ Capacity(k) * (1 + reboots) \in Nat /\ Refill(k) * (now - since) \in Nat
  BY <1>2, <1>3
<1>7. QED
  BY <1>2, <1>3, <1>4, <1>5, <1>6 DEF Granted

(* What protects the LLM budget: over any window, a key gets no more calls      *)
(* through than its capacity, once more for each restart, and the refill.       *)
(* The inductive invariant adds what the bucket may still give away.            *)
THEOREM WindowAlwaysBounded == Spec => []WindowBound
<1>1. Init => WindowInv
  BY RateLimitAssumption DEF Init, WindowInv
<1>2. TypeOK /\ WindowInv /\ [Next]_vars => WindowInv'
  <2> SUFFICES ASSUME TypeOK, WindowInv, [Next]_vars, NEW j \in Keys
               PROVE  Within(j)'
    BY WindowInvIsWithin DEF WindowInv, Within, Spare, Granted
  <2>1. Within(j)
    BY WindowInvIsWithin
  <2>2. ASSUME NEW c \in Clients, NEW m \in Methods, Admit(c, m) PROVE Within(j)'
    <3> DEFINE k == <<PeerOf[c], m>>
    <3>1. k \in Keys
      BY DEF Keys
    <3> HIDE DEF k
    <3>2. PICK skew \in Skews(k) :
             /\ Available(k, skew) >= Token
             /\ bucket' = Refilled(k, Available(k, skew) - Token, now)
             /\ now' = now + skew
             /\ admitted' = [admitted EXCEPT ![k] = IF now >= since THEN @ + 1 ELSE @]
             /\ UNCHANGED <<since, reboots>>
      BY <2>2 DEF Admit, k
    <3>3. skew \in Nat
      BY <3>1, SkewFacts
    <3>4. CASE j = k
      <4> DEFINE units == Available(k, skew) - Token
      <4>1. units \in Nat /\ units + 1 * Token = Available(k, skew)
        BY <3>1, <3>2, AvailableFacts, KeyFacts
      <4>2. admitted'[k] = IF now >= since THEN admitted[k] + 1 ELSE admitted[k]
        BY <3>1, <3>2 DEF TypeOK
      <4> HIDE DEF units
      <4>3. bucket' = Refilled(k, units, now)
        BY <3>2 DEF units
      <4>4. QED
        BY <2>1, <3>1, <3>2, <3>4, <4>1, <4>2, <4>3, CallKeepsWithin
    <3>5. CASE j # k
      <4>1. bucket'[j] = bucket[j] /\ admitted'[j] = admitted[j]
        BY <3>2, <3>5 DEF Refilled, TypeOK
      <4>2. QED
        BY <2>1, <3>2, <3>3, <4>1, TimeKeepsWithin
    <3>6. QED
      BY <3>4, <3>5
  <2>3. ASSUME NEW c \in Clients, NEW m \in Methods, Refuse(c, m) PROVE Within(j)'
    <3> DEFINE k == <<PeerOf[c], m>>
    <3>1. k \in Keys
      BY DEF Keys
    <3> HIDE DEF k
    <3>2. PICK skew \in Skews(k) :
             /\ bucket' = Refilled(k, Available(k, skew), now)
             /\ now' = now + skew
             /\ UNCHANGED <<since, reboots, admitted>>
      BY <2>3 DEF Refuse, k
    <3>3. skew \in Nat
      BY <3>1, SkewFacts
    <3>4. CASE j = k
      <4> DEFINE units == Available(k, skew)
      <4>1. units \in Nat /\ units + 0 * Token = Available(k, skew)
        BY <3>1, AvailableFacts, KeyFacts
      <4>2. admitted'[k] = IF now >= since THEN admitted[k] + 0 ELSE admitted[k]
        BY <3>1, <3>2, NumberFacts
      <4> HIDE DEF units
      <4>3. bucket' = Refilled(k, units, now)
        BY <3>2 DEF units
      <4>4. QED
        BY <2>1, <3>1, <3>2, <3>4, <4>1, <4>2, <4>3, CallKeepsWithin
    <3>5. CASE j # k
      <4>1. bucket'[j] = bucket[j] /\ admitted'[j] = admitted[j]
        BY <3>2, <3>5 DEF Refilled, TypeOK
      <4>2. QED
        BY <2>1, <3>2, <3>3, <4>1, TimeKeepsWithin
    <3>6. QED
      BY <3>4, <3>5
  <2>4. CASE Tick
    BY <2>1, <2>4, TimeKeepsWithin DEF Tick
  <2>5. CASE Restart
    BY <2>1, <2>5, RestartKeepsWithin
  <2>6. CASE UNCHANGED vars
    BY <2>1, <2>6 DEF vars, Within, Spare, Granted, Token, Capacity, Refill
  <2>7. QED
    BY <2>2, <2>3, <2>4, <2>5, <2>6 DEF Next
<1>3. TypeOK /\ WindowInv => WindowBound
  <2> SUFFICES ASSUME TypeOK, WindowInv, NEW k \in Keys, admitted[k] > 0
               PROVE  admitted[k] * Token
                        <= Capacity(k) * (1 + reboots) + Refill(k) * (now - since)
    BY DEF WindowBound
  <2>1. now >= since /\ admitted[k] * Token + Spare(k) <= Granted(k)
    BY WindowInvIsWithin DEF Within
  <2>2. Refill(k) * (now - since) \in Nat
    BY <2>1, NumberFacts
  <2>3. QED
    BY <2>1, <2>2, NumberFacts DEF Granted
<1>4. QED
  BY <1>1, <1>2, <1>3, TypeCorrect, PTL DEF Spec

-----------------------------------------------------------------------------
(* The budget that is kept *)

(* The calls of a set at a time, and after it; the calls at one time are numbered. *)
At(calls, t) == {call \in calls : call[1] = t}
After(calls, t) == {call \in calls : call[1] > t}
NumberedUpTo(calls, t) ==
    \A call \in calls : call[1] <= t /\ call[2] < Cardinality(At(calls, call[1]))

(* Parts of a set of calls are finite. *)
LEMMA PartsAreFinite ==
    ASSUME NEW calls, IsFiniteSet(calls), NEW t
    PROVE  /\ IsFiniteSet(At(calls, t)) /\ Cardinality(At(calls, t)) \in Nat
           /\ IsFiniteSet(After(calls, t)) /\ Cardinality(After(calls, t)) \in Nat
<1>1. At(calls, t) \in SUBSET calls /\ After(calls, t) \in SUBSET calls
  BY DEF At, After
<1>2. IsFiniteSet(At(calls, t)) /\ IsFiniteSet(After(calls, t))
  BY <1>1, FS_Subset
<1>3. QED
  BY <1>2, FS_CardinalityType

(* One more call: it has a number of its own, so that each count that includes  *)
(* it grows by one; what is forgotten, is forgotten a whole time at once.       *)
LEMMA OneMoreCall ==
    ASSUME NEW calls \in SUBSET (Nat \X Nat), IsFiniteSet(calls),
           NEW t \in Nat, NEW minute \in Nat \ {0}, NumberedUpTo(calls, t)
    PROVE  LET new == <<t, Cardinality(At(calls, t))>>
               grown == After(calls, t - minute) \cup {new}
           IN  /\ NumberedUpTo(grown, t)
               /\ \A x \in Int : t - minute <= x /\ x < t =>
                     Cardinality(After(grown, x)) = Cardinality(After(calls, x)) + 1
<1> DEFINE n == Cardinality(At(calls, t))
           new == <<t, n>>
           kept == After(calls, t - minute)
           grown == kept \cup {new}
<1>1. n \in Nat /\ new[1] = t /\ new[2] = n
  BY PartsAreFinite
<1>2. new \notin calls
  BY <1>1 DEF NumberedUpTo
<1>3. /\ kept \in SUBSET calls
      /\ \A call \in calls : call \in kept <=> call[1] > t - minute
      /\ \A call \in calls : call[1] \in Nat /\ call[2] \in Nat
  BY DEF After
<1> HIDE DEF n, kept
<1>4. ASSUME NEW call \in grown
      PROVE  call[1] <= t /\ call[2] < Cardinality(At(grown, call[1]))
  <2>1. IsFiniteSet(At(calls, t)) /\ At(calls, t) \cup {new} = At(grown, t)
    <3>1. \A other \in calls : other[1] = t => other \in kept
      BY <1>3
    <3>2. \A other : other \in At(grown, t) <=> other \in At(calls, t) \cup {new}
      BY <1>1, <1>3, <3>1 DEF At
    <3>3. QED
      BY <3>2, PartsAreFinite
  <2>2. Cardinality(At(grown, t)) = n + 1
    <3>1. new \notin At(calls, t)
      BY <1>2 DEF At
    <3>2. QED
      BY <2>1, <3>1, FS_AddElement DEF n
  <2>3. CASE call = new
    BY <1>1, <2>2, <2>3
  <2>4. CASE call \in kept /\ call[1] = t
    <3>1. call \in calls /\ call[2] < n
      BY <1>3, <2>4 DEF NumberedUpTo, n
    <3>2. QED
      BY <1>1, <1>3, <2>2, <2>4, <3>1
  <2>5. CASE call \in kept /\ call[1] # t
    <3>1. call \in calls /\ call[1] <= t /\ call[2] < Cardinality(At(calls, call[1]))
      BY <1>3, <2>5 DEF NumberedUpTo
    <3>2. At(grown, call[1]) = At(calls, call[1])
      <4>1. \A other \in calls : other[1] = call[1] => other \in kept
        BY <1>3, <2>5
      <4>2. \A other : other \in At(grown, call[1]) <=> other \in At(calls, call[1])
        BY <1>1, <1>3, <2>5, <4>1 DEF At
      <4>3. QED
        BY <4>2
    <3>3. QED
      BY <3>1, <3>2
  <2>6. QED
    BY <2>3, <2>4, <2>5
<1>5. NumberedUpTo(grown, t)
  BY <1>4 DEF NumberedUpTo
<1>6. ASSUME NEW x \in Int, t - minute <= x, x < t
      PROVE  Cardinality(After(grown, x)) = Cardinality(After(calls, x)) + 1
  <2>1. \A call \in calls : call[1] > x => call \in kept
    BY <1>3, <1>6
  <2>2. \A call : call \in After(grown, x) <=> call \in After(calls, x) \cup {new}
    BY <1>1, <1>3, <1>6, <2>1 DEF After
  <2>3. After(grown, x) = After(calls, x) \cup {new} /\ new \notin After(calls, x)
    BY <1>2, <2>2 DEF After
  <2>4. IsFiniteSet(After(calls, x))
    BY PartsAreFinite
  <2>5. QED
    BY <2>3, <2>4, FS_AddElement
<1>7. QED
  BY <1>5, <1>6 DEF n, kept

(* CompliantInv for one key: the numbering, and what is left of the budget. *)
Numbered(k) == NumberedUpTo(recent[k], now)
Covered(k, d) ==
    Capacity(k) <= Spare(k) + Refill(k) * d + Token * Cardinality(After(recent[k], now + d - Minute))
Compliant(k) == k \notin overrun => \A d \in 0 .. Minute : Covered(k, d)

LEMMA CompliantInvParts ==
    CompliantInv <=> /\ \A k \in Keys : Numbered(k) /\ Compliant(k)
                     /\ CompliantNeverRefused
BY DEF CompliantInv, Numbered, NumberedUpTo, At, After, Compliant, Covered, Spare

(* In the next state. *)
LEMMA CompliantNext ==
    ASSUME NEW k \in Keys
    PROVE  /\ Numbered(k)' <=> NumberedUpTo(recent'[k], now')
           /\ \A d \in 0 .. Minute : Covered(k, d)' <=>
                 Capacity(k) <= Spare(k)' + Refill(k) * d
                                + Token * Cardinality(After(recent'[k], now' + d - Minute))
BY DEF Numbered, NumberedUpTo, At, After, Covered, Capacity, Refill, Token

LEMMA NumberedLonger ==
    ASSUME NEW calls \in SUBSET (Nat \X Nat), NEW t \in Nat, NEW u \in Nat, t <= u,
           NumberedUpTo(calls, t)
    PROVE  NumberedUpTo(calls, u)
BY DEF NumberedUpTo

(* What the observer notes of a call, in budget or out of it. *)
LEMMA NoteFacts ==
    ASSUME TypeOK, NEW k \in Keys, Numbered(k), Note(k)
    PROVE  /\ NumberedUpTo(recent'[k], now)
           /\ overrun \subseteq overrun'
           /\ \A j \in Keys \ {k} : recent'[j] = recent[j] /\ (j \in overrun' <=> j \in overrun)
           /\ k \notin overrun' =>
                 /\ Cardinality(After(recent[k], now - Minute)) < Refill(k)
                 /\ \A x \in Int : now - Minute <= x /\ x < now =>
                       Cardinality(After(recent'[k], x)) = Cardinality(After(recent[k], x)) + 1
<1> DEFINE grown == After(recent[k], now - Minute) \cup {<<now, Cardinality(At(recent[k], now))>>}
<1>1. /\ recent \in [Keys -> SUBSET (Nat \X Nat)] /\ IsFiniteSet(recent[k]) /\ now \in Nat
      /\ Minute \in Nat \ {0} /\ Refill(k) \in Nat /\ NumberedUpTo(recent[k], now)
  BY KeyFacts, RateLimitAssumption DEF TypeOK, Numbered
<1>2. /\ NumberedUpTo(grown, now)
      /\ \A x \in Int : now - Minute <= x /\ x < now =>
            Cardinality(After(grown, x)) = Cardinality(After(recent[k], x)) + 1
  BY <1>1, OneMoreCall
<1>3. LastMinute(k) \cup {<<now, Cardinality(Current(k))>>} = grown
  BY DEF LastMinute, Current, After, At
<1>4. \/ recent' = [recent EXCEPT ![k] = {}] /\ overrun' = overrun \cup {k}
      \/ /\ recent' = [recent EXCEPT ![k] = grown] /\ overrun' = overrun
         /\ ~(Cardinality(grown) > Refill(k))
  BY <1>3 DEF Note, Refill
<1>5. Cardinality(grown) = Cardinality(After(recent[k], now - Minute)) + 1
  <2>1. After(grown, now - Minute) = grown
    <3>1. \A call \in grown : call[1] > now - Minute
      BY <1>1 DEF After
    <3>2. QED
      BY <3>1 DEF After
  <2>2. now - Minute \in Int /\ now - Minute <= now - Minute /\ now - Minute < now
    BY <1>1
  <2>3. QED
    BY <1>2, <2>1, <2>2
<1>6. Cardinality(After(recent[k], now - Minute)) \in Nat
  BY <1>1, PartsAreFinite
<1>7. NumberedUpTo({}, now)
  BY DEF NumberedUpTo
<1> HIDE DEF grown
<1>8. CASE recent' = [recent EXCEPT ![k] = {}] /\ overrun' = overrun \cup {k}
  BY <1>1, <1>7, <1>8
<1>9. CASE /\ recent' = [recent EXCEPT ![k] = grown] /\ overrun' = overrun
           /\ ~(Cardinality(grown) > Refill(k))
  <2>1. recent'[k] = grown /\ \A j \in Keys \ {k} : recent'[j] = recent[j]
    BY <1>1, <1>9
  <2>2. Cardinality(After(recent[k], now - Minute)) < Refill(k)
    BY <1>1, <1>5, <1>6, <1>9
  <2>3. QED
    BY <1>2, <1>9, <2>1, <2>2
<1>10. QED
  BY <1>4, <1>8, <1>9

(* Time alone keeps a key's budget covered: what a bucket refills while the      *)
(* clock moves is what the invariant counted on.                                 *)
LEMMA TimeKeepsCompliant ==
    ASSUME TypeOK, NEW k \in Keys, Numbered(k), Compliant(k), NEW dt \in Nat, now' = now + dt,
           bucket'[k] = bucket[k], recent'[k] = recent[k], k \in overrun' <=> k \in overrun
    PROVE  Numbered(k)' /\ Compliant(k)'
<1>1. /\ now \in Nat /\ Refill(k) \in Nat /\ Capacity(k) \in Nat /\ Token \in Nat
      /\ Minute \in Nat /\ Token = Minute /\ Capacity(k) = Refill(k) * Minute /\ Spare(k) \in Nat
      /\ recent[k] \in SUBSET (Nat \X Nat) /\ IsFiniteSet(recent[k])
  BY NumberFacts, KeyFacts, RateLimitAssumption DEF TypeOK, Token
<1>2. Numbered(k)'
  <2>1. NumberedUpTo(recent[k], now) /\ now' \in Nat /\ now <= now'
    BY <1>1 DEF Numbered
  <2>2. NumberedUpTo(recent[k], now')
    BY <1>1, <2>1, NumberedLonger
  <2>3. QED
    BY <2>2, CompliantNext
<1>3. /\ Spare(k)' \in Nat
      /\ bucket[k] = NoBucket => Spare(k)' = Capacity(k)
      /\ bucket[k] # NoBucket => Spare(k)' = Spare(k) + Refill(k) * dt
  <2>1. CASE bucket[k] = NoBucket
    BY <1>1, <2>1, NextState
  <2>2. CASE bucket[k] # NoBucket
    <3>1. bucket[k].last \in Nat /\ bucket[k].tokens \in Nat
      BY <2>2 DEF TypeOK
    <3>2. /\ Refill(k) * (now + dt - bucket[k].last)
                = Refill(k) * (now - bucket[k].last) + Refill(k) * dt
          /\ Refill(k) * (now - bucket[k].last) \in Int /\ Refill(k) * dt \in Nat
      BY <1>1, <3>1
    <3>3. Spare(k)' = bucket[k].tokens + Refill(k) * (now + dt - bucket[k].last)
      BY <1>1, <2>2, <3>1, NextState
    <3>4. Spare(k) = bucket[k].tokens + Refill(k) * (now - bucket[k].last)
      BY <2>2 DEF Spare
    <3>5. QED
      BY <1>1, <2>2, <3>1, <3>2, <3>3, <3>4
  <2>3. QED
    BY <2>1, <2>2
<1>4. ASSUME k \notin overrun, NEW d \in 0 .. Minute PROVE Covered(k, d)'
  <2> DEFINE left == Cardinality(After(recent[k], now' + d - Minute))
  <2>1. left \in Nat /\ Token * left \in Nat /\ Refill(k) * d \in Nat
    BY <1>1, PartsAreFinite, ProductInNat
  <2>2. SUFFICES Capacity(k) <= Spare(k)' + Refill(k) * d + Token * left
    BY CompliantNext
  <2>3. CASE bucket[k] = NoBucket
    BY <1>1, <1>3, <2>1, <2>3
  <2>4. CASE bucket[k] # NoBucket /\ dt + d <= Minute
    <3>1. dt + d \in 0 .. Minute
      BY <1>1, <2>4
    <3>2. Covered(k, dt + d)
      BY <1>4, <3>1 DEF Compliant
    <3>3. now + (dt + d) - Minute = now' + d - Minute
      BY <1>1
    <3>4. Refill(k) * (dt + d) = Refill(k) * dt + Refill(k) * d /\ Refill(k) * dt \in Nat
      BY <1>1
    <3>5. Capacity(k) <= Spare(k) + Refill(k) * (dt + d) + Token * left
      BY <3>2, <3>3 DEF Covered
    <3> HIDE DEF left
    <3>6. QED
      BY <1>1, <1>3, <2>1, <2>4, <3>4, <3>5
  <2>5. CASE bucket[k] # NoBucket /\ dt + d > Minute
    <3>1. Refill(k) * (dt + d) = Refill(k) * dt + Refill(k) * d /\ Refill(k) * dt \in Nat
      BY <1>1
    <3>2. Refill(k) * Minute <= Refill(k) * (dt + d)
      BY <1>1, <2>5
    <3> HIDE DEF left
    <3>3. QED
      BY <1>1, <1>3, <2>1, <2>5, <3>1, <3>2
  <2>6. QED
    BY <1>1, <2>3, <2>4, <2>5
<1>5. Compliant(k)'
  <2>1. SUFFICES ASSUME k \notin overrun' PROVE \A d \in 0 .. Minute : Covered(k, d)'
    BY DEF Compliant
  <2>2. QED
    BY <1>4, <2>1
<1>6. QED
  BY <1>2, <1>5

(* A call that is in budget finds a token. *)
LEMMA InBudgetHasToken ==
    ASSUME TypeOK, NEW k \in Keys, Numbered(k), Compliant(k), Note(k), k \notin overrun',
           NEW skew \in Skews(k)
    PROVE  Available(k, skew) >= Token
<1>1. /\ now \in Nat /\ Refill(k) \in Nat /\ Capacity(k) \in Nat /\ Token \in Nat
      /\ Minute \in Nat /\ Token = Minute /\ Capacity(k) = Refill(k) * Minute /\ Spare(k) \in Nat
      /\ IsFiniteSet(recent[k]) /\ Refill(k) # 0
  BY NumberFacts, KeyFacts, RateLimitAssumption DEF TypeOK, Token
<1>2. CASE bucket[k] = NoBucket
  <2>1. skew \in 0 .. MaxSkew /\ skew \in Nat
    BY SkewFacts
  <2>2. Capacity(k) - skew * Refill(k) \in Token .. Capacity(k)
    BY <2>1, KeyFacts
  <2>3. QED
    BY <1>1, <1>2, <2>1, <2>2 DEF Available
<1>3. CASE bucket[k] # NoBucket
  <2> DEFINE n == Cardinality(After(recent[k], now - Minute))
  <2>1. n \in Nat /\ n < Refill(k) /\ k \notin overrun
    BY <1>1, NoteFacts, PartsAreFinite
  <2>2. Covered(k, 0)
    BY <1>1, <2>1 DEF Compliant
  <2>3. Capacity(k) <= Spare(k) + Token * n
    <3>1. now + 0 - Minute = now - Minute /\ Refill(k) * 0 = 0
      BY <1>1
    <3>2. Capacity(k) <= Spare(k) + Refill(k) * 0 + Token * n
      BY <2>2, <3>1 DEF Covered
    <3> HIDE DEF n
    <3>3. QED
      BY <1>1, <2>1, <3>1, <3>2
  <2> HIDE DEF n
  <2>4. Refill(k) * Minute >= Minute * n + Minute /\ Minute * n \in Nat
    <3>1. Refill(k) = n + 1 + (Refill(k) - n - 1) /\ Refill(k) - n - 1 \in Nat
      BY <1>1, <2>1
    <3>2. \A a \in Nat : (n + 1 + a) * Minute = Minute * n + Minute + a * Minute /\ a * Minute \in Nat
      BY <1>1, <2>1
    <3>3. Minute * n \in Nat
      BY <1>1, <2>1
    <3> DEFINE a == Refill(k) - n - 1
    <3>4. a \in Nat /\ Refill(k) = n + 1 + a
      BY <3>1
    <3> HIDE DEF a
    <3>5. QED
      BY <1>1, <2>1, <3>2, <3>3, <3>4
  <2>5. Spare(k) >= Token
    BY <1>1, <2>1, <2>3, <2>4
  <2>6. bucket[k] \in [tokens : Nat, last : Nat] /\ bucket[k].last <= now
    BY <1>3, AvailableFacts
  <2>7. /\ (now - bucket[k].last) * Refill(k) = Refill(k) * (now - bucket[k].last)
        /\ (now - bucket[k].last) * Refill(k) \in Nat
    BY <1>1, <2>6
  <2>8. \/ Available(k, skew) = Spare(k)
        \/ Available(k, skew) = Capacity(k)
    BY <1>1, <1>3, <2>6, <2>7 DEF Available, Spare
  <2>9. Capacity(k) >= Token
    BY <1>1, <2>1, <2>4
  <2>10. QED
    BY <1>1, <2>5, <2>8, <2>9
<1>4. QED
  BY <1>2, <1>3

(* A call in budget takes its token, and is one more call of the last minute. *)
LEMMA CallKeepsCompliant ==
    ASSUME TypeOK, NEW k \in Keys, Numbered(k), Compliant(k), Note(k), NEW skew \in Skews(k),
           now' = now + skew, NEW units \in Nat,
           Available(k, skew) >= Token => units + Token = Available(k, skew),
           bucket' = Refilled(k, units, now)
    PROVE  Numbered(k)' /\ Compliant(k)'
<1>1. /\ now \in Nat /\ Refill(k) \in Nat /\ Capacity(k) \in Nat /\ Token \in Nat
      /\ Minute \in Nat \ {0} /\ Token = Minute /\ Capacity(k) = Refill(k) * Minute
      /\ Spare(k) \in Nat /\ skew \in Nat /\ skew \in 0 .. MaxSkew
      /\ IsFiniteSet(recent[k]) /\ Refill(k) # 0
      /\ recent' \in [Keys -> SUBSET (Nat \X Nat)] /\ IsFiniteSet(recent'[k])
  BY NumberFacts, KeyFacts, SkewFacts, RateLimitAssumption, NoteType DEF TypeOK, Token
<1>2. Numbered(k)'
  <2>1. NumberedUpTo(recent'[k], now) /\ now' \in Nat /\ now <= now'
    BY <1>1, NoteFacts
  <2>2. recent'[k] \in SUBSET (Nat \X Nat)
    BY <1>1
  <2>3. NumberedUpTo(recent'[k], now')
    BY <1>1, <2>1, <2>2, NumberedLonger
  <2>4. QED
    BY <2>3, CompliantNext
<1>3. ASSUME k \notin overrun', NEW d \in 0 .. Minute PROVE Covered(k, d)'
  <2> DEFINE left == Cardinality(After(recent'[k], now' + d - Minute))
             was == Cardinality(After(recent[k], now' + d - Minute))
  <2>1. /\ left \in Nat /\ Token * left \in Nat /\ Refill(k) * d \in Nat
        /\ was \in Nat /\ Token * was \in Nat
    BY <1>1, PartsAreFinite, ProductInNat
  <2>2. units + Token = Available(k, skew) /\ k \notin overrun
    BY <1>3, InBudgetHasToken, NoteFacts
  <2>3. /\ bucket'[k] = [tokens |-> units, last |-> now]
        /\ [tokens |-> units, last |-> now] # NoBucket
    <3>1. [tokens |-> units, last |-> now] \in [tokens : Int, last : Int]
      BY <1>1
    <3>2. QED
      BY <3>1, RateLimitAssumption DEF Refilled, TypeOK
  <2>4. Spare(k)' = units + Refill(k) * skew
    <3>1. Spare(k)' = units + Refill(k) * (now + skew - now)
      BY <1>1, <2>3, NextState
    <3>2. QED
      BY <1>1, <3>1
  <2>5. SUFFICES Capacity(k) <= Spare(k)' + Refill(k) * d + Token * left
    BY CompliantNext
  <2>6. skew + d < Minute => left = was + 1
    <3>1. \A x \in Int : now - Minute <= x /\ x < now =>
              Cardinality(After(recent'[k], x)) = Cardinality(After(recent[k], x)) + 1
      BY <1>3, NoteFacts
    <3>2. ASSUME skew + d < Minute
          PROVE  /\ now' + d - Minute \in Int
                 /\ now - Minute <= now' + d - Minute /\ now' + d - Minute < now
      BY <1>1, <3>2
    <3>3. QED
      BY <3>1, <3>2
  <2>7. Available(k, skew) \in Nat /\ Refill(k) * skew \in Nat
    BY <1>1, AvailableFacts, ProductInNat
  <2>8. left = was + 1 => Token * left = Token * was + Token
    BY <1>1, <2>1
  <2>9. CASE bucket[k] = NoBucket
    <3>1. Available(k, skew) + Refill(k) * skew = Capacity(k)
      BY <2>9, AvailableFacts
    <3>2. CASE skew + d < Minute
      <4> HIDE DEF left, was
      <4>1. QED
        BY <1>1, <2>1, <2>2, <2>4, <2>6, <2>7, <2>8, <3>1, <3>2
    <3>3. CASE skew + d >= Minute
      <4>1. Refill(k) * d >= Token
        <5>1. MaxSkew * Refill(k) <= Minute * (Refill(k) - 1) /\ MaxSkew \in Nat
          BY RateLimitAssumption DEF Keys, Refill
        <5>2. d >= Minute - MaxSkew
          BY <1>1, <3>3, <5>1
        <5>3. Minute * (Refill(k) - 1) = Refill(k) * Minute - Minute
          BY <1>1
        <5>4. Refill(k) * d >= Refill(k) * (Minute - MaxSkew)
          BY <1>1, <5>1, <5>2
        <5>5. Refill(k) * (Minute - MaxSkew) = Refill(k) * Minute - MaxSkew * Refill(k)
          BY <1>1, <5>1
        <5>6. MaxSkew * Refill(k) \in Nat /\ Refill(k) * Minute \in Nat
          BY <1>1, <5>1, ProductInNat
        <5>7. QED
          BY <1>1, <2>1, <5>1, <5>3, <5>4, <5>5, <5>6
      <4> HIDE DEF left, was
      <4>2. QED
        BY <1>1, <2>1, <2>2, <2>4, <2>7, <3>1, <4>1
    <3>4. QED
      BY <1>1, <3>2, <3>3
  <2>10. CASE bucket[k] # NoBucket
    <3>1. skew = 0 /\ Refill(k) * skew = 0 /\ now' = now
      BY <1>1, <2>10, SkewFacts
    <3>2. bucket[k] \in [tokens : Nat, last : Nat] /\ bucket[k].last <= now
      BY <2>10, AvailableFacts
    <3>3. /\ (now - bucket[k].last) * Refill(k) = Refill(k) * (now - bucket[k].last)
          /\ (now - bucket[k].last) * Refill(k) \in Nat
      BY <1>1, <3>2
    <3>4. \/ Available(k, skew) = Spare(k)
          \/ Available(k, skew) = Capacity(k)
      BY <1>1, <2>10, <3>2, <3>3 DEF Available, Spare
    <3>5. CASE d < Minute
      <4>1. Covered(k, d)
        BY <2>2 DEF Compliant
      <4>2. Capacity(k) <= Spare(k) + Refill(k) * d + Token * was
        BY <3>1, <4>1 DEF Covered
      <4>3. left = was + 1
        BY <1>1, <2>6, <3>1, <3>5
      <4>4. Token * left = Token * was + Token
        BY <2>8, <4>3
      <4>5. Spare(k)' = Available(k, skew) - Token
        BY <1>1, <2>2, <2>4, <2>7, <3>1
      <4> HIDE DEF left, was
      <4>6. CASE Available(k, skew) = Spare(k)
        BY <1>1, <2>1, <4>2, <4>4, <4>5, <4>6
      <4>7. CASE Available(k, skew) = Capacity(k)
        BY <1>1, <2>1, <4>4, <4>5, <4>7
      <4>8. QED
        BY <3>4, <4>6, <4>7
    <3>6. CASE d = Minute
      <4> HIDE DEF left
      <4>1. QED
        BY <1>1, <2>1, <2>4, <3>1, <3>6
    <3>7. QED
      BY <1>1, <3>5, <3>6
  <2>11. QED
    BY <2>9, <2>10
<1>4. Compliant(k)'
  <2>1. SUFFICES ASSUME k \notin overrun' PROVE \A d \in 0 .. Minute : Covered(k, d)'
    BY DEF Compliant
  <2>2. QED
    BY <1>3, <2>1
<1>5. QED
  BY <1>2, <1>4

(* A peer that keeps to the documented calls per minute is never refused,       *)
(* however its calls are spread, whatever the clock skew of a bucket's first    *)
(* call, and whenever the process restarts.                                     *)
THEOREM CompliantIsServed == Spec => []CompliantNeverRefused
<1>1. Init => CompliantInv
  <2> SUFFICES ASSUME Init PROVE CompliantInv
    OBVIOUS
  <2>1. \A k \in Keys : recent[k] = {} /\ bucket[k] = NoBucket /\ now = 0
    BY DEF Init
  <2>2. ASSUME NEW k \in Keys PROVE Numbered(k) /\ Compliant(k)
    <3>1. Numbered(k)
      BY <2>1 DEF Numbered, NumberedUpTo
    <3>2. ASSUME NEW d \in 0 .. Minute PROVE Covered(k, d)
      <4> DEFINE left == Cardinality(After(recent[k], now + d - Minute))
      <4>1. Capacity(k) \in Nat /\ Refill(k) \in Nat /\ Token \in Nat /\ d \in Nat
        BY KeyFacts, RateLimitAssumption
      <4>2. left \in Nat
        BY <2>1, FS_EmptySet, PartsAreFinite
      <4>3. Refill(k) * d \in Nat /\ Token * left \in Nat
        BY <4>1, <4>2, ProductInNat
      <4>4. Spare(k) = Capacity(k)
        BY <2>1 DEF Spare
      <4> HIDE DEF left
      <4>5. Capacity(k) <= Spare(k) + Refill(k) * d + Token * left
        BY <4>1, <4>3, <4>4
      <4>6. QED
        BY <4>5 DEF Covered, left
    <3>3. QED
      BY <3>1, <3>2 DEF Compliant
  <2>3. CompliantNeverRefused
    BY DEF Init, CompliantNeverRefused
  <2>4. QED
    BY <2>2, <2>3, CompliantInvParts
<1>2. TypeOK /\ CompliantInv /\ [Next]_vars => CompliantInv'
  <2> SUFFICES ASSUME TypeOK, CompliantInv, [Next]_vars PROVE CompliantInv'
    OBVIOUS
  <2>1. (\A k \in Keys : Numbered(k) /\ Compliant(k)) /\ refused \subseteq overrun
    BY CompliantInvParts DEF CompliantNeverRefused
  <2> SUFFICES /\ \A k \in Keys : Numbered(k)' /\ Compliant(k)'
               /\ refused' \subseteq overrun'
    BY CompliantInvParts, CompliantNext
       DEF CompliantInv, Numbered, NumberedUpTo, At, After, Compliant, Covered, Spare,
           CompliantNeverRefused
  <2>2. ASSUME NEW k \in Keys, NEW skew \in Skews(k), Note(k), now' = now + skew,
               NEW units \in Nat,
               Available(k, skew) >= Token => units + Token = Available(k, skew),
               bucket' = Refilled(k, units, now), NEW j \in Keys
        PROVE  Numbered(j)' /\ Compliant(j)'
    <3>1. CASE j = k
      BY <2>1, <2>2, <3>1, CallKeepsCompliant
    <3>2. CASE j # k
      <4>1. /\ bucket'[j] = bucket[j] /\ recent'[j] = recent[j]
            /\ j \in overrun' <=> j \in overrun
        BY <2>1, <2>2, <3>2, NoteFacts DEF Refilled, TypeOK
      <4>2. skew \in Nat
        BY SkewFacts
      <4>3. QED
        BY <2>1, <2>2, <4>1, <4>2, TimeKeepsCompliant
    <3>3. QED
      BY <3>1, <3>2
  <2>3. ASSUME NEW c \in Clients, NEW m \in Methods, Admit(c, m)
        PROVE  /\ \A j \in Keys : Numbered(j)' /\ Compliant(j)'
               /\ refused' \subseteq overrun'
    <3> DEFINE k == <<PeerOf[c], m>>
    <3>1. k \in Keys
      BY DEF Keys
    <3> HIDE DEF k
    <3>2. PICK skew \in Skews(k) :
             /\ Available(k, skew) >= Token
             /\ bucket' = Refilled(k, Available(k, skew) - Token, now)
             /\ now' = now + skew
             /\ Note(k)
             /\ refused' = refused
      BY <2>3 DEF Admit, k
    <3> DEFINE units == Available(k, skew) - Token
    <3>3. units \in Nat /\ units + Token = Available(k, skew)
      BY <3>1, <3>2, AvailableFacts, KeyFacts
    <3> HIDE DEF units
    <3>4. bucket' = Refilled(k, units, now)
      BY <3>2 DEF units
    <3>5. \A j \in Keys : Numbered(j)' /\ Compliant(j)'
      BY <2>2, <3>1, <3>2, <3>3, <3>4
    <3>6. overrun \subseteq overrun'
      BY <2>1, <3>1, <3>2, NoteFacts
    <3>7. QED
      BY <2>1, <3>2, <3>5, <3>6
  <2>4. ASSUME NEW c \in Clients, NEW m \in Methods, Refuse(c, m)
        PROVE  /\ \A j \in Keys : Numbered(j)' /\ Compliant(j)'
               /\ refused' \subseteq overrun'
    <3> DEFINE k == <<PeerOf[c], m>>
    <3>1. k \in Keys
      BY DEF Keys
    <3> HIDE DEF k
    <3>2. PICK skew \in Skews(k) :
             /\ Available(k, skew) < Token
             /\ bucket' = Refilled(k, Available(k, skew), now)
             /\ now' = now + skew
             /\ refused' = refused \cup {k}
             /\ Note(k)
      BY <2>4 DEF Refuse, k
    <3> DEFINE units == Available(k, skew)
    <3>3. units \in Nat /\ Token \in Nat /\ ~(units >= Token)
      BY <3>1, <3>2, AvailableFacts, KeyFacts
    <3>4. k \in overrun' /\ overrun \subseteq overrun'
      BY <2>1, <3>1, <3>2, <3>3, NoteFacts, InBudgetHasToken
    <3> HIDE DEF units
    <3>5. /\ bucket' = Refilled(k, units, now)
          /\ Available(k, skew) >= Token => units + Token = Available(k, skew)
      BY <3>2, <3>3 DEF units
    <3>6. \A j \in Keys : Numbered(j)' /\ Compliant(j)'
      BY <2>2, <3>1, <3>2, <3>3, <3>5
    <3>7. QED
      BY <2>1, <3>2, <3>4, <3>6
  <2>5. CASE Tick
    <3>1. /\ now' = now + 1 /\ bucket' = bucket /\ recent' = recent /\ overrun' = overrun
          /\ refused' = refused
      BY <2>5 DEF Tick
    <3>2. \A j \in Keys : Numbered(j)' /\ Compliant(j)'
      BY <2>1, <3>1, TimeKeepsCompliant
    <3>3. QED
      BY <2>1, <3>1, <3>2
  <2>6. CASE Restart
    <3>1. /\ now' = now /\ recent' = recent /\ overrun' = overrun /\ refused' = refused
          /\ \A j \in Keys : bucket'[j] = NoBucket
      BY <2>6 DEF Restart
    <3>2. ASSUME NEW j \in Keys PROVE Numbered(j)' /\ Compliant(j)'
      <4>1. Numbered(j)'
        BY <2>1, <3>1, CompliantNext DEF Numbered
      <4>2. ASSUME NEW d \in 0 .. Minute PROVE Covered(j, d)'
        <5> DEFINE left == Cardinality(After(recent'[j], now' + d - Minute))
        <5>1. Capacity(j) \in Nat /\ Refill(j) \in Nat /\ Token \in Nat /\ d \in Nat
          BY KeyFacts, RateLimitAssumption
        <5>2. left \in Nat
          BY <3>1, PartsAreFinite DEF TypeOK
        <5>3. Refill(j) * d \in Nat /\ Token * left \in Nat
          BY <5>1, <5>2, ProductInNat
        <5>4. Spare(j)' = Capacity(j)
          BY <3>1, NextState
        <5> HIDE DEF left
        <5>5. Capacity(j) <= Spare(j)' + Refill(j) * d + Token * left
          BY <5>1, <5>3, <5>4
        <5>6. QED
          BY <5>5, CompliantNext DEF left
      <4>3. QED
        BY <4>1, <4>2 DEF Compliant
    <3>3. QED
      BY <2>1, <3>1, <3>2
  <2>7. CASE UNCHANGED vars
    <3>1. /\ now' = now + 0 /\ bucket' = bucket /\ recent' = recent /\ overrun' = overrun
          /\ refused' = refused
      BY <2>7, RateLimitAssumption DEF vars, TypeOK
    <3>2. \A j \in Keys : Numbered(j)' /\ Compliant(j)'
      BY <2>1, <3>1, TimeKeepsCompliant
    <3>3. QED
      BY <2>1, <3>1, <3>2
  <2>8. QED
    BY <2>3, <2>4, <2>5, <2>6, <2>7 DEF Next
<1>3. CompliantInv => CompliantNeverRefused
  BY DEF CompliantInv
<1>4. QED
  BY <1>1, <1>2, <1>3, TypeCorrect, PTL DEF Spec
=============================================================================
