-------------------------- MODULE GuardedLlmProofs --------------------------
(***************************************************************************)
(* Proofs about GuardedLlm, for any calls, clients, budgets, providers and *)
(* bounds: what the limiter grants bounds what the models are asked for.   *)
(***************************************************************************)
EXTENDS GuardedLlm, RateLimitProofs

-----------------------------------------------------------------------------
(* The calls in LlmRpc *)

(* What a step of a call does to its place and its requests. *)
LEMMA CallStep ==
    ASSUME TicketInv, NEW c \in Calls,
           Rpc!Proceed(c) \/ Rpc!Cancel(c) \/ Rpc!EndAtOnce(c) \/ Rpc!Begin(c) \/ Rpc!Refuse(c)
    PROVE  /\ UNCHANGED model
           /\ \E stage \in {"reading", "asking", "storing", "stored", "over"},
                 n \in 0 .. MostAttempts :
                 /\ pc' = [pc EXCEPT ![c] = stage]
                 /\ asked' = [asked EXCEPT ![c] = n]
<1> USE DEF Rpc!End, Rpc!Answer, Rpc!Abort, Rpc!Decline, Rpc!Fail, Rpc!AskFirst, Rpc!bounds
<1>1. /\ MostAttempts \in Nat
      /\ Attempts[model] \in 1 .. MostAttempts /\ asked[c] \in 0 .. MostAttempts
  BY GuardedAssumption DEF TicketInv
<1>2. UNCHANGED asked => asked' = [asked EXCEPT ![c] = asked[c]]
  BY DEF TicketInv
<1>3. UNCHANGED pc => pc' = [pc EXCEPT ![c] = pc[c]]
  BY DEF TicketInv
<1>4. CASE Rpc!Hit(c) \/ Rpc!StoreRaises(c) \/ Rpc!Return(c) \/ Rpc!Generate(c) \/ Rpc!Down(c)
           \/ Rpc!Escape(c) \/ Rpc!Store(c)
  BY <1>1, <1>2, <1>4 DEF Rpc!Hit, Rpc!StoreRaises, Rpc!Return, Rpc!Generate, Rpc!Down,
                          Rpc!Escape, Rpc!Store
<1>5. CASE Rpc!Miss(c) \/ Rpc!ReadRaises(c)
  <2>1. 1 \in 0 .. MostAttempts
    BY <1>1
  <2>2. QED
    BY <1>5, <2>1 DEF Rpc!Miss, Rpc!ReadRaises
<1>6. CASE Rpc!Misfit(c)
  <2>1. CASE asked[c] < Attempts[model] /\ asked' = [asked EXCEPT ![c] = @ + 1] /\ UNCHANGED pc
    <3>1. pc[c] = "asking" /\ UNCHANGED model
      BY <1>6 DEF Rpc!Misfit
    <3>2. asked[c] + 1 \in 0 .. MostAttempts
      BY <1>1, <2>1
    <3>3. QED
      BY <1>3, <2>1, <3>1, <3>2
  <2>2. QED
    BY <1>1, <1>2, <1>6, <2>1 DEF Rpc!Misfit
<1>7. CASE Rpc!Cancel(c) \/ Rpc!EndAtOnce(c) \/ Rpc!Refuse(c)
  BY <1>1, <1>2, <1>7 DEF Rpc!Cancel, Rpc!EndAtOnce, Rpc!Refuse
<1>8. CASE Rpc!Begin(c)
  <2>1. 0 \in 0 .. MostAttempts /\ 1 \in 0 .. MostAttempts
    BY <1>1
  <2>2. QED
    BY <1>8, <2>1 DEF Rpc!Begin
<1>9. QED
  BY <1>4, <1>5, <1>6, <1>7, <1>8 DEF Rpc!Proceed

(* A call with a token keeps the invariant, whatever it does. *)
LEMMA CallKeepsTicketInv ==
    ASSUME TicketInv, NEW c \in Calls,
           ticket' \in [Calls -> {"none", "early", "in"}], ticket'[c] # "none",
           \A d \in Calls \ {c} : ticket'[d] = ticket[d],
           Rpc!Proceed(c) \/ Rpc!Cancel(c) \/ Rpc!EndAtOnce(c) \/ Rpc!Begin(c)
    PROVE  TicketInv'
<1>1. PICK stage \in {"reading", "asking", "storing", "stored", "over"}, n \in 0 .. MostAttempts :
         pc' = [pc EXCEPT ![c] = stage] /\ asked' = [asked EXCEPT ![c] = n]
  BY CallStep
<1>2. UNCHANGED model
  BY CallStep
<1>3. n \in Nat /\ n <= MostAttempts
  BY GuardedAssumption
<1>4. QED
  BY <1>1, <1>2, <1>3 DEF TicketInv

LEMMA NextKeepsTicketInv ==
    ASSUME TicketInv, [GuardedNext]_guardedVars
    PROVE  TicketInv'
<1>1. ASSUME NEW c \in Calls, Pass(c) PROVE TicketInv'
  <2>1. /\ ticket' \in [Calls -> {"none", "early", "in"}] /\ ticket'[c] # "none"
        /\ \A d \in Calls \ {c} : ticket'[d] = ticket[d]
    BY <1>1 DEF Pass, Stamp, TicketInv
  <2>2. QED
    BY <1>1, <2>1, CallKeepsTicketInv DEF Pass
<1>2. ASSUME NEW c \in Calls, TurnAway(c) PROVE TicketInv'
  <2>1. pc' = [pc EXCEPT ![c] = "over"] /\ UNCHANGED <<asked, model, ticket>>
    BY <1>2 DEF TurnAway, Rpc!Refuse, Rpc!End
  <2>2. QED
    BY <2>1 DEF TicketInv
<1>3. ASSUME NEW c \in Calls, Work(c) PROVE TicketInv'
  <2>1. pc[c] \in {"reading", "asking", "storing", "stored"}
    BY <1>3 DEF Work, Rpc!Proceed, Rpc!Hit, Rpc!Miss, Rpc!ReadRaises, Rpc!Generate, Rpc!Misfit,
                Rpc!Down, Rpc!Escape, Rpc!Store, Rpc!StoreRaises, Rpc!Return
  <2>2. QED
    BY <1>3, <2>1, CallKeepsTicketInv DEF Work, TicketInv
<1>4. ASSUME NEW c \in Calls, GiveUp(c) PROVE TicketInv'
  BY <1>4, CallKeepsTicketInv DEF GiveUp, Rpc!Cancel, Rpc!Waiting, TicketInv
<1>5. CASE \E k \in Rpc!Keys : EntryDropped(k)
  BY <1>5 DEF EntryDropped, Rpc!Drop, TicketInv
<1>6. CASE TimePasses
  BY <1>6 DEF TimePasses, rpcVars, TicketInv
<1>7. CASE NewProcess
  <2>1. /\ pc' = [c \in Calls |-> IF Rpc!Waiting(c) THEN "over" ELSE pc[c]]
        /\ model' \in Models /\ UNCHANGED <<asked, ticket>>
    BY <1>7 DEF NewProcess, Rpc!Restart
  <2>2. QED
    BY <2>1 DEF TicketInv
<1>8. CASE UNCHANGED guardedVars
  BY <1>8 DEF guardedVars, rpcVars, TicketInv
<1>9. QED
  BY <1>1, <1>2, <1>3, <1>4, <1>5, <1>6, <1>7, <1>8 DEF GuardedNext

-----------------------------------------------------------------------------
(* The limiter *)

(* The limiter does not notice what is behind it. *)
LEMMA LimiterStep ==
    ASSUME [GuardedNext]_guardedVars
    PROVE  [Next]_vars
<1>1. ASSUME NEW c \in Calls PROVE ClientOf[c] \in Clients /\ MethodOf[c] \in Methods
  BY GuardedAssumption
<1>2. ASSUME NEW c \in Calls, Pass(c) \/ TurnAway(c) PROVE Next
  BY <1>1, <1>2 DEF Pass, TurnAway, Next
<1>3. CASE TimePasses \/ NewProcess
  BY <1>3 DEF TimePasses, NewProcess, Next
<1>4. CASE UNCHANGED vars
  BY <1>4
<1>5. QED
  BY <1>2, <1>3, <1>4 DEF GuardedNext, guardedVars, Work, GiveUp, EntryDropped

(* The calls do not notice what is in front of them. *)
LEMMA CallsStep ==
    ASSUME [GuardedNext]_guardedVars
    PROVE  [Rpc!Next]_Rpc!vars
<1>1. ASSUME NEW c \in Calls, Pass(c) \/ TurnAway(c) \/ Work(c) \/ GiveUp(c) PROVE Rpc!Next
  BY <1>1 DEF Pass, TurnAway, Work, GiveUp, Rpc!Next
<1>2. CASE (\E k \in Rpc!Keys : EntryDropped(k)) \/ NewProcess
  BY <1>2 DEF EntryDropped, NewProcess, Rpc!Next
<1>3. CASE UNCHANGED <<rpcVars, restarts>>
  BY <1>3 DEF rpcVars, Rpc!vars
<1>4. QED
  BY <1>1, <1>2, <1>3 DEF GuardedNext, guardedVars, vars, TimePasses, Tick

(* The composition keeps to both of its parts: what is proved about the limiter *)
(* and about the calls, each for itself, holds of the two together.             *)
THEOREM KeepsToBoth == GuardedSpec => Spec /\ Rpc!Spec
<1>1. GuardedInit => Init /\ Rpc!Init
  BY DEF GuardedInit
<1>2. [GuardedNext]_guardedVars => [Next]_vars /\ [Rpc!Next]_Rpc!vars
  BY LimiterStep, CallsStep
<1>3. QED
  BY <1>1, <1>2, PTL DEF GuardedSpec, Spec, Rpc!Spec

(* Every token of the window is in the limiter's count. *)
LEMMA PassKeepsCountInv ==
    ASSUME TypeOK, TicketInv, CountInv, NEW c \in Calls, Pass(c)
    PROVE  CountInv'
<1> SUFFICES ASSUME NEW k \in Keys PROVE Cardinality(InWindow(k)') <= admitted'[k]
  BY DEF CountInv
<1>1. admitted \in [Keys -> Nat] /\ admitted[k] \in Nat
  BY DEF TypeOK
<1>2. admitted' = [admitted EXCEPT ![KeyOf(c)] = IF now >= since THEN @ + 1 ELSE @]
  BY DEF Pass, Admit, KeyOf
<1>3. ticket' = [ticket EXCEPT ![c] = IF now >= since THEN "in" ELSE "early"]
      /\ ticket \in [Calls -> {"none", "early", "in"}]
  BY DEF Pass, Stamp, TicketInv
<1>4. IsFiniteSet(InWindow(k)) /\ Cardinality(InWindow(k)) \in Nat
  BY GuardedAssumption, FS_Subset, FS_CardinalityType DEF InWindow
<1>5. CASE KeyOf(c) = k /\ now >= since
  <2>1. InWindow(k)' \in SUBSET (InWindow(k) \cup {c})
    BY <1>3 DEF InWindow, KeyOf
  <2>2. /\ IsFiniteSet(InWindow(k) \cup {c})
        /\ Cardinality(InWindow(k) \cup {c}) <= Cardinality(InWindow(k)) + 1
        /\ Cardinality(InWindow(k) \cup {c}) \in Nat
    <3> DEFINE S == InWindow(k)
    <3>1. IsFiniteSet(S) /\ Cardinality(S) \in Nat
      BY <1>4
    <3> HIDE DEF S
    <3>2. Cardinality(S \cup {c}) \in {Cardinality(S), Cardinality(S) + 1} /\ IsFiniteSet(S \cup {c})
      BY <3>1, FS_AddElement
    <3>3. QED
      BY <3>1, <3>2 DEF S
  <2>3. Cardinality(InWindow(k)') <= Cardinality(InWindow(k) \cup {c})
        /\ Cardinality(InWindow(k)') \in Nat
    BY <2>1, <2>2, FS_Subset, FS_CardinalityType
  <2>4. admitted'[k] = admitted[k] + 1 /\ Cardinality(InWindow(k)) <= admitted[k]
    BY <1>1, <1>2, <1>5 DEF CountInv
  <2>5. QED
    BY <1>1, <1>4, <2>2, <2>3, <2>4
<1>6. CASE ~ (KeyOf(c) = k /\ now >= since)
  <2>1. InWindow(k)' \in SUBSET InWindow(k)
    BY <1>3, <1>6 DEF InWindow, KeyOf
  <2>2. Cardinality(InWindow(k)') <= Cardinality(InWindow(k)) /\ Cardinality(InWindow(k)') \in Nat
    BY <1>4, <2>1, FS_Subset, FS_CardinalityType
  <2>3. admitted'[k] = admitted[k] /\ Cardinality(InWindow(k)) <= admitted[k]
    BY <1>1, <1>2, <1>6 DEF CountInv
  <2>4. QED
    BY <1>1, <1>4, <2>2, <2>3
<1>7. QED
  BY <1>5, <1>6

LEMMA NextKeepsCountInv ==
    ASSUME TypeOK, TicketInv, CountInv, [GuardedNext]_guardedVars
    PROVE  CountInv'
<1>1. CASE UNCHANGED <<ticket, admitted>>
  BY <1>1 DEF CountInv, InWindow, KeyOf
<1>2. CASE \E c \in Calls : Pass(c)
  BY <1>2, PassKeepsCountInv
<1>3. QED
  BY <1>1, <1>2 DEF GuardedNext, guardedVars, vars, TurnAway, Refuse, Work, GiveUp,
                    EntryDropped, TimePasses, Tick, NewProcess, Restart

-----------------------------------------------------------------------------
(* The bill *)

(* The requests of a key are pairs of a call with a token of the window and one *)
(* of its attempts.                                                             *)
LEMMA RequestsAreCounted ==
    ASSUME TypeOK, TicketInv, CountInv, NEW k \in Keys
    PROVE  /\ Cardinality(ModelRequests(k)) \in Nat
           /\ Cardinality(ModelRequests(k)) <= admitted[k] * MostAttempts
           /\ ModelRequests(k) # {} => admitted[k] > 0
<1> DEFINE S == InWindow(k)
<1>1. MostAttempts \in Nat /\ admitted[k] \in Nat
  BY GuardedAssumption DEF TypeOK
<1>2. IsFiniteSet(S) /\ Cardinality(S) \in Nat
  BY GuardedAssumption, FS_Subset, FS_CardinalityType DEF InWindow
<1>3. IsFiniteSet(1 .. MostAttempts) /\ Cardinality(1 .. MostAttempts) = MostAttempts
  BY <1>1, FS_Interval
<1>4. ModelRequests(k) \in SUBSET (S \X (1 .. MostAttempts))
  <2> SUFFICES ASSUME NEW p \in ModelRequests(k) PROVE p \in S \X (1 .. MostAttempts)
    OBVIOUS
  <2>1. PICK c \in CallsOf(k) : p \in {c} \X (1 .. asked[c])
    BY DEF ModelRequests
  <2>2. c \in Calls /\ asked[c] \in Nat /\ asked[c] > 0 /\ asked[c] <= MostAttempts
    BY <2>1 DEF CallsOf, TicketInv
  <2>3. c \in S
    BY <2>1, <2>2 DEF CallsOf, InWindow, TicketInv
  <2>4. 1 .. asked[c] \subseteq 1 .. MostAttempts
    BY <1>1, <2>2
  <2>5. QED
    BY <2>1, <2>3, <2>4
<1>5. IsFiniteSet(S \X (1 .. MostAttempts))
      /\ Cardinality(S \X (1 .. MostAttempts)) = Cardinality(S) * MostAttempts
  BY <1>2, <1>3, FS_Product
<1>6. IsFiniteSet(ModelRequests(k))
      /\ Cardinality(ModelRequests(k)) <= Cardinality(S) * MostAttempts
  BY <1>4, <1>5, FS_Subset
<1>7. Cardinality(S) <= admitted[k]
  BY DEF CountInv
<1>8. Cardinality(S) * MostAttempts <= admitted[k] * MostAttempts
      /\ Cardinality(S) * MostAttempts \in Nat /\ admitted[k] * MostAttempts \in Nat
  BY <1>1, <1>2, <1>7
<1>9. Cardinality(ModelRequests(k)) \in Nat
  BY <1>6, FS_CardinalityType
<1>10. ModelRequests(k) # {} => Cardinality(S) # 0
  BY <1>2, <1>4, FS_EmptySet
<1>11. QED
  BY <1>1, <1>2, <1>6, <1>7, <1>8, <1>9, <1>10

LEMMA Multiplied ==
    ASSUME NEW r \in Nat, NEW a \in Nat, NEW n \in Nat, NEW t \in Nat, NEW b \in Int,
           r <= a * n, a * t <= b
    PROVE  r * t <= n * b
<1>1. r * t <= (a * n) * t
  OBVIOUS
<1>2. (a * n) * t = n * (a * t)
  OBVIOUS
<1>3. n * (a * t) <= n * b
  OBVIOUS
<1>4. QED
  BY <1>1, <1>2, <1>3

(* The limiter protects the budget of the models: in any window, what the calls *)
(* of a peer to a method cost is within the calls the bucket may have granted,  *)
(* times the attempts of a provider.                                            *)
THEOREM SpendAlwaysWithinBudget == GuardedSpec => []SpendWithinBudget
<1>1. GuardedInit => Init /\ TicketInv /\ CountInv
  <2> SUFFICES ASSUME GuardedInit PROVE TicketInv /\ CountInv
    BY DEF GuardedInit
  <2>1. TicketInv
    BY GuardedAssumption DEF GuardedInit, Rpc!Init, TicketInv
  <2>2. \A k \in Keys : InWindow(k) = {} /\ admitted[k] = 0
    BY DEF GuardedInit, Init, InWindow
  <2>3. QED
    BY <2>1, <2>2, FS_EmptySet DEF CountInv
<1>2. [GuardedNext]_guardedVars => [Next]_vars
  BY LimiterStep
<1>3. TypeOK /\ TicketInv /\ CountInv /\ [GuardedNext]_guardedVars => TicketInv' /\ CountInv'
  BY NextKeepsTicketInv, NextKeepsCountInv
<1>4. TypeOK /\ TicketInv /\ CountInv /\ WindowBound => SpendWithinBudget
  <2> SUFFICES ASSUME TypeOK, TicketInv, CountInv, WindowBound, NEW k \in Keys,
                      ModelRequests(k) # {}
               PROVE  Cardinality(ModelRequests(k)) * Token
                        <= MostAttempts * (Capacity(k) * (1 + reboots) + Refill(k) * (now - since))
    BY DEF SpendWithinBudget
  <2> DEFINE granted == Capacity(k) * (1 + reboots) + Refill(k) * (now - since)
  <2>1. /\ Cardinality(ModelRequests(k)) \in Nat
        /\ Cardinality(ModelRequests(k)) <= admitted[k] * MostAttempts
        /\ admitted[k] > 0
    BY RequestsAreCounted
  <2>2. admitted[k] * Token <= granted
    BY <2>1 DEF WindowBound
  <2>3. admitted[k] \in Nat /\ MostAttempts \in Nat /\ Token \in Nat /\ granted \in Int
    BY GuardedAssumption, KeyFacts, RateLimitAssumption DEF TypeOK
  <2> HIDE DEF granted
  <2>4. QED
    BY <2>1, <2>2, <2>3, Multiplied DEF granted
<1>5. QED
  BY <1>1, <1>2, <1>3, <1>4, TypeCorrect, WindowAlwaysBounded, PTL DEF GuardedSpec, Spec
=============================================================================
