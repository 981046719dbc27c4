---------------------------- MODULE LlmRpcProofs ----------------------------
(***************************************************************************)
(* Proofs about LlmRpc, for any calls, requests, models, numbers of        *)
(* attempts and bounds on faults, dropped entries and restarts.            *)
(***************************************************************************)
EXTENDS LlmRpc, TLAPS

-----------------------------------------------------------------------------
(* How a call ends *)

(* A call that ends without an artifact: what changes is its pc and reply. *)
LEMMA EndFacts ==
    ASSUME TypeOK, NEW c \in Calls, NEW status \in Statuses, End(c, status)
    PROVE  /\ pc' = [pc EXCEPT ![c] = "over"]
           /\ reply' = [reply EXCEPT ![c] = [status |-> status, version |-> Nothing,
                                             artifact |-> Nothing]]
           /\ pc' \in [Calls -> {"idle", "reading", "asking", "storing", "stored", "over"}]
           /\ reply' \in [Calls -> [status : Statuses, version : Models \cup {Nothing},
                                    artifact : Artifacts \cup {Nothing}]]
<1>1. [NoReply EXCEPT !.status = status] = [status |-> status, version |-> Nothing,
                                            artifact |-> Nothing]
  BY DEF NoReply
<1>2. QED
  BY <1>1 DEF End, TypeOK

(* An answer: its reply holds the artifact, and the call is counted. *)
LEMMA AnswerFacts ==
    ASSUME TypeOK, NEW c \in Calls, NEW a \in Artifacts \cup {Nothing}, Answer(c, a)
    PROVE  /\ pc' = [pc EXCEPT ![c] = "over"]
           /\ reply' = [reply EXCEPT ![c] = [status |-> "answer", version |-> model,
                                             artifact |-> a]]
           /\ Measure(c, "ok")
           /\ pc' \in [Calls -> {"idle", "reading", "asking", "storing", "stored", "over"}]
           /\ reply' \in [Calls -> [status : Statuses, version : Models \cup {Nothing},
                                    artifact : Artifacts \cup {Nothing}]]
BY DEF Answer, TypeOK, Statuses

(* A call is counted under one status. *)
LEMMA MeasureFacts ==
    ASSUME TypeOK, NEW c \in Calls, NEW s \in {"ok", "error"}, Measure(c, s)
    PROVE  /\ measured' \in [Calls -> [{"ok", "error"} -> Nat]]
           /\ measured'[c]["ok"] + measured'[c]["error"]
                = measured[c]["ok"] + measured[c]["error"] + 1
           /\ measured'[c]["ok"] # measured[c]["ok"] => s = "ok"
           /\ \A d \in Calls \ {c} : measured'[d] = measured[d]
<1>1. measured[c] \in [{"ok", "error"} -> Nat]
  BY DEF TypeOK
<1>2. measured' = [measured EXCEPT ![c] = [measured[c] EXCEPT ![s] = measured[c][s] + 1]]
  BY DEF Measure
<1>3. [measured[c] EXCEPT ![s] = measured[c][s] + 1] \in [{"ok", "error"} -> Nat]
  BY <1>1
<1>4. measured'[c] = [measured[c] EXCEPT ![s] = measured[c][s] + 1]
  BY <1>2 DEF TypeOK
<1>5. QED
  BY <1>1, <1>2, <1>3, <1>4 DEF TypeOK

(* A failure the servicer knows: reported in the response or as an error, and    *)
(* counted once in either case.                                                  *)
LEMMA FailFacts ==
    ASSUME TypeOK, NEW c \in Calls, Fail(c) \/ Abort(c)
    PROVE  \E status \in {"declined", "aborted"}, s \in {"ok", "error"} :
              End(c, status) /\ Measure(c, s) /\ (s = "ok" => status = "declined")
BY DEF Fail, Decline, Abort

(* What the model gives c is an artifact. *)
LEMMA NewFacts ==
    ASSUME TypeOK, NEW c \in Calls
    PROVE  /\ Key(c) \in Keys
           /\ [key |-> Key(c), prompt |-> Prompt(c), model |-> model, by |-> c] \in Artifacts
BY DEF TypeOK, Keys, Artifacts

-----------------------------------------------------------------------------
(* Type correctness *)

LEMMA ProceedType ==
    ASSUME TypeOK, NEW c \in Calls, Proceed(c)
    PROVE  TypeOK'
<1>1. CASE Hit(c)
  BY <1>1, NewFacts, AnswerFacts, MeasureFacts DEF Hit, TypeOK, bounds
<1>2. CASE Miss(c)
  BY <1>2 DEF Miss, AskFirst, TypeOK, bounds
<1>3. CASE ReadRaises(c)
  BY <1>3, LlmRpcAssumption DEF ReadRaises, AskFirst, Faulty, TypeOK
<1>4. CASE Generate(c)
  <2> DEFINE new == [key |-> Key(c), prompt |-> Prompt(c), model |-> model, by |-> c]
  <2>1. new \in Artifacts
    BY NewFacts
  <2> HIDE DEF new
  <2>2. /\ draft' = [draft EXCEPT ![c] = new]
        /\ \/ pc' = [pc EXCEPT ![c] = "storing"] /\ UNCHANGED <<reply, measured>>
           \/ Answer(c, new)
        /\ UNCHANGED <<asked, cache, model, purged, bounds>>
    BY <1>4 DEF Generate, new
  <2>3. draft' \in [Calls -> Artifacts \cup {Nothing}]
    BY <2>1, <2>2 DEF TypeOK
  <2>4. CASE Answer(c, new)
    BY <2>1, <2>2, <2>3, <2>4, AnswerFacts, MeasureFacts DEF TypeOK, bounds
  <2>5. CASE pc' = [pc EXCEPT ![c] = "storing"] /\ UNCHANGED <<reply, measured>>
    BY <2>2, <2>3, <2>5 DEF TypeOK, bounds
  <2>6. QED
    BY <2>2, <2>4, <2>5
<1>5. CASE Misfit(c)
  <2>1. CASE Fail(c) /\ UNCHANGED asked
    BY <1>5, <2>1, FailFacts, EndFacts, MeasureFacts DEF Misfit, Statuses, TypeOK, bounds
  <2>2. CASE asked' = [asked EXCEPT ![c] = @ + 1] /\ UNCHANGED <<pc, reply, measured>>
    BY <1>5, <2>2 DEF Misfit, TypeOK, bounds
  <2>3. QED
    BY <1>5, <2>1, <2>2 DEF Misfit
<1>6. CASE Down(c) \/ Escape(c)
  BY <1>6, FailFacts, EndFacts, MeasureFacts DEF Down, Escape, Statuses, TypeOK, bounds
<1>7. CASE Store(c)
  BY <1>7, NewFacts DEF Store, Put, TypeOK, bounds
<1>8. CASE StoreRaises(c)
  <2>1. draft[c] \in Artifacts \cup {Nothing} /\ Answer(c, draft[c])
    BY <1>8 DEF StoreRaises, TypeOK
  <2>2. cache' \in [Keys -> Artifacts \cup {Nothing}]
    BY <1>8, NewFacts DEF StoreRaises, Put, TypeOK
  <2>3. faults' \in 0 .. MaxFaults
    BY <1>8, LlmRpcAssumption DEF StoreRaises, Faulty, TypeOK
  <2>4. QED
    BY <1>8, <2>1, <2>2, <2>3, AnswerFacts, MeasureFacts DEF StoreRaises, TypeOK
<1>9. CASE Return(c)
  <2>1. draft[c] \in Artifacts \cup {Nothing} /\ Answer(c, draft[c])
    BY <1>9 DEF Return, TypeOK
  <2>2. QED
    BY <1>9, <2>1, AnswerFacts, MeasureFacts DEF Return, TypeOK, bounds
<1>10. QED
  BY <1>1, <1>2, <1>3, <1>4, <1>5, <1>6, <1>7, <1>8, <1>9 DEF Proceed

(* Every variable keeps its type: a cache entry is always an artifact. *)
THEOREM TypeCorrect == Spec => []TypeOK
<1>1. Init => TypeOK
  BY LlmRpcAssumption DEF Init, TypeOK, NoReply, Statuses
<1>2. TypeOK /\ [Next]_vars => TypeOK'
  <2> SUFFICES ASSUME TypeOK, [Next]_vars PROVE TypeOK'
    OBVIOUS
  <2>1. ASSUME NEW c \in Calls, Refuse(c) PROVE TypeOK'
    BY <2>1, EndFacts DEF Refuse, Statuses, TypeOK, bounds
  <2>2. ASSUME NEW c \in Calls, EndAtOnce(c) PROVE TypeOK'
    <3>1. CASE Fail(c)
      BY <2>2, <3>1, FailFacts, EndFacts, MeasureFacts
         DEF EndAtOnce, Statuses, TypeOK, bounds
    <3>2. CASE Answer(c, Nothing)
      BY <2>2, <3>2, AnswerFacts, MeasureFacts DEF EndAtOnce, TypeOK, bounds
    <3>3. QED
      BY <2>2, <3>1, <3>2 DEF EndAtOnce
  <2>3. ASSUME NEW c \in Calls, Begin(c) PROVE TypeOK'
    BY <2>3 DEF Begin, TypeOK, bounds
  <2>4. ASSUME NEW c \in Calls, Cancel(c) PROVE TypeOK'
    BY <2>4, EndFacts, MeasureFacts DEF Cancel, Statuses, TypeOK, bounds
  <2>5. ASSUME NEW c \in Calls, Proceed(c) PROVE TypeOK'
    BY <2>5, ProceedType
  <2>6. ASSUME NEW k \in Keys, Drop(k) PROVE TypeOK'
    BY <2>6, LlmRpcAssumption DEF Drop, TypeOK
  <2>7. CASE Restart
    <3>1. [NoReply EXCEPT !.status = "lost"] \in
              [status : Statuses, version : Models \cup {Nothing},
               artifact : Artifacts \cup {Nothing}]
      BY DEF NoReply, Statuses
    <3>2. QED
      BY <2>7, <3>1, LlmRpcAssumption DEF Restart, TypeOK
  <2>8. CASE UNCHANGED vars
    BY <2>8 DEF vars, TypeOK
  <2>9. QED
    BY <2>1, <2>2, <2>3, <2>4, <2>5, <2>6, <2>7, <2>8 DEF Next
<1>3. QED
  BY <1>1, <1>2, PTL DEF Spec

-----------------------------------------------------------------------------
(* How far a call is *)

(* What the ends of a call have in common. *)
LEMMA EndingFacts ==
    ASSUME TypeOK, CallInv, NEW c \in Calls, pc[c] # "over",
           NEW status \in Statuses \ {"none"}, NEW a \in Artifacts \cup {Nothing},
           a # Nothing => status = "answer",
           UNCHANGED <<asked, model>>, draft'[c] = draft[c] \/ pc[c] = "asking",
           \A d \in Calls \ {c} : draft'[d] = draft[d],
           pc' = [pc EXCEPT ![c] = "over"],
           \A d \in Calls \ {c} : reply'[d] = reply[d],
           reply'[c].status = status, reply'[c].artifact = a
    PROVE  CallInv'
<1>1. ASSUME NEW d \in Calls \ {c}
      PROVE  pc'[d] = pc[d] /\ reply'[d] = reply[d] /\ draft'[d] = draft[d]
  BY DEF TypeOK
<1>2. pc'[c] = "over"
  BY DEF TypeOK
<1>3. QED
  BY <1>1, <1>2 DEF CallInv, Cacheable

LEMMA EndKeepsCallInv ==
    ASSUME TypeOK, CallInv, NEW c \in Calls, pc[c] # "over",
           NEW status \in Statuses \ {"none"}, End(c, status),
           UNCHANGED <<asked, draft, model>>
    PROVE  CallInv'
<1>1. pc' = [pc EXCEPT ![c] = "over"]
  BY EndFacts
<1>2. /\ reply'[c].status = status /\ reply'[c].artifact = Nothing
      /\ \A d \in Calls \ {c} : reply'[d] = reply[d]
  BY EndFacts DEF TypeOK
<1>3. QED
  BY <1>1, <1>2, EndingFacts

LEMMA AnswerKeepsCallInv ==
    ASSUME TypeOK, CallInv, NEW c \in Calls, pc[c] # "over",
           NEW a \in Artifacts \cup {Nothing}, Answer(c, a), UNCHANGED <<asked, model>>,
           draft'[c] = draft[c] \/ pc[c] = "asking",
           \A d \in Calls \ {c} : draft'[d] = draft[d]
    PROVE  CallInv'
<1>1. pc' = [pc EXCEPT ![c] = "over"]
  BY AnswerFacts
<1>2. /\ reply'[c].status = "answer" /\ reply'[c].artifact = a
      /\ \A d \in Calls \ {c} : reply'[d] = reply[d]
  BY AnswerFacts DEF TypeOK
<1>3. "answer" \in Statuses \ {"none"}
  BY DEF Statuses
<1>4. QED
  BY <1>1, <1>2, <1>3, EndingFacts

(* The same for a call that goes on. *)
LEMMA GoingOnFacts ==
    ASSUME TypeOK, CallInv, NEW c \in Calls, pc[c] # "over",
           NEW next \in {"reading", "asking", "storing", "stored"},
           pc' = [pc EXCEPT ![c] = next], UNCHANGED <<reply, model>>,
           \A d \in Calls \ {c} : asked'[d] = asked[d] /\ draft'[d] = draft[d],
           c \notin Trivial, next = "reading" => asked'[c] = 0,
           next \in {"reading", "asking"} => draft'[c] = Nothing,
           next \in {"reading", "storing", "stored"} => Cacheable(c),
           next \in {"storing", "stored"} => draft'[c] # Nothing,
           next = "asking" => asked'[c] \in 1 .. Attempts[model]
    PROVE  CallInv'
<1>1. ASSUME NEW d \in Calls \ {c} PROVE pc'[d] = pc[d] /\ reply'[d] = reply[d]
  BY DEF TypeOK
<1>2. pc'[c] = next
  BY DEF TypeOK
<1>3. QED
  BY <1>1, <1>2 DEF CallInv, Cacheable

LEMMA AttemptsFacts == TypeOK => Attempts[model] \in Nat \ {0} /\ 1 \in 1 .. Attempts[model]
BY LlmRpcAssumption DEF TypeOK

LEMMA ProceedKeepsCallInv ==
    ASSUME TypeOK, CallInv, NEW c \in Calls, Proceed(c)
    PROVE  CallInv'
<1>1. CASE Hit(c)
  <2>1. cache[Key(c)] \in Artifacts \cup {Nothing} /\ Answer(c, cache[Key(c)])
    BY <1>1, NewFacts DEF Hit, TypeOK
  <2>2. pc[c] # "over" /\ UNCHANGED <<asked, draft, model>>
    BY <1>1 DEF Hit
  <2>3. QED
    BY <2>1, <2>2, AnswerKeepsCallInv DEF Statuses, TypeOK
<1>2. CASE Miss(c) \/ ReadRaises(c)
  <2>1. /\ pc[c] = "reading" /\ pc' = [pc EXCEPT ![c] = "asking"]
        /\ asked' = [asked EXCEPT ![c] = 1] /\ UNCHANGED <<draft, reply, model>>
    BY <1>2 DEF Miss, ReadRaises, AskFirst
  <2>2. draft[c] = Nothing /\ c \notin Trivial
    BY <2>1 DEF CallInv
  <2>3. QED
    BY <2>1, <2>2, AttemptsFacts, GoingOnFacts DEF TypeOK
<1>3. CASE Generate(c)
  <2> DEFINE new == [key |-> Key(c), prompt |-> Prompt(c), model |-> model, by |-> c]
  <2>1. new \in Artifacts /\ new # Nothing
    BY NewFacts, LlmRpcAssumption
  <2> HIDE DEF new
  <2>2. /\ pc[c] = "asking" /\ draft' = [draft EXCEPT ![c] = new]
        /\ \/ Cacheable(c) /\ pc' = [pc EXCEPT ![c] = "storing"] /\ UNCHANGED <<reply, measured>>
           \/ Answer(c, new)
        /\ UNCHANGED <<asked, model>>
    BY <1>3 DEF Generate, new
  <2>3. draft'[c] = new /\ c \notin Trivial
    BY <2>2 DEF CallInv, TypeOK
  <2>4. CASE Answer(c, new)
    BY <2>1, <2>2, <2>4, AnswerKeepsCallInv DEF Statuses, TypeOK
  <2>5. CASE Cacheable(c) /\ pc' = [pc EXCEPT ![c] = "storing"] /\ UNCHANGED reply
    BY <2>1, <2>2, <2>3, <2>5, GoingOnFacts DEF TypeOK
  <2>6. QED
    BY <2>2, <2>4, <2>5
<1>4. ASSUME Misfit(c) \/ Down(c) \/ Escape(c), Fail(c) \/ Abort(c), UNCHANGED asked
      PROVE  CallInv'
  <2>1. pc[c] # "over" /\ UNCHANGED <<draft, model>>
    BY <1>4 DEF Misfit, Down, Escape
  <2>2. PICK status \in {"declined", "aborted"} : End(c, status)
    BY <1>4, FailFacts
  <2>3. QED
    BY <1>4, <2>1, <2>2, EndKeepsCallInv DEF Statuses
<1>5. CASE Misfit(c)
  <2>1. CASE Fail(c) /\ UNCHANGED asked
    BY <1>4, <1>5, <2>1
  <2>2. CASE /\ asked[c] < Attempts[model] /\ asked' = [asked EXCEPT ![c] = @ + 1]
             /\ UNCHANGED <<pc, reply, measured>>
    <3>1. pc[c] = "asking" /\ UNCHANGED <<draft, model>>
      BY <1>5 DEF Misfit
    <3>2. asked[c] \in 1 .. Attempts[model] /\ draft[c] = Nothing /\ c \notin Trivial
      BY <3>1 DEF CallInv
    <3>3. asked'[c] \in 1 .. Attempts[model] /\ pc' = [pc EXCEPT ![c] = "asking"]
      BY <2>2, <3>1, <3>2, AttemptsFacts DEF TypeOK
    <3>4. QED
      BY <2>2, <3>1, <3>2, <3>3, GoingOnFacts DEF TypeOK
  <2>3. QED
    BY <1>5, <2>1, <2>2 DEF Misfit
<1>6. CASE Down(c) \/ Escape(c)
  BY <1>4, <1>6 DEF Down, Escape
<1>7. CASE Store(c)
  <2>1. pc[c] = "storing" /\ pc' = [pc EXCEPT ![c] = "stored"]
        /\ UNCHANGED <<asked, draft, reply, model>>
    BY <1>7 DEF Store
  <2>2. Cacheable(c) /\ draft[c] # Nothing /\ c \notin Trivial
    BY <2>1 DEF CallInv
  <2>3. QED
    BY <2>1, <2>2, GoingOnFacts
<1>8. CASE StoreRaises(c) \/ Return(c)
  <2>1. draft[c] \in Artifacts \cup {Nothing} /\ Answer(c, draft[c])
    BY <1>8 DEF StoreRaises, Return, TypeOK
  <2>2. pc[c] # "over" /\ UNCHANGED <<asked, draft, model>>
    BY <1>8 DEF StoreRaises, Return
  <2>3. QED
    BY <2>1, <2>2, AnswerKeepsCallInv DEF Statuses, TypeOK
<1>9. QED
  BY <1>1, <1>2, <1>3, <1>5, <1>6, <1>7, <1>8 DEF Proceed

LEMMA CallInvInductive == TypeOK /\ CallInv /\ [Next]_vars => CallInv'
<1> SUFFICES ASSUME TypeOK, CallInv, [Next]_vars PROVE CallInv'
  OBVIOUS
<1>1. ASSUME NEW c \in Calls, Refuse(c) \/ Cancel(c) PROVE CallInv'
  <2>1. pc[c] # "over" /\ UNCHANGED <<asked, draft, model>>
    BY <1>1 DEF Refuse, Cancel, Waiting
  <2>2. PICK status \in {"refused", "cancelled"} : End(c, status)
    BY <1>1 DEF Refuse, Cancel
  <2>3. QED
    BY <2>1, <2>2, EndKeepsCallInv DEF Statuses
<1>2. ASSUME NEW c \in Calls, EndAtOnce(c) PROVE CallInv'
  <2>1. pc[c] # "over" /\ UNCHANGED <<asked, draft, model>>
    BY <1>2 DEF EndAtOnce
  <2>2. CASE Fail(c)
    <3>1. PICK status \in {"declined", "aborted"} : End(c, status)
      BY <2>2, FailFacts
    <3>2. QED
      BY <2>1, <3>1, EndKeepsCallInv DEF Statuses
  <2>3. CASE Answer(c, Nothing)
    BY <2>1, <2>3, AnswerKeepsCallInv DEF Statuses, TypeOK
  <2>4. QED
    BY <1>2, <2>2, <2>3 DEF EndAtOnce
<1>3. ASSUME NEW c \in Calls, Begin(c) PROVE CallInv'
  <2>1. /\ pc[c] = "idle" /\ UNCHANGED <<draft, reply, model>> /\ draft[c] = Nothing
        /\ c \notin Trivial
        /\ asked' = [asked EXCEPT ![c] = IF Cacheable(c) THEN 0 ELSE 1]
    BY <1>3 DEF Begin, CallInv
  <2>2. CASE Cacheable(c)
    <3>1. pc' = [pc EXCEPT ![c] = "reading"] /\ asked'[c] = 0
      BY <1>3, <2>1, <2>2 DEF Begin, TypeOK
    <3>2. QED
      BY <2>1, <2>2, <3>1, GoingOnFacts DEF TypeOK
  <2>3. CASE ~ Cacheable(c)
    <3>1. pc' = [pc EXCEPT ![c] = "asking"] /\ asked'[c] = 1
      BY <1>3, <2>1, <2>3 DEF Begin, TypeOK
    <3>2. QED
      BY <2>1, <2>3, <3>1, AttemptsFacts, GoingOnFacts DEF TypeOK
  <2>4. QED
    BY <2>2, <2>3
<1>4. ASSUME NEW c \in Calls, Proceed(c) PROVE CallInv'
  BY <1>4, ProceedKeepsCallInv
<1>5. ASSUME NEW k \in Keys, Drop(k) PROVE CallInv'
  BY <1>5 DEF Drop, CallInv, Cacheable
<1>6. CASE Restart
  <2>1. ASSUME NEW c \in Calls
        PROVE  /\ pc'[c] \in {"idle", "over"}
               /\ pc'[c] = "idle" <=> pc[c] = "idle"
               /\ \/ pc[c] \in {"idle", "over"} /\ reply'[c] = reply[c]
                  \/ /\ pc[c] \notin {"idle", "over"} /\ pc'[c] = "over"
                     /\ reply'[c].status = "lost" /\ reply'[c].artifact = Nothing
    BY <1>6 DEF Restart, Waiting, NoReply, TypeOK
  <2>2. UNCHANGED <<asked, draft>>
    BY <1>6 DEF Restart
  <2>3. QED
    BY <2>1, <2>2 DEF CallInv
<1>7. CASE UNCHANGED vars
  BY <1>7 DEF vars, CallInv, Cacheable
<1>8. QED
  BY <1>1, <1>2, <1>3, <1>4, <1>5, <1>6, <1>7 DEF Next

-----------------------------------------------------------------------------
(* What a step does to a call *)

\* Nothing, as seen from the other calls.
Rests(c) == /\ pc'[c] = pc[c] /\ asked'[c] = asked[c] /\ draft'[c] = draft[c]
            /\ reply'[c] = reply[c] /\ measured'[c] = measured[c]

\* It is still under way.
GoesOn(c) == /\ pc[c] # "over" /\ pc'[c] # "over"
             /\ reply'[c] = reply[c] /\ measured'[c] = measured[c]

\* It ends uncounted: refused, or with its process.
Vanishes(c) == /\ pc[c] # "over" /\ reply'[c].status \in {"refused", "lost"}
               /\ reply'[c].artifact = Nothing /\ measured'[c] = measured[c]
               /\ draft'[c] = draft[c]

Counted(c) == /\ measured'[c]["ok"] + measured'[c]["error"]
                   = measured[c]["ok"] + measured[c]["error"] + 1
              /\ measured'[c]["ok"] # measured[c]["ok"] =>
                    reply'[c].status \in {"answer", "declined", "cancelled"}
              /\ asked'[c] = asked[c]

\* It ends counted, without an artifact.
Fails(c) == /\ pc[c] # "over" /\ Counted(c) /\ draft'[c] = draft[c]
            /\ reply'[c].artifact = Nothing
            /\ \/ reply'[c].status = "answer" /\ c \in Trivial
               \/ reply'[c].status = "cancelled"
               \/ /\ reply'[c].status \in {"declined", "aborted"}
                  /\ c \in Malformed \/ pc[c] = "asking"

\* It ends counted, with the entry under its key or the artifact made for it.
Serves(c) == /\ Counted(c) /\ reply'[c].status = "answer"
             /\ \/ /\ pc[c] = "reading" /\ cache[Key(c)] # Nothing
                   /\ reply'[c].artifact = cache[Key(c)]
                \/ /\ pc[c] \in {"asking", "storing", "stored"}
                   /\ reply'[c].artifact = draft'[c] /\ draft'[c] # Nothing

Moves(c) == Rests(c) \/ GoesOn(c) \/ Vanishes(c) \/ Fails(c) \/ Serves(c)

(* A call that ends without an artifact moves, and the others rest. *)
LEMMA EndMoves ==
    ASSUME TypeOK, NEW c \in Calls, pc[c] # "over", NEW status \in Statuses, End(c, status),
           UNCHANGED <<asked, draft>>,
           \/ UNCHANGED measured /\ status = "refused"
           \/ /\ \E s \in {"ok", "error"} :
                    Measure(c, s) /\ (s = "ok" => status \in {"declined", "cancelled"})
              /\ \/ status = "cancelled"
                 \/ status \in {"declined", "aborted"} /\ (c \in Malformed \/ pc[c] = "asking")
    PROVE  \A d \in Calls : Moves(d)
<1>1. /\ reply'[c].status = status /\ reply'[c].artifact = Nothing
      /\ \A d \in Calls \ {c} : reply'[d] = reply[d] /\ pc'[d] = pc[d]
  BY EndFacts DEF TypeOK
<1>2. CASE UNCHANGED measured /\ status = "refused"
  BY <1>1, <1>2 DEF Moves, Vanishes, Rests
<1>3. CASE /\ \E s \in {"ok", "error"} :
                 Measure(c, s) /\ (s = "ok" => status \in {"declined", "cancelled"})
           /\ \/ status = "cancelled"
              \/ status \in {"declined", "aborted"} /\ (c \in Malformed \/ pc[c] = "asking")
  <2>1. /\ measured'[c]["ok"] + measured'[c]["error"]
             = measured[c]["ok"] + measured[c]["error"] + 1
        /\ measured'[c]["ok"] # measured[c]["ok"] => status \in {"declined", "cancelled"}
        /\ \A d \in Calls \ {c} : measured'[d] = measured[d]
    BY <1>3, MeasureFacts
  <2>2. QED
    BY <1>1, <1>3, <2>1 DEF Moves, Fails, Counted, Rests
<1>4. QED
  BY <1>2, <1>3

LEMMA AnswerMoves ==
    ASSUME TypeOK, NEW c \in Calls, NEW a \in Artifacts \cup {Nothing}, Answer(c, a),
           UNCHANGED asked, \A d \in Calls \ {c} : draft'[d] = draft[d],
           \/ pc[c] = "idle" /\ c \in Trivial /\ a = Nothing /\ UNCHANGED draft
           \/ pc[c] = "reading" /\ a = cache[Key(c)] /\ a # Nothing
           \/ pc[c] \in {"asking", "storing", "stored"} /\ a = draft'[c] /\ a # Nothing
    PROVE  \A d \in Calls : Moves(d)
<1>1. /\ reply'[c].status = "answer" /\ reply'[c].artifact = a
      /\ \A d \in Calls \ {c} : reply'[d] = reply[d] /\ pc'[d] = pc[d]
  BY AnswerFacts DEF TypeOK
<1>2. /\ measured'[c]["ok"] + measured'[c]["error"]
           = measured[c]["ok"] + measured[c]["error"] + 1
      /\ \A d \in Calls \ {c} : measured'[d] = measured[d]
  BY AnswerFacts, MeasureFacts
<1>3. \A d \in Calls \ {c} : Rests(d)
  BY <1>1, <1>2 DEF Rests
<1>4. Fails(c) \/ Serves(c)
  BY <1>1, <1>2 DEF Fails, Serves, Counted
<1>5. QED
  BY <1>3, <1>4 DEF Moves

(* A call that goes on moves, and the others rest. *)
LEMMA GoingOnMoves ==
    ASSUME TypeOK, NEW c \in Calls, pc[c] # "over",
           NEW next \in {"reading", "asking", "storing", "stored"},
           pc' = [pc EXCEPT ![c] = next], UNCHANGED <<reply, measured>>,
           \A d \in Calls \ {c} : asked'[d] = asked[d] /\ draft'[d] = draft[d]
    PROVE  \A d \in Calls : Moves(d)
<1>1. pc'[c] = next /\ \A d \in Calls \ {c} : pc'[d] = pc[d]
  BY DEF TypeOK
<1>2. QED
  BY <1>1 DEF Moves, GoesOn, Rests

LEMMA ProceedMoves ==
    ASSUME TypeOK, CallInv, NEW c \in Calls, Proceed(c)
    PROVE  \A d \in Calls : Moves(d)
<1>1. CASE Hit(c)
  <2>1. /\ cache[Key(c)] \in Artifacts \cup {Nothing} /\ Answer(c, cache[Key(c)])
        /\ pc[c] = "reading" /\ cache[Key(c)] # Nothing /\ UNCHANGED <<asked, draft>>
    BY <1>1, NewFacts DEF Hit, TypeOK
  <2>2. QED
    BY <2>1, AnswerMoves
<1>2. CASE Miss(c) \/ ReadRaises(c)
  <2>1. /\ pc[c] = "reading" /\ pc' = [pc EXCEPT ![c] = "asking"]
        /\ asked' = [asked EXCEPT ![c] = 1] /\ UNCHANGED <<draft, reply, measured>>
    BY <1>2 DEF Miss, ReadRaises, AskFirst
  <2>2. QED
    BY <2>1, GoingOnMoves DEF TypeOK
<1>3. CASE Generate(c)
  <2> DEFINE new == [key |-> Key(c), prompt |-> Prompt(c), model |-> model, by |-> c]
  <2>1. new \in Artifacts /\ new # Nothing
    BY NewFacts, LlmRpcAssumption
  <2> HIDE DEF new
  <2>2. /\ pc[c] = "asking" /\ draft' = [draft EXCEPT ![c] = new]
        /\ \/ pc' = [pc EXCEPT ![c] = "storing"] /\ UNCHANGED <<reply, measured>>
           \/ Answer(c, new)
        /\ UNCHANGED asked
    BY <1>3 DEF Generate, new
  <2>3. draft'[c] = new /\ \A d \in Calls \ {c} : draft'[d] = draft[d]
    BY <2>2 DEF TypeOK
  <2>4. CASE Answer(c, new)
    BY <2>1, <2>2, <2>3, <2>4, AnswerMoves
  <2>5. CASE pc' = [pc EXCEPT ![c] = "storing"] /\ UNCHANGED <<reply, measured>>
    BY <2>2, <2>3, <2>5, GoingOnMoves
  <2>6. QED
    BY <2>2, <2>4, <2>5
<1>4. ASSUME pc[c] = "asking", Fail(c) \/ Abort(c), UNCHANGED <<asked, draft>>
      PROVE  \A d \in Calls : Moves(d)
  <2>1. PICK status \in {"declined", "aborted"}, s \in {"ok", "error"} :
           End(c, status) /\ Measure(c, s) /\ (s = "ok" => status = "declined")
    BY <1>4, FailFacts
  <2>2. QED
    BY <1>4, <2>1, EndMoves DEF Statuses
<1>5. CASE Misfit(c)
  <2>1. CASE Fail(c) /\ UNCHANGED asked
    BY <1>4, <1>5, <2>1 DEF Misfit
  <2>2. CASE asked' = [asked EXCEPT ![c] = @ + 1] /\ UNCHANGED <<pc, reply, measured>>
    <3>1. pc[c] = "asking" /\ UNCHANGED draft /\ pc' = [pc EXCEPT ![c] = "asking"]
      BY <1>5, <2>2 DEF Misfit, TypeOK
    <3>2. QED
      BY <2>2, <3>1, GoingOnMoves DEF TypeOK
  <2>3. QED
    BY <1>5, <2>1, <2>2 DEF Misfit
<1>6. CASE Down(c) \/ Escape(c)
  BY <1>4, <1>6 DEF Down, Escape
<1>7. CASE Store(c)
  BY <1>7, GoingOnMoves DEF Store
<1>8. CASE StoreRaises(c) \/ Return(c)
  <2>1. /\ draft[c] \in Artifacts \cup {Nothing} /\ Answer(c, draft[c])
        /\ pc[c] \in {"storing", "stored"} /\ UNCHANGED <<asked, draft>>
    BY <1>8 DEF StoreRaises, Return, TypeOK
  <2>2. draft[c] # Nothing /\ draft[c] = draft'[c] /\ \A d \in Calls \ {c} : draft'[d] = draft[d]
    BY <2>1 DEF CallInv
  <2>3. QED
    BY <2>1, <2>2, AnswerMoves
<1>9. QED
  BY <1>1, <1>2, <1>3, <1>5, <1>6, <1>7, <1>8 DEF Proceed

(* Every step of the system moves every call. *)
LEMMA StepMoves == TypeOK /\ CallInv /\ [Next]_vars => \A d \in Calls : Moves(d)
<1> SUFFICES ASSUME TypeOK, CallInv, [Next]_vars PROVE \A d \in Calls : Moves(d)
  OBVIOUS
<1>1. ASSUME NEW c \in Calls, Refuse(c) PROVE \A d \in Calls : Moves(d)
  BY <1>1, EndMoves DEF Refuse, Statuses
<1>2. ASSUME NEW c \in Calls, Cancel(c) PROVE \A d \in Calls : Moves(d)
  <2>1. pc[c] # "over" /\ UNCHANGED <<asked, draft>> /\ End(c, "cancelled") /\ Measure(c, "ok")
    BY <1>2 DEF Cancel, Waiting
  <2>2. QED
    BY <2>1, EndMoves DEF Statuses
<1>3. ASSUME NEW c \in Calls, EndAtOnce(c) PROVE \A d \in Calls : Moves(d)
  <2>1. pc[c] = "idle" /\ UNCHANGED <<asked, draft>>
    BY <1>3 DEF EndAtOnce
  <2>2. CASE c \in Malformed /\ Fail(c)
    <3>1. PICK status \in {"declined", "aborted"}, s \in {"ok", "error"} :
             End(c, status) /\ Measure(c, s) /\ (s = "ok" => status = "declined")
      BY <2>2, FailFacts
    <3>2. QED
      BY <2>1, <2>2, <3>1, EndMoves DEF Statuses
  <2>3. CASE c \in Trivial /\ Answer(c, Nothing)
    BY <2>1, <2>3, AnswerMoves
  <2>4. QED
    BY <1>3, <2>2, <2>3 DEF EndAtOnce
<1>4. ASSUME NEW c \in Calls, Begin(c) PROVE \A d \in Calls : Moves(d)
  BY <1>4, GoingOnMoves DEF Begin, TypeOK
<1>5. ASSUME NEW c \in Calls, Proceed(c) PROVE \A d \in Calls : Moves(d)
  BY <1>5, ProceedMoves
<1>6. ASSUME NEW k \in Keys, Drop(k) PROVE \A d \in Calls : Moves(d)
  BY <1>6 DEF Drop, Moves, Rests
<1>7. CASE Restart
  BY <1>7 DEF Restart, Waiting, NoReply, TypeOK, Moves, Rests, Vanishes
<1>8. CASE UNCHANGED vars
  BY <1>8 DEF vars, Moves, Rests
<1>9. QED
  BY <1>1, <1>2, <1>3, <1>4, <1>5, <1>6, <1>7, <1>8 DEF Next

-----------------------------------------------------------------------------
(* Safety *)

(* Being inductive, the strengthening holds of every behaviour. *)
LEMMA CallInvCorrect == Spec => [](TypeOK /\ CallInv)
<1>1. Init => CallInv
  BY LlmRpcAssumption DEF Init, CallInv, NoReply
<1>2. QED
  BY <1>1, TypeCorrect, CallInvInductive, PTL DEF Spec

(* Every call that passed the rate limiter is counted once when it is over, on   *)
(* every way out of the RPC; one that was refused or lost is not counted.        *)
THEOREM EveryCallMeasuredOnce == Spec => []MeasuredOnce
<1>1. Init => MeasuredOnce
  BY DEF Init, MeasuredOnce, NoReply
<1>2. TypeOK /\ CallInv /\ MeasuredOnce /\ [Next]_vars => MeasuredOnce'
  <2> SUFFICES ASSUME TypeOK, CallInv, MeasuredOnce, [Next]_vars, NEW c \in Calls
               PROVE  measured'[c]["ok"] + measured'[c]["error"]
                        = IF reply'[c].status \in {"none", "refused", "lost"} THEN 0 ELSE 1
    BY DEF MeasuredOnce
  <2>1. Moves(c)
    BY StepMoves
  <2>2. pc[c] # "over" => measured[c]["ok"] + measured[c]["error"] = 0
                          /\ reply[c].status = "none"
    BY DEF CallInv, MeasuredOnce
  <2>3. CASE Rests(c)
    BY <2>3 DEF Rests, MeasuredOnce
  <2>4. CASE GoesOn(c)
    BY <2>2, <2>4 DEF GoesOn
  <2>5. CASE Vanishes(c)
    BY <2>2, <2>5 DEF Vanishes
  <2>6. CASE Fails(c) \/ Serves(c)
    <3>1. pc[c] # "over"
      BY <2>6 DEF Fails, Serves
    <3>2. measured'[c]["ok"] + measured'[c]["error"] = 1
      BY <2>2, <2>6, <3>1 DEF Fails, Serves, Counted
    <3>3. reply'[c].status \notin {"none", "refused", "lost"}
      BY <2>6 DEF Fails, Serves
    <3>4. QED
      BY <3>2, <3>3
  <2>7. QED
    BY <2>1, <2>3, <2>4, <2>5, <2>6 DEF Moves
<1>3. QED
  BY <1>1, <1>2, CallInvCorrect, PTL DEF Spec

(* Only calls that their client has given up are counted as ok without having got *)
(* a response.                                                                   *)
OkOrCancelled ==
    \A c \in Calls : measured[c]["ok"] > 0 =>
        reply[c].status \in {"answer", "declined", "cancelled"}

LEMMA OkOrCancelledHolds == Spec => []OkOrCancelled
<1>1. Init => OkOrCancelled
  BY DEF Init, OkOrCancelled
<1>2. TypeOK /\ CallInv /\ MeasuredOnce /\ OkOrCancelled /\ [Next]_vars => OkOrCancelled'
  <2> SUFFICES ASSUME TypeOK, CallInv, MeasuredOnce, OkOrCancelled, [Next]_vars, NEW c \in Calls,
                      measured'[c]["ok"] > 0
               PROVE  reply'[c].status \in {"answer", "declined", "cancelled"}
    BY DEF OkOrCancelled
  <2>1. Moves(c)
    BY StepMoves
  <2>2. measured[c]["ok"] \in Nat /\ measured[c]["error"] \in Nat
    BY DEF TypeOK
  <2>3. pc[c] # "over" => measured[c]["ok"] = 0
    BY <2>2 DEF CallInv, MeasuredOnce
  <2>4. CASE Rests(c)
    BY <2>4 DEF Rests, OkOrCancelled
  <2>5. CASE GoesOn(c) \/ Vanishes(c)
    BY <2>3, <2>5 DEF GoesOn, Vanishes
  <2>6. CASE Fails(c)
    BY <2>3, <2>6 DEF Fails, Counted
  <2>7. CASE Serves(c)
    BY <2>7 DEF Serves
  <2>8. QED
    BY <2>1, <2>4, <2>5, <2>6, <2>7 DEF Moves
<1>3. QED
  BY <1>1, <1>2, CallInvCorrect, EveryCallMeasuredOnce, PTL DEF Spec

NobodyCancels == \A c \in Calls : reply[c].status # "cancelled"

(* What the interceptor claims of its counter holds of every behaviour in which   *)
(* no client cancels and no deadline passes: whatever Redis, the model and the    *)
(* process do, a call counted as ok has got its response.                         *)
THEOREM UncancelledIsCountedRight == Spec /\ []NobodyCancels => []OkMeansCompleted
<1>1. OkOrCancelled /\ NobodyCancels => OkMeansCompleted
  BY DEF OkOrCancelled, NobodyCancels, OkMeansCompleted
<1>2. QED
  BY <1>1, OkOrCancelledHolds, PTL

(* Whatever Redis does, a call with valid parameters fails only at the model,    *)
(* with nothing generated for it.                                                *)
THEOREM FailuresAreTheModels == Spec => []FailureIsTheModels
<1>1. Init => FailureIsTheModels
  BY DEF Init, FailureIsTheModels, NoReply
<1>2. TypeOK /\ CallInv /\ FailureIsTheModels /\ [Next]_vars => FailureIsTheModels'
  <2> SUFFICES ASSUME TypeOK, CallInv, FailureIsTheModels, [Next]_vars,
                      NEW c \in Calls \ Malformed, reply'[c].status \in {"declined", "aborted"}
               PROVE  asked'[c] > 0 /\ draft'[c] = Nothing
    BY DEF FailureIsTheModels
  <2>1. Moves(c)
    BY StepMoves
  <2>2. CASE Rests(c)
    BY <2>2 DEF Rests, FailureIsTheModels
  <2>3. CASE GoesOn(c)
    BY <2>3 DEF GoesOn, CallInv
  <2>4. CASE Fails(c)
    <3>1. pc[c] = "asking" /\ draft'[c] = draft[c] /\ asked'[c] = asked[c]
      BY <2>4 DEF Fails, Counted
    <3>2. asked[c] \in 1 .. Attempts[model] /\ draft[c] = Nothing
      BY <3>1 DEF CallInv
    <3>3. QED
      BY <3>1, <3>2, AttemptsFacts
  <2>5. QED
    BY <2>1, <2>2, <2>3, <2>4 DEF Moves, Vanishes, Serves
<1>3. QED
  BY <1>1, <1>2, CallInvCorrect, PTL DEF Spec

-----------------------------------------------------------------------------
(* The answer cache: every entry was generated by the call it names, for that call's *)
(* key, and what follows for the calls that are answered from it.                    *)

(* What a step does to the artifact of a call, and to the cache *)

New(c) == [key |-> Key(c), prompt |-> Prompt(c), model |-> model, by |-> c]

\* An artifact appears once, while its call asks the model, and then stays.
Keeps(c) ==
    /\ pc[c] \in {"stored", "over"} => pc'[c] \in {"stored", "over"}
    /\ \/ draft'[c] = draft[c] /\ (draft[c] # Nothing => asked'[c] = asked[c])
       \/ pc[c] = "asking" /\ asked'[c] = asked[c] /\ draft'[c] = New(c)

\* c writes its artifact.
Puts(c) == /\ pc[c] = "storing" /\ pc'[c] \in {"stored", "over"} /\ draft'[c] = draft[c]
           /\ cache' = [cache EXCEPT ![Key(c)] = draft[c]] /\ UNCHANGED purged

LEMMA NewType == TypeOK => \A c \in Calls : New(c) \in Artifacts /\ New(c) # Nothing
BY NewFacts, LlmRpcAssumption DEF New

LEMMA OthersKeep ==
    ASSUME TypeOK, NEW c \in Calls, NEW where,
           pc' = [pc EXCEPT ![c] = where],
           \A d \in Calls \ {c} : asked'[d] = asked[d] /\ draft'[d] = draft[d],
           pc[c] \in {"stored", "over"} => where \in {"stored", "over"},
           \/ draft'[c] = draft[c] /\ (draft[c] # Nothing => asked'[c] = asked[c])
           \/ pc[c] = "asking" /\ asked'[c] = asked[c] /\ draft'[c] = New(c)
    PROVE  \A d \in Calls : Keeps(d)
BY DEF Keeps, TypeOK

LEMMA StepKeeps == TypeOK /\ CallInv /\ [Next]_vars => \A d \in Calls : Keeps(d)
<1> SUFFICES ASSUME TypeOK, CallInv, [Next]_vars PROVE \A d \in Calls : Keeps(d)
  OBVIOUS
<1>1. ASSUME NEW c \in Calls, pc' = [pc EXCEPT ![c] = "over"], UNCHANGED <<asked, draft>>
      PROVE  \A d \in Calls : Keeps(d)
  BY <1>1, OthersKeep
<1>2. ASSUME NEW c \in Calls, Refuse(c) \/ EndAtOnce(c) \/ Cancel(c) \/ Hit(c)
                              \/ Down(c) \/ Escape(c) \/ StoreRaises(c) \/ Return(c)
      PROVE  \A d \in Calls : Keeps(d)
  BY <1>1, <1>2 DEF Refuse, EndAtOnce, Cancel, Hit, Down, Escape, StoreRaises, Return,
                    Answer, Fail, Abort, Decline, End
<1>3. ASSUME NEW c \in Calls, Begin(c) \/ Miss(c) \/ ReadRaises(c)
      PROVE  \A d \in Calls : Keeps(d)
  <2>1. PICK where \in {"reading", "asking"} : pc' = [pc EXCEPT ![c] = where]
    BY <1>3 DEF Begin, Miss, ReadRaises, AskFirst
  <2>2. pc[c] \in {"idle", "reading"} /\ UNCHANGED draft /\ draft[c] = Nothing
    BY <1>3 DEF Begin, Miss, ReadRaises, CallInv
  <2>3. \A d \in Calls \ {c} : asked'[d] = asked[d]
    BY <1>3 DEF Begin, Miss, ReadRaises, AskFirst, TypeOK
  <2>4. QED
    BY <2>1, <2>2, <2>3, OthersKeep
<1>4. ASSUME NEW c \in Calls, Generate(c) PROVE \A d \in Calls : Keeps(d)
  <2>1. PICK where \in {"storing", "over"} : pc' = [pc EXCEPT ![c] = where]
    BY <1>4 DEF Generate, Answer
  <2>2. /\ pc[c] = "asking" /\ UNCHANGED asked /\ draft' = [draft EXCEPT ![c] = New(c)]
    BY <1>4 DEF Generate, New
  <2>3. draft'[c] = New(c) /\ \A d \in Calls \ {c} : draft'[d] = draft[d]
    BY <2>2 DEF TypeOK
  <2>4. QED
    BY <2>1, <2>2, <2>3, OthersKeep
<1>5. ASSUME NEW c \in Calls, Misfit(c) PROVE \A d \in Calls : Keeps(d)
  <2>1. CASE Fail(c) /\ UNCHANGED asked
    BY <1>1, <1>5, <2>1 DEF Misfit, Fail, Abort, Decline, End
  <2>2. CASE asked' = [asked EXCEPT ![c] = @ + 1] /\ UNCHANGED pc
    BY <1>5, <2>2 DEF Misfit, Keeps, CallInv, TypeOK
  <2>3. QED
    BY <1>5, <2>1, <2>2 DEF Misfit
<1>6. ASSUME NEW c \in Calls, Store(c) PROVE \A d \in Calls : Keeps(d)
  BY <1>6, OthersKeep DEF Store
<1>7. ASSUME NEW k \in Keys, Drop(k) PROVE \A d \in Calls : Keeps(d)
  BY <1>7 DEF Drop, Keeps
<1>8. CASE Restart
  BY <1>8 DEF Restart, Waiting, Keeps, TypeOK
<1>9. CASE UNCHANGED vars
  BY <1>9 DEF vars, Keeps
<1>10. QED
  BY <1>2, <1>3, <1>4, <1>5, <1>6, <1>7, <1>8, <1>9 DEF Next, Proceed

(* The cache and the history of what left it change in three ways only. *)
LEMMA StepEntries ==
    ASSUME TypeOK, [Next]_vars
    PROVE  \/ UNCHANGED <<cache, purged>>
           \/ \E c \in Calls : Puts(c)
           \/ \E k \in Keys : Drop(k)
<1>1. ASSUME NEW c \in Calls, Store(c) PROVE Puts(c)
  BY <1>1 DEF Store, Put, Puts, TypeOK
<1>2. ASSUME NEW c \in Calls, StoreRaises(c) PROVE Puts(c) \/ UNCHANGED <<cache, purged>>
  BY <1>2 DEF StoreRaises, Put, Puts, Answer, TypeOK
<1>3. ASSUME NEW c \in Calls, Refuse(c) \/ EndAtOnce(c) \/ Begin(c) \/ Cancel(c)
      PROVE  UNCHANGED <<cache, purged>>
  BY <1>3 DEF Refuse, EndAtOnce, Begin, Cancel
<1>4. ASSUME NEW c \in Calls, Hit(c) \/ Miss(c) \/ ReadRaises(c) \/ Generate(c)
                              \/ Misfit(c) \/ Down(c) \/ Escape(c) \/ Return(c)
      PROVE  UNCHANGED <<cache, purged>>
  BY <1>4 DEF Hit, Miss, ReadRaises, Generate, Misfit, Down, Escape, Return
<1>5. ASSUME Restart \/ UNCHANGED vars PROVE UNCHANGED <<cache, purged>>
  BY <1>5 DEF Restart, vars
<1>6. QED
  BY <1>1, <1>2, <1>3, <1>4, <1>5 DEF Next, Proceed

-----------------------------------------------------------------------------
(* Where artifacts come from *)

\* The three parts of OriginInv.
DraftInv(c) == draft[c] # Nothing =>
    /\ draft[c].by = c /\ draft[c].key = Key(c) /\ draft[c].prompt = Prompt(c)
    /\ asked[c] \in 1 .. Attempts[draft[c].model]
EntryInv(k) == cache[k] # Nothing =>
    /\ cache[k] = draft[cache[k].by] /\ cache[k].key = k
    /\ Cacheable(cache[k].by)
    /\ pc[cache[k].by] \in {"stored", "over"}
    /\ cache[k] \notin purged
PurgedInv(a) == a = draft[a.by] /\ pc[a.by] \in {"stored", "over"}

LEMMA OriginInvParts ==
    OriginInv <=> /\ \A c \in Calls : DraftInv(c)
                  /\ \A k \in Keys : EntryInv(k)
                  /\ \A a \in purged : PurgedInv(a)
BY DEF OriginInv, DraftInv, EntryInv, PurgedInv

(* An artifact in the cache or dropped from it is still its call's. *)
LEMMA AuthorKept ==
    ASSUME TypeOK, CallInv, [Next]_vars, NEW c \in Calls, pc[c] \in {"stored", "over"}
    PROVE  pc'[c] \in {"stored", "over"} /\ draft'[c] = draft[c]
BY StepKeeps DEF Keeps

LEMMA ByType == \A a \in Artifacts : a.by \in Calls /\ a.key \in Keys /\ a # Nothing
BY LlmRpcAssumption DEF Artifacts

LEMMA DraftStep ==
    ASSUME TypeOK, CallInv, [Next]_vars, NEW c \in Calls, DraftInv(c)
    PROVE  DraftInv(c)'
<1>1. Keeps(c)
  BY StepKeeps
<1>2. CASE draft'[c] = draft[c]
  BY <1>1, <1>2, NewType DEF Keeps, DraftInv, CallInv
<1>3. CASE pc[c] = "asking" /\ asked'[c] = asked[c] /\ draft'[c] = New(c)
  BY <1>3 DEF DraftInv, New, CallInv, Key, Prompt
<1>4. QED
  BY <1>1, <1>2, <1>3 DEF Keeps

LEMMA OriginInvInductive == TypeOK /\ CallInv /\ OriginInv /\ [Next]_vars => OriginInv'
<1> SUFFICES ASSUME TypeOK, CallInv, OriginInv, [Next]_vars PROVE OriginInv'
  OBVIOUS
<1>1. \A c \in Calls : DraftInv(c)'
  BY OriginInvParts, DraftStep
<1>2. ASSUME NEW k \in Keys, cache'[k] = cache[k], cache[k] # Nothing, cache[k] \notin purged'
      PROVE  EntryInv(k)'
  <2>1. EntryInv(k) /\ cache[k] \in Artifacts /\ cache[k].by \in Calls
    BY <1>2, OriginInvParts, ByType DEF TypeOK
  <2>2. pc'[cache[k].by] \in {"stored", "over"} /\ draft'[cache[k].by] = draft[cache[k].by]
    BY <1>2, <2>1, AuthorKept DEF EntryInv
  <2>3. QED
    BY <1>2, <2>1, <2>2 DEF EntryInv, Cacheable
<1>3. ASSUME NEW a \in purged PROVE PurgedInv(a)'
  <2>1. PurgedInv(a) /\ a.by \in Calls
    BY OriginInvParts, ByType DEF TypeOK
  <2>2. QED
    BY <2>1, AuthorKept DEF PurgedInv
<1>4. CASE UNCHANGED <<cache, purged>>
  <2>1. ASSUME NEW k \in Keys PROVE EntryInv(k)'
    BY <1>2, <1>4, OriginInvParts DEF EntryInv
  <2>2. QED
    BY <1>1, <1>3, <1>4, <2>1, OriginInvParts DEF OriginInv, DraftInv, EntryInv, PurgedInv
<1>5. ASSUME NEW c \in Calls, Puts(c) PROVE OriginInv'
  <2>1. /\ draft[c] \in Artifacts /\ draft[c] # Nothing /\ Cacheable(c) /\ Key(c) \in Keys
        /\ draft[c].by = c /\ draft[c].key = Key(c)
    BY <1>5, OriginInvParts, NewFacts DEF Puts, CallInv, DraftInv, TypeOK
  <2>2. draft[c] \notin purged
    BY <1>5, <2>1, OriginInvParts DEF Puts, PurgedInv
  <2>3. EntryInv(Key(c))'
    <3>1. cache'[Key(c)] = draft[c]
      BY <1>5, <2>1 DEF Puts, TypeOK
    <3>2. QED
      BY <1>5, <2>1, <2>2, <3>1 DEF Puts, EntryInv, Cacheable
  <2>4. ASSUME NEW k \in Keys \ {Key(c)} PROVE EntryInv(k)'
    <3>1. cache'[k] = cache[k] /\ UNCHANGED purged
      BY <1>5 DEF Puts, TypeOK
    <3>2. QED
      BY <1>2, <3>1, OriginInvParts DEF EntryInv
  <2>5. purged' = purged
    BY <1>5 DEF Puts
  <2>6. QED
    BY <1>1, <1>3, <2>3, <2>4, <2>5 DEF OriginInv, DraftInv, EntryInv, PurgedInv
<1>6. ASSUME NEW k \in Keys, Drop(k) PROVE OriginInv'
  <2>1. /\ cache[k] \in Artifacts /\ cache[k].by \in Calls /\ EntryInv(k)
        /\ purged' = purged \cup {cache[k]}
    BY <1>6, OriginInvParts, ByType DEF Drop, TypeOK
  <2>2. ASSUME NEW a \in purged' PROVE PurgedInv(a)'
    <3>1. CASE a \in purged
      BY <1>3, <3>1
    <3>2. CASE a = cache[k]
      BY <1>6, <2>1, <3>2, AuthorKept DEF Drop, EntryInv, PurgedInv
    <3>3. QED
      BY <2>1, <3>1, <3>2
  <2>3. EntryInv(k)'
    BY <1>6 DEF Drop, EntryInv, TypeOK
  <2>4. ASSUME NEW l \in Keys \ {k} PROVE EntryInv(l)'
    <3>1. cache'[l] = cache[l]
      BY <1>6 DEF Drop, TypeOK
    <3>2. CASE cache[l] = Nothing
      BY <3>1, <3>2 DEF EntryInv
    <3>3. CASE cache[l] # Nothing
      <4>1. cache[l] # cache[k] /\ cache[l] \notin purged
        BY <1>6, <2>1, <3>3, OriginInvParts DEF Drop, EntryInv
      <4>2. QED
        BY <1>2, <2>1, <3>1, <3>3, <4>1
    <3>4. QED
      BY <3>2, <3>3
  <2>5. QED
    BY <1>1, <2>2, <2>3, <2>4 DEF OriginInv, DraftInv, EntryInv, PurgedInv
<1>7. QED
  BY <1>4, <1>5, <1>6, StepEntries

LEMMA OriginInvCorrect == Spec => [](TypeOK /\ CallInv /\ OriginInv)
<1>1. Init => OriginInv
  BY DEF Init, OriginInv
<1>2. QED
  BY <1>1, CallInvCorrect, OriginInvInductive, PTL DEF Spec

-----------------------------------------------------------------------------
(* What calls are answered with *)

LEMMA OwnFits == \A c \in Calls : Prompt(c) \in Alike(c)
BY DEF Alike, SameParameters

(* An answer is an artifact for the call's own prompt: the call's own, or that   *)
(* of another call, on which no request was spent, and which was not dropped.    *)
LEMMA ServesFacts ==
    ASSUME TypeOK, CallInv, OriginInv, [Next]_vars, NEW c \in Calls, Serves(c)
    PROVE  LET a == reply'[c].artifact IN
           /\ a # Nothing /\ a.prompt \in Alike(c) /\ c \notin Trivial
           /\ \/ /\ a.by = c /\ a = draft'[c] /\ asked'[c] \in 1 .. Attempts[a.model]
              \/ /\ a.by # c /\ a = draft[a.by] /\ a.by \in Calls /\ asked'[c] = 0
                 /\ Cacheable(c) /\ a \notin purged /\ draft'[c] = draft[c]
<1>1. CASE /\ pc[c] = "reading" /\ cache[Key(c)] # Nothing
           /\ reply'[c].artifact = cache[Key(c)]
  <2> DEFINE a == cache[Key(c)]
  <2>1. a \in Artifacts /\ a.by \in Calls /\ Key(c) \in Keys
    BY <1>1, NewFacts, ByType DEF TypeOK
  <2>2. /\ a = draft[a.by] /\ a.key = Key(c) /\ pc[a.by] \in {"stored", "over"}
        /\ a \notin purged
    BY <1>1, <2>1, OriginInvParts DEF EntryInv
  <2>3. a.key = Key(a.by) /\ a.prompt = Prompt(a.by)
    BY <1>1, <2>1, <2>2, OriginInvParts DEF DraftInv
  <2>4. asked[c] = 0 /\ Cacheable(c) /\ c \notin Trivial
    BY <1>1 DEF CallInv
  <2>5. asked'[c] = asked[c] /\ draft'[c] = draft[c]
    BY <1>1, StepKeeps DEF Serves, Counted, Keeps
  <2>6. a.prompt \in Alike(c)
    <3>1. SameParameters(a.by, c)
      BY <2>2, <2>3 DEF Key, SameParameters
    <3>2. CASE RequestOf[c].shown = "all"
      BY <2>1, <2>3, <3>1, <3>2, LlmRpcAssumption DEF Alike, Prompt, SameParameters
    <3>3. CASE RequestOf[c].shown # "all"
      BY <2>1, <2>3, <3>1, <3>3 DEF Alike
    <3>4. QED
      BY <3>2, <3>3
  <2>7. a.by # c
    BY <1>1, <2>2
  <2>8. QED
    BY <1>1, <2>1, <2>2, <2>4, <2>5, <2>6, <2>7
<1>2. CASE /\ pc[c] \in {"asking", "storing", "stored"}
           /\ reply'[c].artifact = draft'[c] /\ draft'[c] # Nothing
  <2>1. /\ draft'[c].by = c /\ draft'[c].prompt = Prompt(c)
        /\ asked'[c] \in 1 .. Attempts[draft'[c].model]
    <3>1. DraftInv(c)'
      BY OriginInvParts, DraftStep
    <3>2. QED
      BY <1>2, <3>1 DEF DraftInv, Prompt
  <2>2. QED
    BY <1>2, <2>1, OwnFits DEF CallInv
<1>3. QED
  BY <1>1, <1>2 DEF Serves

(* A call that gets no answer keeps what it had, or gets nothing. *)
LEMMA OtherMoves ==
    ASSUME TypeOK, CallInv, [Next]_vars, NEW c \in Calls
    PROVE  \/ reply'[c] = reply[c] /\ (reply[c].artifact # Nothing => asked'[c] = asked[c])
           \/ reply'[c].artifact = Nothing
           \/ Serves(c)
BY StepMoves DEF Moves, Rests, GoesOn, Vanishes, Fails, CallInv

(* A call answered from the cache makes no request, one that answers itself no   *)
(* more than its provider has attempts.                                          *)
THEOREM CallsSpendNoMore == Spec => []SpendsNoMore
<1>1. Init => SpendsNoMore
  BY DEF Init, SpendsNoMore, NoReply
<1>2. TypeOK /\ CallInv /\ OriginInv /\ SpendsNoMore /\ [Next]_vars => SpendsNoMore'
  <2> SUFFICES ASSUME TypeOK, CallInv, OriginInv, SpendsNoMore, [Next]_vars,
                      NEW c \in Calls, reply'[c].artifact # Nothing
               PROVE  IF reply'[c].artifact.by = c
                      THEN asked'[c] \in 1 .. Attempts[reply'[c].artifact.model]
                      ELSE asked'[c] = 0
    BY DEF SpendsNoMore
  <2>1. CASE reply'[c] = reply[c] /\ asked'[c] = asked[c]
    BY <2>1 DEF SpendsNoMore
  <2>2. CASE Serves(c)
    BY <2>2, ServesFacts
  <2>3. QED
    BY <2>1, <2>2, OtherMoves
<1>3. QED
  BY <1>1, <1>2, OriginInvCorrect, PTL DEF Spec

(* No call is answered with something made for another prompt than its own,      *)
(* whichever call made it and whatever happened to the cache in between.         *)
THEOREM AnswersFitPrompts == Spec => []ServedFitsPrompt
<1>1. Init => ServedFitsPrompt
  BY DEF Init, ServedFitsPrompt, NoReply
<1>2. TypeOK /\ CallInv /\ OriginInv /\ ServedFitsPrompt /\ [Next]_vars => ServedFitsPrompt'
  <2> SUFFICES ASSUME TypeOK, CallInv, OriginInv, ServedFitsPrompt, [Next]_vars,
                      NEW c \in Calls, reply'[c].artifact # Nothing
               PROVE  reply'[c].artifact.prompt \in Alike(c)
    BY DEF ServedFitsPrompt, Alike, Prompt, SameParameters
  <2>1. CASE reply'[c] = reply[c]
    BY <2>1 DEF ServedFitsPrompt
  <2>2. CASE Serves(c)
    BY <2>2, ServesFacts
  <2>3. QED
    BY <2>1, <2>2, OtherMoves
<1>3. QED
  BY <1>1, <1>2, OriginInvCorrect, PTL DEF Spec

(* What has left the cache is never handed to another call again.                *)
THEOREM PurgedNeverServed == Spec => PurgedStaysPurged
<1>1. TypeOK /\ CallInv /\ OriginInv /\ [Next]_vars
        => \A c \in Calls : reply'[c] # reply[c] =>
               reply'[c].artifact \notin {a \in purged : a.by # c}
  <2> SUFFICES ASSUME TypeOK, CallInv, OriginInv, [Next]_vars,
                      NEW c \in Calls, reply'[c] # reply[c]
               PROVE  reply'[c].artifact \notin {a \in purged : a.by # c}
    OBVIOUS
  <2>1. CASE reply'[c].artifact = Nothing
    BY <2>1, LlmRpcAssumption DEF TypeOK
  <2>2. CASE Serves(c)
    BY <2>2, ServesFacts
  <2>3. QED
    BY <2>1, <2>2, OtherMoves
<1>2. QED
  BY <1>1, OriginInvCorrect, PTL DEF Spec, PurgedStaysPurged

-----------------------------------------------------------------------------
(* The contract with the backend *)

Made == {draft[c] : c \in Calls} \ {Nothing}
Outcomes == [c \in Calls |-> [status |-> reply[c].status, artifact |-> reply[c].artifact]]

LEMMA ContractNext ==
    Contract!Next <=>
      \/ \E c \in Calls :
            \/ Contract!Generate(c) /\ UNCHANGED Outcomes
            \/ Contract!Generate(c) /\ Contract!Answer(c)
            \/ (Contract!Answer(c) \/ Contract!Fail(c)) /\ UNCHANGED Made
      \/ Contract!Lose
BY DEF Contract!Next, Made, Outcomes

(* A call under way has no outcome. *)
LEMMA Unanswered ==
    ASSUME TypeOK, CallInv, NEW c \in Calls, pc[c] # "over"
    PROVE  Outcomes[c] = Contract!Unanswered /\ reply[c].status = "none"
BY DEF CallInv, Outcomes, Contract!Unanswered, Contract!Outcome

LEMMA OutcomeStep ==
    ASSUME NEW c \in Calls, \A d \in Calls \ {c} : reply'[d] = reply[d]
    PROVE  Outcomes' = [Outcomes EXCEPT ![c] =
                            Contract!Outcome(reply'[c].status, reply'[c].artifact)]
BY DEF Outcomes, Contract!Outcome

LEMMA FailStep ==
    ASSUME TypeOK, CallInv, NEW c \in Calls, pc[c] # "over",
           \A d \in Calls \ {c} : reply'[d] = reply[d], reply'[c].artifact = Nothing,
           reply'[c].status \in {"declined", "aborted", "refused", "cancelled", "lost"}
    PROVE  Contract!Fail(c)
<1>1. Outcomes' = [Outcomes EXCEPT ![c] = Contract!Outcome(reply'[c].status, Nothing)]
  BY OutcomeStep
<1>2. QED
  BY <1>1, Unanswered DEF Contract!Fail, Contract!Failures, Outcomes

LEMMA AnswerStep ==
    ASSUME TypeOK, CallInv, NEW c \in Calls, pc[c] # "over",
           \A d \in Calls \ {c} : reply'[d] = reply[d], reply'[c].status = "answer",
           reply'[c].artifact \in Contract!Fitting(c, Made')
    PROVE  Contract!Answer(c)
<1>1. Outcomes' = [Outcomes EXCEPT ![c] = Contract!Outcome("answer", reply'[c].artifact)]
  BY OutcomeStep
<1>2. QED
  BY <1>1, Unanswered DEF Contract!Answer, Outcomes, Made

LEMMA GenerateStep ==
    ASSUME TypeOK, CallInv, OriginInv, NEW c \in Calls, pc[c] = "asking",
           \A d \in Calls \ {c} : draft'[d] = draft[d], draft'[c] = New(c)
    PROVE  Contract!Generate(c)
<1>1. New(c) \in Artifacts /\ New(c) # Nothing /\ draft[c] = Nothing
  BY NewType DEF CallInv
<1>2. Made' = Made \cup {New(c)}
  BY <1>1 DEF Made
<1>3. \A a \in Made : a.by # c
  BY <1>1, OriginInvParts DEF Made, DraftInv
<1>4. New(c).by = c /\ New(c).prompt \in PromptsOf[c]
  BY OwnFits DEF New, PromptsOf
<1>5. Outcomes[c] = Contract!Unanswered
  BY Unanswered
<1>6. New(c) \in Made'
  BY <1>2
<1>7. QED
  BY <1>1, <1>2, <1>3, <1>4, <1>5, <1>6 DEF Contract!Generate, Made, Outcomes

(* What serves a call fits it. *)
LEMMA ServesFit ==
    ASSUME TypeOK, CallInv, OriginInv, [Next]_vars, NEW c \in Calls, Serves(c)
    PROVE  /\ reply'[c].artifact \in Contract!Fitting(c, Made')
           /\ reply'[c].status = "answer" /\ pc[c] # "over"
<1> DEFINE a == reply'[c].artifact
<1>1. /\ a # Nothing /\ a.prompt \in Alike(c) /\ c \notin Trivial
      /\ \/ a.by = c /\ a = draft'[c]
         \/ /\ a.by \in Calls /\ a = draft[a.by] /\ a.by # c
            /\ RequestOf[c].tone \notin {"absurd", "uncached"}
  BY ServesFacts DEF Cacheable
<1>2. a \in Made'
  <2>1. CASE a = draft'[c]
    BY <1>1, <2>1 DEF Made
  <2>2. CASE a.by \in Calls /\ a = draft[a.by] /\ a.by # c
    <3>1. draft'[a.by] = draft[a.by]
      BY <1>1, <2>2, StepKeeps DEF Keeps, CallInv
    <3>2. QED
      BY <1>1, <2>2, <3>1 DEF Made
  <2>3. QED
    BY <1>1, <2>1, <2>2
<1>3. PromptsOf[c] = Alike(c) /\ (c \in Own <=> RequestOf[c].tone \in {"absurd", "uncached"})
  BY DEF PromptsOf, Own
<1>4. reply'[c].status = "answer" /\ pc[c] # "over"
  BY DEF Serves
<1>5. QED
  BY <1>1, <1>2, <1>3, <1>4 DEF Contract!Fitting

(* A step that leaves every call but one as it is. *)
Alone(c) == \A d \in Calls \ {c} : reply'[d] = reply[d] /\ draft'[d] = draft[d]

LEMMA StepAlone ==
    ASSUME TypeOK, [Next]_vars
    PROVE  \/ UNCHANGED <<reply, draft>>
           \/ \E c \in Calls : Alone(c)
           \/ Restart
<1>1. ASSUME NEW c \in Calls, Refuse(c) \/ EndAtOnce(c) \/ Cancel(c) PROVE Alone(c)
  BY <1>1 DEF Refuse, EndAtOnce, Cancel, Answer, Fail, Abort, Decline, End, Alone, TypeOK
<1>2. ASSUME NEW c \in Calls, Hit(c) \/ StoreRaises(c) \/ Return(c) PROVE Alone(c)
  BY <1>2 DEF Hit, StoreRaises, Return, Answer, Alone, TypeOK
<1>3. ASSUME NEW c \in Calls, Misfit(c) \/ Down(c) \/ Escape(c) PROVE Alone(c)
  BY <1>3 DEF Misfit, Down, Escape, Fail, Abort, Decline, End, Alone, TypeOK
<1>4. ASSUME NEW c \in Calls, Generate(c) PROVE Alone(c)
  BY <1>4 DEF Generate, Answer, Alone, TypeOK
<1>5. ASSUME NEW c \in Calls, Begin(c) \/ Miss(c) \/ ReadRaises(c) \/ Store(c)
      PROVE  UNCHANGED <<reply, draft>>
  BY <1>5 DEF Begin, Miss, ReadRaises, Store
<1>6. ASSUME (\E k \in Keys : Drop(k)) \/ UNCHANGED vars PROVE UNCHANGED <<reply, draft>>
  BY <1>6 DEF Drop, vars
<1>7. QED
  BY <1>1, <1>2, <1>3, <1>4, <1>5, <1>6 DEF Next, Proceed

(* A step of one call is a step of the contract, or invisible. *)
LEMMA AloneRefines ==
    ASSUME TypeOK, CallInv, OriginInv, [Next]_vars, NEW c \in Calls, Alone(c)
    PROVE  Contract!Next \/ UNCHANGED Contract!vars
<1>1. Moves(c) /\ Keeps(c)
  BY StepMoves, StepKeeps
<1>2. reply'[c] = reply[c] => UNCHANGED Outcomes
  BY DEF Alone, Outcomes
<1>3. draft'[c] = draft[c] => UNCHANGED Made
  <2>1. draft'[c] = draft[c] => \A d \in Calls : draft'[d] = draft[d]
    BY DEF Alone
  <2>2. QED
    BY <2>1 DEF Made
<1>4. CASE Serves(c)
  <2>1. Contract!Answer(c)
    BY <1>4, ServesFit, AnswerStep DEF Alone
  <2>2. CASE draft'[c] = draft[c]
    BY <1>3, <2>1, <2>2, ContractNext
  <2>3. CASE pc[c] = "asking" /\ draft'[c] = New(c)
    BY <2>1, <2>3, GenerateStep, ContractNext DEF Alone
  <2>4. QED
    BY <1>1, <2>2, <2>3 DEF Keeps
<1>5. CASE Rests(c) \/ GoesOn(c)
  <2>1. UNCHANGED Outcomes
    BY <1>2, <1>5 DEF Rests, GoesOn
  <2>2. CASE draft'[c] = draft[c]
    BY <1>3, <2>1, <2>2 DEF Contract!vars, Made, Outcomes
  <2>3. CASE pc[c] = "asking" /\ draft'[c] = New(c)
    BY <2>1, <2>3, GenerateStep, ContractNext DEF Alone
  <2>4. QED
    BY <1>1, <2>2, <2>3 DEF Keeps
<1>6. CASE Vanishes(c) \/ Fails(c)
  <2>1. pc[c] # "over" /\ reply'[c].artifact = Nothing /\ UNCHANGED Made
    BY <1>3, <1>6 DEF Vanishes, Fails
  <2>2. CASE reply'[c].status = "answer" /\ c \in Trivial
    <3>1. Contract!Answer(c)
      BY <2>1, <2>2, AnswerStep DEF Alone, Contract!Fitting
    <3>2. QED
      BY <2>1, <3>1, ContractNext
  <2>3. CASE reply'[c].status \in {"declined", "aborted", "refused", "cancelled", "lost"}
    <3>1. Contract!Fail(c)
      BY <2>1, <2>3, FailStep DEF Alone
    <3>2. QED
      BY <2>1, <3>1, ContractNext
  <2>4. QED
    BY <1>6, <2>2, <2>3 DEF Vanishes, Fails
<1>7. QED
  BY <1>1, <1>4, <1>5, <1>6 DEF Moves

(* To its clients, what the RPCs do behind the interceptors is AnswerContract:   *)
(* every step of the system is one of the contract, or invisible.                *)
THEOREM ImplementsContract == Spec => ContractSpec
<1>1. Init => Contract!Init
  BY DEF Init, Contract!Init, Contract!Unanswered, Contract!Outcome, NoReply
<1>2. TypeOK /\ CallInv /\ OriginInv /\ [Next]_vars => [Contract!Next]_(Contract!vars)
  <2> SUFFICES ASSUME TypeOK, CallInv, OriginInv, [Next]_vars
               PROVE  Contract!Next \/ UNCHANGED Contract!vars
    OBVIOUS
  <2>1. CASE UNCHANGED <<reply, draft>>
    BY <2>1 DEF Contract!vars
  <2>2. ASSUME NEW c \in Calls, Alone(c) PROVE Contract!Next \/ UNCHANGED Contract!vars
    BY <2>2, AloneRefines
  <2>3. CASE Restart
    <3> DEFINE lost == {c \in Calls : Waiting(c)}
    <3>1. lost \subseteq {c \in Calls : Outcomes[c] = Contract!Unanswered}
      BY Unanswered DEF Waiting
    <3>2. Outcomes' = [c \in Calls |-> IF c \in lost THEN Contract!Outcome("lost", Nothing)
                                                     ELSE Outcomes[c]]
      BY <2>3 DEF Restart, NoReply, Outcomes, Contract!Outcome
    <3>3. UNCHANGED Made
      BY <2>3 DEF Restart, Made
    <3>4. Contract!Lose
      BY <3>1, <3>2, <3>3 DEF Contract!Lose, Outcomes, Made
    <3>5. QED
      BY <3>4, ContractNext
  <2>4. QED
    BY <2>1, <2>2, <2>3, StepAlone
<1>3. QED
  BY <1>1, <1>2, OriginInvCorrect, PTL DEF Spec, ContractSpec, Contract!Spec
=============================================================================
