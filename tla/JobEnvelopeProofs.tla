-------------------------- MODULE JobEnvelopeProofs --------------------------
(***************************************************************************)
(* Proofs about JobEnvelope, for any number of deliveries, jobs, failures, *)
(* restarts and expiries: type correctness and the safety properties.      *)
(***************************************************************************)
EXTENDS JobEnvelope, FiniteSetTheorems, TLAPS

(* The status a handler stores is one of the two statuses. *)
LEMMA StatusOfType == \A d : StatusOf(d) \in Statuses
  BY DEF StatusOf, Statuses

Places == {"queued", "checking", "serving", "storing", "announcing",
           "returned", "raised", "succeeded", "errored"}

(* Leaving the handler keeps the types of what it writes. *)
LEMMA LeaveType ==
    ASSUME TypeOK, NEW d \in Deliveries, NEW how \in Places, Leave(d, how)
    PROVE  /\ pc' \in [Deliveries -> Places]
           /\ branch' \in [Deliveries -> {"try", "except"}]
           /\ gauge' \in [Jobs -> Int]
<1>1. JobOf[d] \in Jobs /\ gauge[JobOf[d]] - 1 \in Int
  BY EnvelopeAssumption DEF TypeOK
<1>2. pc' \in [Deliveries -> Places]
  BY DEF TypeOK, Leave, Places
<1>3. branch' \in [Deliveries -> {"try", "except"}]
  BY DEF TypeOK, Leave
<1>4. gauge' \in [Jobs -> Int]
  BY <1>1 DEF TypeOK, Leave
<1>5. QED
  BY <1>2, <1>3, <1>4

(* So does an exception, caught or not. *)
LEMMA CatchType ==
    ASSUME TypeOK, NEW d \in Deliveries, Catch(d)
    PROVE  /\ pc' \in [Deliveries -> Places]
           /\ branch' \in [Deliveries -> {"try", "except"}]
           /\ gauge' \in [Jobs -> Int]
<1>1. CASE Leave(d, "raised")
  BY <1>1, LeaveType DEF Places
<1>2. CASE ~Leave(d, "raised")
  BY <1>2 DEF TypeOK, Catch, Places
<1>3. QED
  BY <1>1, <1>2

(* A result written, or lost with the command, is well typed. *)
LEMMA WriteType ==
    ASSUME TypeOK, NEW d \in Deliveries, WriteResult(d) \/ NoWrite
    PROVE  /\ result' \in [Jobs -> Statuses \cup {NoResult}]
           /\ completions' \in [Jobs -> Nat]
           /\ answered' \in SUBSET Jobs
<1>1. JobOf[d] \in Jobs /\ StatusOf(d) \in Statuses
  BY EnvelopeAssumption, StatusOfType
<1>2. CASE WriteResult(d)
  <2>1. result' \in [Jobs -> Statuses \cup {NoResult}]
    BY <1>1, <1>2 DEF TypeOK, WriteResult
  <2>2. completions' \in [Jobs -> Nat]
    BY <1>1, <1>2 DEF TypeOK, WriteResult
  <2>3. answered' \in SUBSET Jobs
    BY <1>1, <1>2 DEF TypeOK, WriteResult
  <2>4. QED
    BY <2>1, <2>2, <2>3
<1>3. CASE NoWrite
  BY <1>3 DEF TypeOK, NoWrite
<1>4. QED
  BY <1>2, <1>3

(* A notification published, or lost with the command, is well typed. *)
LEMMA PublishType ==
    ASSUME TypeOK, NEW d \in Deliveries, PublishNotification(d) \/ UNCHANGED sent
    PROVE  sent' \in [Jobs -> [Statuses -> Nat]]
<1>1. JobOf[d] \in Jobs /\ StatusOf(d) \in Statuses
  BY EnvelopeAssumption, StatusOfType
<1>2. CASE PublishNotification(d)
  <2> DEFINE j == JobOf[d]
  <2>1. sent' = [sent EXCEPT ![j] = [sent[j] EXCEPT ![StatusOf(d)] = @ + 1]]
    BY <1>2 DEF PublishNotification
  <2>2. sent[j] \in [Statuses -> Nat]
    BY <1>1 DEF TypeOK
  <2>3. [sent[j] EXCEPT ![StatusOf(d)] = @ + 1] \in [Statuses -> Nat]
    BY <1>1, <2>2
  <2>4. QED
    BY <1>1, <2>1, <2>3 DEF TypeOK
<1>3. CASE UNCHANGED sent
  BY <1>3 DEF TypeOK
<1>4. QED
  BY <1>2, <1>3

(* Every variable keeps its type through every step of the worker, arq and Redis. *)
THEOREM TypeCorrect == Spec => []TypeOK
<1> USE EnvelopeAssumption DEF envVars
<1>1. Init => TypeOK
  BY DEF Init, TypeOK, ZeroPerStatus, Statuses
<1>2. TypeOK /\ [Next]_vars => TypeOK'
  <2> SUFFICES ASSUME TypeOK, [Next]_vars PROVE TypeOK'
    OBVIOUS
  <2> USE StatusOfType DEF TypeOK
  <2>1. CASE UNCHANGED vars
    BY <2>1 DEF vars
  <2>2. ASSUME NEW d \in Deliveries, Pick(d) PROVE TypeOK'
    BY <2>2 DEF Pick
  <2>3. ASSUME NEW d \in Deliveries, Abandon(d) PROVE TypeOK'
    BY <2>3 DEF Abandon
  <2>4. ASSUME NEW d \in Deliveries, Finish(d) PROVE TypeOK'
    BY <2>4 DEF Finish
  <2>5. ASSUME NEW d \in Deliveries, Skip(d) PROVE TypeOK'
    BY <2>5 DEF Skip
  <2>6. ASSUME NEW d \in Deliveries, Enter(d) PROVE TypeOK'
    BY <2>6 DEF Enter
  <2>7. ASSUME NEW d \in Deliveries, CheckRaises(d) PROVE TypeOK'
    BY <2>7 DEF CheckRaises, Faulty
  <2>8. ASSUME NEW d \in Deliveries, ServiceReturns(d) PROVE TypeOK'
    BY <2>8 DEF ServiceReturns
  <2>9. ASSUME NEW d \in Deliveries, ServiceRaises(d) PROVE TypeOK'
    BY <2>9, CatchType DEF ServiceRaises, Places
  <2>10. ASSUME NEW d \in Deliveries, Store(d) PROVE TypeOK'
    BY <2>10, WriteType DEF Store
  <2>11. ASSUME NEW d \in Deliveries, StoreRaises(d) PROVE TypeOK'
    BY <2>11, WriteType, CatchType DEF StoreRaises, Faulty, Places
  <2>12. ASSUME NEW d \in Deliveries, Announce(d) PROVE TypeOK'
    BY <2>12, PublishType, LeaveType DEF Announce, Places
  <2>13. ASSUME NEW d \in Deliveries, AnnounceRaises(d) PROVE TypeOK'
    BY <2>13, PublishType, CatchType DEF AnnounceRaises, Faulty, Places
  <2>14. ASSUME NEW d \in Deliveries, Timeout(d) PROVE TypeOK'
    <3>1. /\ pc' \in [Deliveries -> Places]
          /\ branch' \in [Deliveries -> {"try", "except"}]
          /\ gauge' \in [Jobs -> Int]
      <4>1. CASE InTry(d)
        BY <2>14, <4>1, LeaveType DEF Timeout, Places
      <4>2. CASE ~InTry(d)
        BY <2>14, <4>2 DEF Timeout, Places
      <4>3. QED
        BY <4>1, <4>2
    <3>2. sent' \in [Jobs -> [Statuses -> Nat]]
      BY <2>14, PublishType DEF Timeout
    <3>3. QED
      BY <2>14, <3>1, <3>2 DEF Timeout, Places
  <2>15. CASE Restart
    BY <2>15 DEF Restart, ZeroPerStatus, Statuses
  <2>16. ASSUME NEW j \in Jobs, Expire(j) PROVE TypeOK'
    BY <2>16 DEF Expire
  <2>17. QED
    BY <2>1, <2>2, <2>3, <2>4, <2>5, <2>6, <2>7, <2>8, <2>9, <2>10, <2>11, <2>12,
       <2>13, <2>14, <2>15, <2>16 DEF Next, Handler, Progress, Arq
<1>3. QED
  BY <1>1, <1>2, PTL DEF Spec

-----------------------------------------------------------------------------
(* jobs_in_progress *)

Inside(j) == {d \in Deliveries : JobOf[d] = j /\ InTry(d)}

LEMMA InsideFinite == \A j : IsFiniteSet(Inside(j)) /\ Cardinality(Inside(j)) \in Nat
  BY EnvelopeAssumption, FS_Subset, FS_CardinalityType DEF Inside

(* A step that neither enters nor leaves a try statement keeps the gauge right. *)
LEMMA GaugeKept ==
    ASSUME GaugeBalanced, UNCHANGED gauge,
           \A e \in Deliveries : InTry(e)' <=> InTry(e)
    PROVE  GaugeBalanced'
  BY DEF GaugeBalanced

(* Entering the try statement of one handler and incrementing keeps it right. *)
LEMMA GaugeEntered ==
    ASSUME TypeOK, GaugeBalanced, NEW d \in Deliveries, ~InTry(d),
           InTry(d)', \A e \in Deliveries \ {d} : InTry(e)' <=> InTry(e),
           gauge' = [gauge EXCEPT ![JobOf[d]] = @ + 1]
    PROVE  GaugeBalanced'
<1> SUFFICES ASSUME NEW j \in Jobs PROVE gauge'[j] = Cardinality(Inside(j)')
  BY DEF GaugeBalanced, Inside
<1>1. gauge[j] = Cardinality(Inside(j))
  BY DEF GaugeBalanced, Inside
<1>2. CASE j = JobOf[d]
  <2>1. Inside(j)' = Inside(j) \cup {d} /\ d \notin Inside(j)
    BY <1>2 DEF Inside
  <2>2. Cardinality(Inside(j)') = Cardinality(Inside(j)) + 1
    BY <2>1, InsideFinite, FS_AddElement
  <2>3. QED
    BY <1>1, <1>2, <2>2 DEF TypeOK
<1>3. CASE j # JobOf[d]
  <2>1. Inside(j)' = Inside(j)
    BY <1>3 DEF Inside
  <2>2. gauge'[j] = gauge[j]
    BY <1>3 DEF TypeOK
  <2>3. QED
    BY <1>1, <2>1, <2>2
<1>4. QED
  BY <1>2, <1>3

(* Leaving it and decrementing keeps it right. *)
LEMMA GaugeLeft ==
    ASSUME TypeOK, GaugeBalanced, NEW d \in Deliveries, InTry(d),
           NEW how \in {"returned", "raised"}, Leave(d, how)
    PROVE  GaugeBalanced'
<1> SUFFICES ASSUME NEW j \in Jobs PROVE gauge'[j] = Cardinality(Inside(j)')
  BY DEF GaugeBalanced, Inside
<1>1. gauge[j] = Cardinality(Inside(j))
  BY DEF GaugeBalanced, Inside
<1>2. ~InTry(d)' /\ \A e \in Deliveries \ {d} : InTry(e)' <=> InTry(e)
  BY DEF Leave, InTry, TypeOK
<1>3. CASE j = JobOf[d]
  <2>1. Inside(j)' = Inside(j) \ {d} /\ d \in Inside(j)
    BY <1>2, <1>3 DEF Inside
  <2>2. Cardinality(Inside(j)') = Cardinality(Inside(j)) - 1
    BY <2>1, InsideFinite, FS_RemoveElement
  <2>3. QED
    BY <1>1, <1>3, <2>2 DEF TypeOK, Leave
<1>4. CASE j # JobOf[d]
  <2>1. Inside(j)' = Inside(j)
    BY <1>2, <1>4 DEF Inside
  <2>2. gauge'[j] = gauge[j]
    BY <1>4 DEF TypeOK, Leave
  <2>3. QED
    BY <1>1, <2>1, <2>2
<1>5. QED
  BY <1>3, <1>4

(* An exception inside the try statement keeps it right, caught or not. *)
LEMMA GaugeCaught ==
    ASSUME TypeOK, GaugeBalanced, NEW d \in Deliveries, InTry(d), Catch(d)
    PROVE  GaugeBalanced'
<1>1. CASE Leave(d, "raised")
  BY <1>1, GaugeLeft
<1>2. CASE ~Leave(d, "raised")
  <2>1. UNCHANGED gauge /\ pc' = [pc EXCEPT ![d] = "storing"]
    BY <1>2 DEF Catch
  <2>2. \A e \in Deliveries : InTry(e)' <=> InTry(e)
    BY <2>1 DEF InTry, TypeOK
  <2>3. QED
    BY <2>1, <2>2, GaugeKept
<1>3. QED
  BY <1>1, <1>2

(* jobs_in_progress is the number of handlers inside their try statement,      *)
(* through errors, cancellations and restarts, for any number of deliveries.   *)
THEOREM GaugeAlwaysBalanced == Spec => []GaugeBalanced
<1>1. Init => GaugeBalanced
  <2> SUFFICES ASSUME Init, NEW j \in Jobs PROVE gauge[j] = Cardinality(Inside(j))
    BY DEF GaugeBalanced, Inside
  <2>1. Inside(j) = {}
    BY DEF Init, Inside, InTry
  <2>2. QED
    BY <2>1, FS_EmptySet DEF Init
<1>2. TypeOK /\ GaugeBalanced /\ [Next]_vars => GaugeBalanced'
  <2> SUFFICES ASSUME TypeOK, GaugeBalanced, [Next]_vars PROVE GaugeBalanced'
    OBVIOUS
  <2>1. CASE UNCHANGED vars
    BY <2>1, GaugeKept DEF vars, InTry
  <2>2. ASSUME NEW d \in Deliveries,
               Pick(d) \/ Abandon(d) \/ Finish(d) \/ Skip(d) \/ CheckRaises(d)
                       \/ ServiceReturns(d) \/ Store(d)
        PROVE  GaugeBalanced'
    <3>1. UNCHANGED gauge
      BY <2>2 DEF Pick, Abandon, Finish, Skip, CheckRaises, ServiceReturns, Store
    <3>2. PICK how : pc' = [pc EXCEPT ![d] = how] /\ (how \in {"storing", "announcing"} <=> InTry(d))
                     /\ how # "serving"
      BY <2>2 DEF Pick, Abandon, Finish, Skip, CheckRaises, ServiceReturns, Store, InTry
    <3>3. \A e \in Deliveries : InTry(e)' <=> InTry(e)
      BY <3>2 DEF InTry, TypeOK
    <3>4. QED
      BY <3>1, <3>3, GaugeKept
  <2>3. ASSUME NEW d \in Deliveries, Enter(d) PROVE GaugeBalanced'
    <3>1. ~InTry(d) /\ InTry(d)' /\ \A e \in Deliveries \ {d} : InTry(e)' <=> InTry(e)
      BY <2>3 DEF Enter, InTry, TypeOK
    <3>2. QED
      BY <2>3, <3>1, GaugeEntered DEF Enter
  <2>4. ASSUME NEW d \in Deliveries, ServiceRaises(d) \/ StoreRaises(d) \/ AnnounceRaises(d)
        PROVE  GaugeBalanced'
    BY <2>4, GaugeCaught DEF ServiceRaises, StoreRaises, AnnounceRaises, InTry
  <2>5. ASSUME NEW d \in Deliveries, Announce(d) PROVE GaugeBalanced'
    BY <2>5, GaugeLeft DEF Announce, InTry
  <2>6. ASSUME NEW d \in Deliveries, Timeout(d) PROVE GaugeBalanced'
    <3>1. CASE InTry(d)
      BY <2>6, <3>1, GaugeLeft DEF Timeout
    <3>2. CASE ~InTry(d)
      <4>1. UNCHANGED gauge /\ pc' = [pc EXCEPT ![d] = "raised"]
        BY <2>6, <3>2 DEF Timeout
      <4>2. \A e \in Deliveries : InTry(e)' <=> InTry(e)
        BY <3>2, <4>1 DEF InTry, TypeOK
      <4>3. QED
        BY <4>1, <4>2, GaugeKept
    <3>3. QED
      BY <3>1, <3>2
  <2>7. CASE Restart
    <3> SUFFICES ASSUME NEW j \in Jobs PROVE gauge'[j] = Cardinality(Inside(j)')
      BY DEF GaugeBalanced, Inside
    <3>1. Inside(j)' = {}
      BY <2>7 DEF Restart, Inside, InTry, Held, Live
    <3>2. QED
      BY <2>7, <3>1, FS_EmptySet DEF Restart
  <2>8. ASSUME NEW j \in Jobs, Expire(j) PROVE GaugeBalanced'
    BY <2>8, GaugeKept DEF Expire, InTry
  <2>9. QED
    BY <2>1, <2>2, <2>3, <2>4, <2>5, <2>6, <2>7, <2>8 DEF Next, Handler, Progress, Arq
<1>3. QED
  BY <1>1, <1>2, TypeCorrect, PTL DEF Spec

-----------------------------------------------------------------------------
(* jobs_total *)

(* What a publication, or a lost one, does to the notifications of a job. *)
LEMMA SentGrows ==
    ASSUME TypeOK, NEW d \in Deliveries, PublishNotification(d) \/ UNCHANGED sent,
           NEW j \in Jobs, NEW s \in Statuses
    PROVE  /\ sent[j][s] \in Nat /\ sent'[j][s] \in Nat
           /\ sent[j][s] <= sent'[j][s]
<1>1. sent \in [Jobs -> [Statuses -> Nat]] /\ JobOf[d] \in Jobs
  BY EnvelopeAssumption DEF TypeOK
<1>2. CASE UNCHANGED sent
  BY <1>1, <1>2
<1>3. CASE PublishNotification(d)
  <2>1. CASE j = JobOf[d] /\ s = StatusOf(d)
    <3>1. sent'[j][s] = sent[j][s] + 1
      BY <1>1, <1>3, <2>1 DEF PublishNotification
    <3>2. QED
      BY <1>1, <3>1
  <2>2. CASE ~(j = JobOf[d] /\ s = StatusOf(d))
    <3>1. sent'[j][s] = sent[j][s]
      BY <1>1, <1>3, <2>2 DEF PublishNotification
    <3>2. QED
      BY <1>1, <3>1
  <2>3. QED
    BY <2>1, <2>2
<1>4. QED
  BY <1>2, <1>3

(* jobs_total counts no outcome that was not published, in any behaviour.      *)
THEOREM MetricsSound == Spec => []MetricsNeverOverReport
<1>1. Init => MetricsNeverOverReport
  BY DEF Init, MetricsNeverOverReport, ZeroPerStatus
<1>2. TypeOK /\ MetricsNeverOverReport /\ [Next]_vars => MetricsNeverOverReport'
  <2> SUFFICES ASSUME TypeOK, MetricsNeverOverReport, [Next]_vars,
                      NEW j \in Jobs, NEW s \in Statuses
               PROVE  total'[j][s] <= sent'[j][s]
    BY DEF MetricsNeverOverReport
  <2>1. total[j][s] <= sent[j][s] /\ total[j][s] \in Nat /\ sent[j][s] \in Nat
    BY DEF MetricsNeverOverReport, TypeOK
  <2>2. CASE UNCHANGED <<total, sent>>
    BY <2>1, <2>2
  <2>3. ASSUME NEW d \in Deliveries, Announce(d) PROVE total'[j][s] <= sent'[j][s]
    <3>1. total \in [Jobs -> [Statuses -> Nat]] /\ sent \in [Jobs -> [Statuses -> Nat]]
      BY DEF TypeOK
    <3>2. /\ total' = [total EXCEPT ![JobOf[d]][StatusOf(d)] = @ + 1]
          /\ sent' = [sent EXCEPT ![JobOf[d]][StatusOf(d)] = @ + 1]
      BY <2>3 DEF Announce, PublishNotification
    <3>3. CASE j = JobOf[d] /\ s = StatusOf(d)
      <4>1. total'[j][s] = total[j][s] + 1 /\ sent'[j][s] = sent[j][s] + 1
        BY <3>1, <3>2, <3>3
      <4>2. QED
        BY <2>1, <4>1
    <3>4. CASE ~(j = JobOf[d] /\ s = StatusOf(d))
      <4>1. total'[j][s] = total[j][s] /\ sent'[j][s] = sent[j][s]
        BY <3>1, <3>2, <3>4
      <4>2. QED
        BY <2>1, <4>1
    <3>5. QED
      BY <3>3, <3>4
  <2>4. ASSUME NEW d \in Deliveries, AnnounceRaises(d) \/ Timeout(d)
        PROVE  total'[j][s] <= sent'[j][s]
    <3>1. (PublishNotification(d) \/ UNCHANGED sent) /\ UNCHANGED total
      BY <2>4 DEF AnnounceRaises, Timeout
    <3>2. QED
      BY <2>1, <3>1, SentGrows
  <2>5. CASE Restart
    <3>1. total'[j][s] = 0 /\ UNCHANGED sent
      BY <2>5 DEF Restart, ZeroPerStatus
    <3>2. QED
      BY <2>1, <3>1
  <2>6. QED
    BY <2>2, <2>3, <2>4, <2>5
       DEF Next, Handler, Progress, Arq, vars, Pick, Abandon, Finish, Skip, Enter,
           CheckRaises, ServiceReturns, ServiceRaises, Store, StoreRaises, Expire
<1>3. QED
  BY <1>1, <1>2, TypeCorrect, PTL DEF Spec

-----------------------------------------------------------------------------
(* Results and notifications *)

(* A status is never what Redis answers for a missing key. *)
LEMMA StatusIsResult == \A d : StatusOf(d) # NoResult
  BY EnvelopeAssumption DEF StatusOf

(* A result key changes only by a write or by expiry; a write makes it readable. *)
LEMMA WriteReadable ==
    ASSUME TypeOK, NEW d \in Deliveries, WriteResult(d)
    PROVE  /\ result'[JobOf[d]] = StatusOf(d)
           /\ \A j \in Jobs : j # JobOf[d] => result'[j] = result[j]
           /\ answered' = answered \cup {JobOf[d]}
  BY EnvelopeAssumption DEF TypeOK, WriteResult

LEMMA AnswerInductive == TypeOK /\ AnswerInv /\ [Next]_vars => AnswerInv'
<1> SUFFICES ASSUME TypeOK, AnswerInv, [Next]_vars PROVE AnswerInv'
  OBVIOUS
<1>0. JobOf \in [Deliveries -> Jobs] /\ pc \in [Deliveries -> Places]
  BY EnvelopeAssumption DEF TypeOK, Places
<1>1. ASSUME UNCHANGED <<result, answered>>,
             \A e \in Deliveries :
                 /\ pc'[e] = "announcing" => pc[e] = "announcing"
                 /\ pc'[e] \in {"returned", "succeeded"} =>
                        pc[e] \in {"returned", "succeeded"} \/ result[JobOf[e]] # NoResult
      PROVE  AnswerInv'
  BY <1>0, <1>1 DEF AnswerInv, SuccessMeansAnswered
<1>2. CASE UNCHANGED vars
  BY <1>1, <1>2 DEF vars
<1>3. ASSUME NEW d \in Deliveries,
             Pick(d) \/ Abandon(d) \/ Finish(d) \/ Skip(d) \/ Enter(d) \/ CheckRaises(d)
                     \/ ServiceReturns(d)
      PROVE  AnswerInv'
  <2>1. UNCHANGED <<result, answered>>
    BY <1>3 DEF Pick, Abandon, Finish, Skip, Enter, CheckRaises, ServiceReturns
  <2>2. PICK how : /\ pc' = [pc EXCEPT ![d] = how]
                   /\ how # "announcing"
                   /\ how = "returned" => result[JobOf[d]] # NoResult
                   /\ how = "succeeded" => pc[d] = "returned"
    BY <1>3 DEF Pick, Abandon, Finish, Skip, Enter, CheckRaises, ServiceReturns
  <2>3. QED
    BY <1>0, <1>1, <2>1, <2>2
<1>4. ASSUME NEW d \in Deliveries, ServiceRaises(d) \/ AnnounceRaises(d) \/ Timeout(d)
      PROVE  AnswerInv'
  <2>1. UNCHANGED <<result, answered>>
    BY <1>4 DEF ServiceRaises, AnnounceRaises, Timeout
  <2>2. PICK how : pc' = [pc EXCEPT ![d] = how] /\ how \in {"storing", "raised"}
    BY <1>4 DEF ServiceRaises, AnnounceRaises, Timeout, Catch, Leave
  <2>3. QED
    BY <1>0, <1>1, <2>1, <2>2
<1>5. ASSUME NEW d \in Deliveries, Announce(d) PROVE AnswerInv'
  <2>1. UNCHANGED <<result, answered>>
    BY <1>5 DEF Announce
  <2>2. pc' = [pc EXCEPT ![d] = "returned"] /\ result[JobOf[d]] # NoResult
    BY <1>5 DEF Announce, Leave, AnswerInv
  <2>3. QED
    BY <1>0, <1>1, <2>1, <2>2
<1>6. ASSUME NEW d \in Deliveries, Store(d) \/ StoreRaises(d) PROVE AnswerInv'
  <2>1. PICK how : /\ pc' = [pc EXCEPT ![d] = how]
                   /\ how \in {"storing", "raised", "announcing"}
                   /\ how = "announcing" => WriteResult(d)
    BY <1>6 DEF Store, StoreRaises, Catch, Leave
  <2>2. CASE WriteResult(d)
    <3>1. \A j \in Jobs : result[j] # NoResult => result'[j] # NoResult
      BY <2>2, WriteReadable, StatusIsResult
    <3>2. result'[JobOf[d]] # NoResult
      BY <2>2, WriteReadable, StatusIsResult
    <3>3. \A e \in Deliveries : pc'[e] = "announcing" => result'[JobOf[e]] # NoResult
      BY <1>0, <2>1, <3>1, <3>2 DEF AnswerInv
    <3>4. \A j \in Jobs : result'[j] # NoResult => j \in answered'
      BY <2>2, WriteReadable DEF AnswerInv
    <3>5. SuccessMeansAnswered'
      BY <1>0, <2>1, <2>2, WriteReadable DEF AnswerInv, SuccessMeansAnswered
    <3>6. QED
      BY <3>3, <3>4, <3>5 DEF AnswerInv
  <2>3. CASE ~WriteResult(d)
    <3>1. UNCHANGED <<result, answered>>
      BY <1>6, <2>3 DEF Store, StoreRaises, NoWrite
    <3>2. QED
      BY <1>0, <1>1, <2>1, <2>3, <3>1
  <2>4. QED
    BY <2>2, <2>3
<1>7. CASE Restart
  <2>1. UNCHANGED <<result, answered>> /\ pc' = [d \in Deliveries |-> IF Held(d) THEN "queued" ELSE pc[d]]
    BY <1>7 DEF Restart
  <2>2. QED
    BY <1>0, <1>1, <2>1
<1>8. ASSUME NEW j \in Jobs, Expire(j) PROVE AnswerInv'
  <2>1. UNCHANGED <<pc, answered>> /\ result' = [result EXCEPT ![j] = NoResult]
    BY <1>8 DEF Expire
  <2>2. \A d \in Deliveries : pc'[d] = "announcing" => JobOf[d] # j
    BY <1>8, <2>1 DEF Expire, InTry
  <2>3. \A k \in Jobs : result'[k] = (IF k = j THEN NoResult ELSE result[k])
    BY <2>1 DEF TypeOK
  <2>4. QED
    BY <1>0, <2>1, <2>2, <2>3 DEF AnswerInv, SuccessMeansAnswered
<1>9. QED
  BY <1>2, <1>3, <1>4, <1>5, <1>6, <1>7, <1>8 DEF Next, Handler, Progress, Arq

LEMMA AnswerInvariant == Spec => []AnswerInv
<1>1. Init => AnswerInv
  BY DEF Init, AnswerInv, SuccessMeansAnswered
<1>2. QED
  BY <1>1, AnswerInductive, TypeCorrect, PTL DEF Spec

(* Whatever happens in between, a job function that returns leaves its job      *)
(* answered.                                                                    *)
THEOREM SuccessIsAnswered == Spec => []SuccessMeansAnswered
<1>1. AnswerInv => SuccessMeansAnswered
  BY DEF AnswerInv
<1>2. QED
  BY <1>1, AnswerInvariant, PTL

(* A notification is published only while a result of its job can be read, with *)
(* duplicates, failures, restarts and expiries.                                 *)
THEOREM AnnouncementsAreReadable == Spec => AnnouncedIsReadable
<1> DEFINE Readable == \A j \in Jobs : sent'[j] # sent[j] => result[j] # NoResult
<1>1. TypeOK /\ AnswerInv /\ [Next]_vars => [Readable]_vars
  <2> SUFFICES ASSUME TypeOK, AnswerInv, Next PROVE Readable
    OBVIOUS
  <2>1. CASE UNCHANGED sent
    BY <2>1
  <2>2. ASSUME NEW d \in Deliveries, pc[d] = "announcing",
               PublishNotification(d) \/ UNCHANGED sent
        PROVE  Readable
    <3>1. result[JobOf[d]] # NoResult
      BY <2>2 DEF AnswerInv
    <3>2. \A j \in Jobs : j # JobOf[d] => sent'[j] = sent[j]
      BY <2>2 DEF PublishNotification, TypeOK
    <3>3. QED
      BY <3>1, <3>2
  <2>3. ASSUME NEW d \in Deliveries, Announce(d) \/ AnnounceRaises(d) \/ Timeout(d)
        PROVE  Readable
    BY <2>1, <2>2, <2>3 DEF Announce, AnnounceRaises, Timeout
  <2>4. QED
    BY <2>1, <2>3
       DEF Next, Handler, Progress, Arq, Pick, Abandon, Finish, Skip, Enter,
           CheckRaises, ServiceReturns, ServiceRaises, Store, StoreRaises, Expire, Restart
<1>2. QED
  BY <1>1, TypeCorrect, AnswerInvariant, PTL DEF Spec, AnnouncedIsReadable

-----------------------------------------------------------------------------
(* The ledger of results.  When handlers of one job id never overlap (SerialSpec), *)
(* the envelope is idempotent and implements ResultLedger, whatever fails or       *)
(* restarts.                                                                       *)

LEMMA SerialIsSpec == SerialSpec => Spec
<1>1. [Next /\ Serial']_vars => [Next]_vars
  OBVIOUS
<1>2. QED
  BY <1>1, PTL DEF SerialSpec, Spec

(* Two handlers inside their try statements belong to different jobs. *)
LEMMA SerialAlone ==
    ASSUME Serial, NEW d \in Deliveries, NEW e \in Deliveries, e # d,
           InTry(d), InTry(e)
    PROVE  JobOf[e] # JobOf[d]
  BY DEF Serial, Live

(* What SerialInv says of one handler. *)
HandlerInv(d) ==
    /\ pc[d] = "serving" => branch[d] = "try"
    /\ pc[d] \in {"serving", "storing"} /\ branch[d] = "try" => result[JobOf[d]] = NoResult
    /\ pc[d] = "announcing" => result[JobOf[d]] = StatusOf(d)

(* What it says of one job. *)
JobInv(j) == /\ result[j] = NoResult => completions[j] = 0
             /\ completions[j] <= 1

LEMMA SerialInvParts ==
    SerialInv <=> /\ Serial
                  /\ \A d \in Deliveries : HandlerInv(d)
                  /\ \A j \in Jobs : JobInv(j)
  BY DEF SerialInv, HandlerInv, JobInv, IdempotentProcessing

(* A handler that does not move keeps its facts while its key does not change. *)
LEMMA HandlerKept ==
    ASSUME NEW e \in Deliveries, HandlerInv(e),
           pc'[e] = pc[e], branch'[e] = branch[e],
           InTry(e) => result'[JobOf[e]] = result[JobOf[e]]
    PROVE  HandlerInv(e)'
  BY DEF HandlerInv, InTry, StatusOf

(* One handler moves and writes nothing. *)
LEMMA MoveOnly ==
    ASSUME TypeOK, SerialInv, NEW d \in Deliveries, NEW how, NEW br,
           pc' = [pc EXCEPT ![d] = how], branch' = [branch EXCEPT ![d] = br],
           UNCHANGED <<result, completions>>, Serial',
           how = "serving" => br = "try",
           how \in {"serving", "storing"} /\ br = "try" => result[JobOf[d]] = NoResult,
           how # "announcing"
    PROVE  SerialInv'
<1>1. \A e \in Deliveries : HandlerInv(e)'
  <2> SUFFICES ASSUME NEW e \in Deliveries PROVE HandlerInv(e)'
    OBVIOUS
  <2>1. CASE e = d
    BY <2>1 DEF HandlerInv, TypeOK
  <2>2. CASE e # d
    BY <2>2, SerialInvParts, HandlerKept DEF TypeOK
  <2>3. QED
    BY <2>1, <2>2
<1>2. \A j \in Jobs : JobInv(j)'
  BY SerialInvParts DEF JobInv
<1>3. QED
  BY <1>1, <1>2 DEF SerialInv, HandlerInv, JobInv, IdempotentProcessing

(* One handler writes its result and moves on. *)
LEMMA WriteMove ==
    ASSUME TypeOK, SerialInv, NEW d \in Deliveries, NEW how, NEW br,
           pc[d] = "storing", WriteResult(d),
           pc' = [pc EXCEPT ![d] = how], branch' = [branch EXCEPT ![d] = br], Serial',
           \/ how = "announcing" /\ br = branch[d]
           \/ how = "storing" /\ br = "except"
           \/ how = "raised"
    PROVE  SerialInv'
<1>0. JobOf \in [Deliveries -> Jobs] /\ completions \in [Jobs -> Nat]
  BY EnvelopeAssumption DEF TypeOK
<1>1. \A e \in Deliveries : HandlerInv(e)'
  <2> SUFFICES ASSUME NEW e \in Deliveries PROVE HandlerInv(e)'
    OBVIOUS
  <2>1. CASE e = d
    <3>1. pc'[d] = how /\ branch'[d] = br /\ result'[JobOf[d]] = StatusOf(d)
      BY WriteReadable DEF TypeOK
    <3>2. QED
      BY <2>1, <3>1 DEF HandlerInv, StatusOf
  <2>2. CASE e # d
    <3>1. InTry(e) => result'[JobOf[e]] = result[JobOf[e]]
      BY <1>0, <2>2, SerialAlone, SerialInvParts, WriteReadable DEF InTry
    <3>2. QED
      BY <2>2, <3>1, SerialInvParts, HandlerKept DEF TypeOK
  <2>3. QED
    BY <2>1, <2>2
<1>2. \A j \in Jobs : JobInv(j)'
  <2> SUFFICES ASSUME NEW j \in Jobs PROVE JobInv(j)'
    OBVIOUS
  <2>1. JobInv(j) /\ HandlerInv(d)
    BY SerialInvParts
  <2>2. CASE j = JobOf[d]
    <3>1. result'[j] # NoResult
      BY <2>2, WriteReadable, StatusIsResult
    <3>2. CASE branch[d] = "try"
      <4>1. completions[j] = 0
        BY <2>1, <2>2, <3>2 DEF HandlerInv, JobInv
      <4>2. completions'[j] = 1
        BY <1>0, <2>2, <3>2, <4>1 DEF WriteResult, StatusOf
      <4>3. QED
        BY <3>1, <4>2 DEF JobInv
    <3>3. CASE branch[d] # "try"
      <4>1. completions'[j] = completions[j]
        BY <1>0, <2>2, <3>3 DEF WriteResult, StatusOf
      <4>2. QED
        BY <2>1, <3>1, <4>1 DEF JobInv
    <3>4. QED
      BY <3>2, <3>3
  <2>3. CASE j # JobOf[d]
    <3>1. completions'[j] = completions[j] /\ result'[j] = result[j]
      BY <1>0, <2>3, WriteReadable DEF WriteResult
    <3>2. QED
      BY <2>1, <3>1 DEF JobInv
  <2>4. QED
    BY <2>2, <2>3
<1>3. QED
  BY <1>1, <1>2 DEF SerialInv, HandlerInv, JobInv, IdempotentProcessing

(* An exception at an await leaves the handler's facts in place. *)
LEMMA CatchMove ==
    ASSUME NEW d \in Deliveries, TypeOK, Catch(d)
    PROVE  \E how, br :
              /\ pc' = [pc EXCEPT ![d] = how] /\ branch' = [branch EXCEPT ![d] = br]
              /\ \/ how = "storing" /\ br = "except"
                 \/ how = "raised"
  BY DEF Catch, Leave

LEMMA SerialInductive == TypeOK /\ SerialInv /\ [Next /\ Serial']_vars => SerialInv'
<1> SUFFICES ASSUME TypeOK, SerialInv, [Next /\ Serial']_vars PROVE SerialInv'
  OBVIOUS
<1>0. JobOf \in [Deliveries -> Jobs] /\ branch \in [Deliveries -> {"try", "except"}]
  BY EnvelopeAssumption DEF TypeOK
<1>1. CASE UNCHANGED vars
  BY <1>1 DEF vars, SerialInv, Serial, Live, InTry, StatusOf, IdempotentProcessing
<1>2. ASSUME NEW d \in Deliveries, Serial',
             Pick(d) \/ Abandon(d) \/ Finish(d) \/ Skip(d) \/ CheckRaises(d)
      PROVE  SerialInv'
  <2>1. branch' = [branch EXCEPT ![d] = branch[d]] /\ UNCHANGED <<result, completions>>
    BY <1>0, <1>2 DEF Pick, Abandon, Finish, Skip, CheckRaises
  <2>2. PICK how : /\ pc' = [pc EXCEPT ![d] = how]
                   /\ how \notin {"serving", "storing", "announcing"}
    BY <1>2 DEF Pick, Abandon, Finish, Skip, CheckRaises
  <2>3. QED
    BY <1>2, <2>1, <2>2, MoveOnly
<1>3. ASSUME NEW d \in Deliveries, Enter(d), Serial' PROVE SerialInv'
  BY <1>3, MoveOnly DEF Enter
<1>4. ASSUME NEW d \in Deliveries, ServiceReturns(d), Serial' PROVE SerialInv'
  <2>1. branch[d] = "try" /\ result[JobOf[d]] = NoResult
    BY <1>4 DEF ServiceReturns, SerialInv
  <2>2. branch' = [branch EXCEPT ![d] = branch[d]] /\ UNCHANGED <<result, completions>>
    BY <1>0, <1>4 DEF ServiceReturns
  <2>3. pc' = [pc EXCEPT ![d] = "storing"]
    BY <1>4 DEF ServiceReturns
  <2>4. QED
    BY <1>4, <2>1, <2>2, <2>3, MoveOnly
<1>5. ASSUME NEW d \in Deliveries, ServiceRaises(d) \/ AnnounceRaises(d), Serial'
      PROVE  SerialInv'
  <2>1. Catch(d) /\ UNCHANGED <<result, completions>>
    BY <1>5 DEF ServiceRaises, AnnounceRaises
  <2>2. PICK how, br : /\ pc' = [pc EXCEPT ![d] = how] /\ branch' = [branch EXCEPT ![d] = br]
                       /\ \/ how = "storing" /\ br = "except"
                          \/ how = "raised"
    BY <2>1, CatchMove
  <2>3. QED
    BY <1>5, <2>1, <2>2, MoveOnly
<1>6. ASSUME NEW d \in Deliveries, Announce(d), Serial' PROVE SerialInv'
  <2>1. Leave(d, "returned") /\ UNCHANGED <<result, completions>>
    BY <1>6 DEF Announce
  <2>2. QED
    BY <1>6, <2>1, MoveOnly DEF Leave
<1>7. ASSUME NEW d \in Deliveries, Timeout(d), Serial' PROVE SerialInv'
  <2>1. PICK br : pc' = [pc EXCEPT ![d] = "raised"] /\ branch' = [branch EXCEPT ![d] = br]
    <3>1. CASE InTry(d)
      BY <1>7, <3>1 DEF Timeout, Leave
    <3>2. CASE ~InTry(d)
      <4>1. branch' = [branch EXCEPT ![d] = branch[d]]
        BY <1>0, <1>7, <3>2 DEF Timeout
      <4>2. QED
        BY <1>7, <3>2, <4>1 DEF Timeout
    <3>3. QED
      BY <3>1, <3>2
  <2>2. UNCHANGED <<result, completions>>
    BY <1>7 DEF Timeout
  <2>3. QED
    BY <1>7, <2>1, <2>2, MoveOnly
<1>8. ASSUME NEW d \in Deliveries, Store(d), Serial' PROVE SerialInv'
  <2>1. branch' = [branch EXCEPT ![d] = branch[d]]
    BY <1>0, <1>8 DEF Store
  <2>2. pc[d] = "storing" /\ WriteResult(d) /\ pc' = [pc EXCEPT ![d] = "announcing"]
    BY <1>8 DEF Store
  <2>3. QED
    BY <1>8, <2>1, <2>2, WriteMove
<1>9. ASSUME NEW d \in Deliveries, StoreRaises(d), Serial' PROVE SerialInv'
  <2>1. pc[d] = "storing" /\ Catch(d) /\ (WriteResult(d) \/ NoWrite)
    BY <1>9 DEF StoreRaises
  <2>2. PICK how, br : /\ pc' = [pc EXCEPT ![d] = how] /\ branch' = [branch EXCEPT ![d] = br]
                       /\ \/ how = "storing" /\ br = "except"
                          \/ how = "raised"
    BY <2>1, CatchMove
  <2>3. CASE WriteResult(d)
    BY <1>9, <2>1, <2>2, <2>3, WriteMove
  <2>4. CASE NoWrite
    BY <1>9, <2>2, <2>4, MoveOnly DEF NoWrite
  <2>5. QED
    BY <2>1, <2>3, <2>4
<1>10. CASE Restart /\ Serial'
  <2>1. /\ pc' = [d \in Deliveries |-> IF Held(d) THEN "queued" ELSE pc[d]]
        /\ UNCHANGED <<result, completions>>
    BY <1>10 DEF Restart
  <2>2. \A d \in Deliveries : HandlerInv(d)'
    BY <2>1 DEF HandlerInv, Held, Live, InTry
  <2>3. \A j \in Jobs : JobInv(j)'
    BY <2>1, SerialInvParts DEF JobInv
  <2>4. QED
    BY <1>10, <2>2, <2>3 DEF SerialInv, HandlerInv, JobInv, IdempotentProcessing
<1>11. ASSUME NEW j \in Jobs, Expire(j), Serial' PROVE SerialInv'
  <2>1. /\ UNCHANGED <<pc, branch>>
        /\ \A k \in Jobs : k # j => result'[k] = result[k] /\ completions'[k] = completions[k]
        /\ completions'[j] = 0
    BY <1>11 DEF Expire, TypeOK
  <2>2. \A d \in Deliveries : HandlerInv(d)'
    <3> SUFFICES ASSUME NEW d \in Deliveries PROVE HandlerInv(d)'
      OBVIOUS
    <3>1. InTry(d) => JobOf[d] # j
      BY <1>11 DEF Expire
    <3>2. InTry(d) => result'[JobOf[d]] = result[JobOf[d]]
      BY <1>0, <2>1, <3>1
    <3>3. QED
      BY <2>1, <3>2, SerialInvParts, HandlerKept
  <2>3. \A k \in Jobs : JobInv(k)'
    BY <2>1, SerialInvParts DEF JobInv
  <2>4. QED
    BY <1>11, <2>2, <2>3 DEF SerialInv, HandlerInv, JobInv, IdempotentProcessing
<1>12. QED
  BY <1>1, <1>2, <1>3, <1>4, <1>5, <1>6, <1>7, <1>8, <1>9, <1>10, <1>11
     DEF Next, Handler, Progress, Arq

LEMMA SerialInvariant == SerialSpec => []SerialInv
<1>1. Init => SerialInv
  BY DEF Init, SerialInv, Serial, Live, InTry, IdempotentProcessing
<1>2. QED
  BY <1>1, SerialInductive, SerialIsSpec, TypeCorrect, PTL DEF SerialSpec

(* Between two expiries of its key, a job whose handlers do not overlap has a  *)
(* completed result stored at most once, through redeliveries and failures.    *)
THEOREM SerialIdempotence == SerialSpec => []IdempotentProcessing
<1>1. SerialInv => IdempotentProcessing
  BY DEF SerialInv
<1>2. QED
  BY <1>1, SerialInvariant, PTL

-----------------------------------------------------------------------------
(* The refinement *)

Told == {p \in Jobs \X Statuses : sent[p[1]][p[2]] > 0}

LEMMA LedgerNext == Ledger!Next <=> \E j \in Jobs :
    \/ /\ result[j] = NoResult
       /\ \E s \in Statuses : result' = [result EXCEPT ![j] = s]
       /\ Told' = Told
    \/ /\ result[j] = "completed"
       /\ result' = [result EXCEPT ![j] = "failed"]
       /\ Told' = Told
    \/ /\ result[j] \in Statuses
       /\ Told' = Told \cup {<<j, result[j]>>}
       /\ UNCHANGED result
    \/ /\ result' = [result EXCEPT ![j] = NoResult]
       /\ Told' = Told
  BY DEF Ledger!Next, Ledger!Decide, Ledger!Downgrade, Ledger!Tell, Ledger!Forget,
         Ledger!Statuses, Statuses, Told

(* Publishing is the ledger's Tell. *)
LEMMA PublishTells ==
    ASSUME TypeOK, SerialInv, NEW d \in Deliveries, pc[d] = "announcing",
           PublishNotification(d), UNCHANGED result
    PROVE  Ledger!Next
<1> DEFINE j == JobOf[d]
           s == StatusOf(d)
<1>1. j \in Jobs /\ s \in Statuses /\ result[j] = s
  BY EnvelopeAssumption, StatusOfType DEF SerialInv
<1>2. sent \in [Jobs -> [Statuses -> Nat]]
  BY DEF TypeOK
<1>3. sent'[j][s] > 0
  BY <1>1, <1>2 DEF PublishNotification
<1>4. \A p \in Jobs \X Statuses : p # <<j, s>> => sent'[p[1]][p[2]] = sent[p[1]][p[2]]
  BY <1>1, <1>2 DEF PublishNotification
<1>5. Told' = Told \cup {<<j, s>>}
  BY <1>1, <1>3, <1>4 DEF Told
<1>6. QED
  BY <1>1, <1>5, LedgerNext

(* Storing is Decide in the try branch; in the except branch it is Decide,     *)
(* Downgrade or nothing the ledger sees.                                        *)
LEMMA WriteDecides ==
    ASSUME TypeOK, SerialInv, NEW d \in Deliveries, pc[d] = "storing",
           WriteResult(d), UNCHANGED sent
    PROVE  Ledger!Next \/ UNCHANGED Ledger!vars
<1> DEFINE j == JobOf[d]
<1>1. j \in Jobs /\ Told' = Told
  BY EnvelopeAssumption DEF Told
<1>2. result' = [result EXCEPT ![j] = StatusOf(d)] /\ StatusOf(d) \in Statuses
  BY StatusOfType DEF WriteResult
<1>3. result \in [Jobs -> Statuses \cup {NoResult}]
  BY DEF TypeOK
<1>4. CASE result[j] = NoResult
  BY <1>1, <1>2, <1>4, LedgerNext
<1>5. CASE result[j] # NoResult
  <2>1. StatusOf(d) = "failed"
    BY <1>5 DEF SerialInv, StatusOf, TypeOK
  <2>2. CASE result[j] = "completed"
    BY <1>1, <1>2, <2>1, <2>2, LedgerNext
  <2>3. CASE result[j] = "failed"
    <3>1. UNCHANGED result
      BY <1>2, <1>3, <2>1, <2>3
    <3>2. QED
      BY <1>1, <3>1 DEF Ledger!vars, Told
  <2>4. QED
    BY <1>1, <1>3, <1>5, <2>2, <2>3 DEF Statuses
<1>6. QED
  BY <1>4, <1>5

(* Without overlapping handlers of one job id, the envelope implements the      *)
(* ledger: verdicts change only as the ledger allows, and every notification    *)
(* carries the verdict a reader finds.                                          *)
THEOREM SerialImplementsLedger == SerialSpec => LedgerSpec
<1>1. Init => Ledger!Init
  BY DEF Init, Ledger!Init, ZeroPerStatus
<1>2. TypeOK /\ SerialInv /\ [Next /\ Serial']_vars => [Ledger!Next]_(Ledger!vars)
  <2> SUFFICES ASSUME TypeOK, SerialInv, [Next]_vars
               PROVE  Ledger!Next \/ UNCHANGED Ledger!vars
    OBVIOUS
  <2>1. CASE UNCHANGED <<result, sent>>
    BY <2>1 DEF Ledger!vars
  <2>2. ASSUME NEW d \in Deliveries, Announce(d) \/ AnnounceRaises(d) \/ Timeout(d)
        PROVE  Ledger!Next \/ UNCHANGED Ledger!vars
    <3>1. UNCHANGED result
      BY <2>2 DEF Announce, AnnounceRaises, Timeout
    <3>2. UNCHANGED sent \/ (pc[d] = "announcing" /\ PublishNotification(d))
      BY <2>2 DEF Announce, AnnounceRaises, Timeout
    <3>3. QED
      BY <2>1, <3>1, <3>2, PublishTells
  <2>3. ASSUME NEW d \in Deliveries, Store(d) \/ StoreRaises(d)
        PROVE  Ledger!Next \/ UNCHANGED Ledger!vars
    <3>1. pc[d] = "storing" /\ UNCHANGED sent /\ (WriteResult(d) \/ UNCHANGED result)
      BY <2>3 DEF Store, StoreRaises, NoWrite
    <3>2. QED
      BY <2>1, <3>1, WriteDecides
  <2>4. ASSUME NEW j \in Jobs, Expire(j) PROVE Ledger!Next \/ UNCHANGED Ledger!vars
    <3>1. result' = [result EXCEPT ![j] = NoResult] /\ Told' = Told
      BY <2>4 DEF Expire, Told
    <3>2. QED
      BY <3>1, LedgerNext
  <2>5. QED
    BY <2>1, <2>2, <2>3, <2>4
       DEF Next, Handler, Progress, Arq, vars, Pick, Abandon, Finish, Skip, Enter,
           CheckRaises, ServiceReturns, ServiceRaises, Restart
<1>3. QED
  BY <1>1, <1>2, SerialInvariant, SerialIsSpec, TypeCorrect, PTL
     DEF SerialSpec, LedgerSpec, Ledger!Spec
=============================================================================
