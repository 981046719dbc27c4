----------------------------- MODULE JobEnvelope -----------------------------
(***************************************************************************)
(* The envelope that the seven ARQ job functions of src/workers share, run *)
(* by one arq worker process over one Redis.  A delivery is one arq queue  *)
(* entry; several deliveries may carry the same QueueMessage.job_id (the   *)
(* backend enqueues a message again).  Every await is a step of its own,   *)
(* so that deliveries interleave exactly where the event loop lets them.   *)
(*                                                                         *)
(* A handler that has entered its try block is in one of two branches:     *)
(* "try", where the verdict to store is completed, and "except", the body  *)
(* of the two except clauses (SkilluvAIError and Exception have the same   *)
(* control), where it is failed.                                           *)
(*                                                                         *)
(* arq's part (queue, job_timeout, retries, redelivery after a restart) is *)
(* external: it is modelled from how src/main.py starts the worker.        *)
(***************************************************************************)
EXTENDS Integers, FiniteSets

CONSTANTS
    Deliveries,   \* arq queue entries
    Jobs,         \* job ids
    JobOf,        \* JobOf[d]: the job_id in the message of delivery d
    Malformed,    \* deliveries whose message QueueMessage does not accept
    NoResult,     \* what Redis answers for a missing result key
    MaxJobs,      \* arq's max_jobs: handlers running at the same time
    MaxTries,     \* arq's max_tries: how often one delivery is started
    MaxFaults,    \* bound: Redis commands that raise
    MaxRestarts,  \* bound: restarts of the worker process
    MaxExpiries   \* bound: result keys that reach their time to live

ASSUME EnvelopeAssumption ==
    /\ JobOf \in [Deliveries -> Jobs]
    /\ Malformed \subseteq Deliveries
    /\ IsFiniteSet(Deliveries)
    /\ NoResult \notin {"completed", "failed"}
    /\ MaxJobs \in Nat \ {0}
    /\ MaxTries \in Nat \ {0}
    /\ MaxFaults \in Nat
    /\ MaxRestarts \in Nat
    /\ MaxExpiries \in Nat

Statuses == {"completed", "failed"}

VARIABLES
    pc,           \* pc[d]: where delivery d is
    branch,       \* branch[d]: the part of the try statement its handler is in
    tries,        \* tries[d]: how often arq has started d
    result,       \* result[j]: status under skilluv:result:{j}, or NoResult
    gauge,        \* gauge[j]: jobs_in_progress, kept per job
    total,        \* total[j][s]: jobs_total{status=s}, kept per job
    sent,         \* sent[j][s]: notifications Redis has published
    completions,  \* history: completed results stored for j since its key last expired
    answered,     \* history: jobs for which some result has been stored
    faults, restarts, expiries

envVars == <<faults, restarts, expiries>>
vars == <<pc, branch, tries, result, gauge, total, sent, completions, answered,
          faults, restarts, expiries>>

-----------------------------------------------------------------------------

\* A handler has taken the delivery and has not returned yet.
InTry(d) == pc[d] \in {"serving", "storing", "announcing"}
Live(d) == pc[d] = "checking" \/ InTry(d)
\* arq still holds the delivery: the handler runs, or its end is not recorded.
Held(d) == Live(d) \/ pc[d] \in {"returned", "raised"}
Over(d) == pc[d] \in {"succeeded", "errored"}

\* Mutated form of StatusOf: the except clauses store a status of their own.
StatusOfOther(d) == IF branch[d] = "try" THEN "completed" ELSE "error"

\* The status of the JobResult the handler builds where it stands.
StatusOf(d) == IF branch[d] = "try" THEN "completed" ELSE "failed"

ZeroPerStatus == [s \in Statuses |-> 0]

Init ==
    /\ pc = [d \in Deliveries |-> "queued"]
    /\ branch = [d \in Deliveries |-> "try"]
    /\ tries = [d \in Deliveries |-> 0]
    /\ result = [j \in Jobs |-> NoResult]
    /\ gauge = [j \in Jobs |-> 0]
    /\ total = [j \in Jobs |-> ZeroPerStatus]
    /\ sent = [j \in Jobs |-> ZeroPerStatus]
    /\ completions = [j \in Jobs |-> 0]
    /\ answered = {}
    /\ faults = 0 /\ restarts = 0 /\ expiries = 0

-----------------------------------------------------------------------------
(* The Redis commands of src/utils/redis_client.py: their effect, if any.  *)

\* SET skilluv:result:{job_id}: the last writer wins.
WriteResult(d) ==
    LET j == JobOf[d]
    IN  /\ result' = [result EXCEPT ![j] = StatusOf(d)]
        /\ answered' = answered \cup {j}
        /\ completions' = [completions EXCEPT
                             ![j] = IF StatusOf(d) = "completed" THEN @ + 1 ELSE @]

NoWrite == UNCHANGED <<result, answered, completions>>

\* PUBLISH skilluv:notifications
PublishNotification(d) ==
    sent' = [sent EXCEPT ![JobOf[d]][StatusOf(d)] = @ + 1]

\* A command that raises: its effect took place (the reply was lost) or not.
Faulty == /\ faults < MaxFaults
          /\ faults' = faults + 1

-----------------------------------------------------------------------------
(* Leaving the handler. *)

\* Mutated form of Leave: the decrement is not in a finally clause.
LeaveNoFinally(d, how) ==
    /\ pc' = [pc EXCEPT ![d] = how]
    /\ branch' = [branch EXCEPT ![d] = "try"]
    /\ gauge' = [gauge EXCEPT ![JobOf[d]] = IF how = "returned" THEN @ - 1 ELSE @]

\* The finally clause; the coroutine and its locals are gone afterwards.
Leave(d, how) ==
    /\ pc' = [pc EXCEPT ![d] = how]
    /\ branch' = [branch EXCEPT ![d] = "try"]
    /\ gauge' = [gauge EXCEPT ![JobOf[d]] = @ - 1]

\* An exception at an await inside the try statement: the try body's is caught
\* by the except clauses, theirs escapes to arq.
Catch(d) ==
    \/ /\ branch[d] = "try"
       /\ branch' = [branch EXCEPT ![d] = "except"]
       /\ pc' = [pc EXCEPT ![d] = "storing"]
       /\ UNCHANGED gauge
    \/ /\ branch[d] = "except"
       /\ Leave(d, "raised")

-----------------------------------------------------------------------------
(* arq (external): taking a delivery, recording its end. *)

Pick(d) ==
    /\ pc[d] = "queued"
    /\ tries[d] < MaxTries
    /\ Cardinality({e \in Deliveries : Held(e)}) < MaxJobs
    /\ tries' = [tries EXCEPT ![d] = @ + 1]
    \* QueueMessage.model_validate runs before the first await, outside the try.
    /\ pc' = [pc EXCEPT ![d] = IF d \in Malformed THEN "raised" ELSE "checking"]
    /\ UNCHANGED <<branch, result, gauge, total, sent, completions, answered, envVars>>

\* max_tries reached: arq records a failed job without calling the function.
Abandon(d) ==
    /\ pc[d] = "queued"
    /\ tries[d] = MaxTries
    /\ pc' = [pc EXCEPT ![d] = "errored"]
    /\ UNCHANGED <<branch, tries, result, gauge, total, sent, completions, answered, envVars>>

\* The queue entry is removed; a function that raised is not retried.
Finish(d) ==
    /\ pc[d] \in {"returned", "raised"}
    /\ pc' = [pc EXCEPT ![d] = IF pc[d] = "returned" THEN "succeeded" ELSE "errored"]
    /\ UNCHANGED <<branch, tries, result, gauge, total, sent, completions, answered, envVars>>

-----------------------------------------------------------------------------
(* The handler. *)

\* job_already_processed answers yes: the handler returns.
Skip(d) ==
    /\ pc[d] = "checking"
    /\ result[JobOf[d]] # NoResult
    /\ pc' = [pc EXCEPT ![d] = "returned"]
    /\ UNCHANGED <<branch, tries, result, gauge, total, sent, completions, answered, envVars>>

\* Mutated form of Enter: no check for an earlier result.
EnterUnchecked(d) ==
    /\ pc[d] = "checking"
    /\ pc' = [pc EXCEPT ![d] = "serving"]
    /\ branch' = [branch EXCEPT ![d] = "try"]
    /\ gauge' = [gauge EXCEPT ![JobOf[d]] = @ + 1]
    /\ UNCHANGED <<tries, result, total, sent, completions, answered, envVars>>

\* Mutated form of Enter: a failed result does not count as processed.
EnterRetryFailed(d) ==
    /\ pc[d] = "checking"
    /\ result[JobOf[d]] # "completed"
    /\ pc' = [pc EXCEPT ![d] = "serving"]
    /\ branch' = [branch EXCEPT ![d] = "try"]
    /\ gauge' = [gauge EXCEPT ![JobOf[d]] = @ + 1]
    /\ UNCHANGED <<tries, result, total, sent, completions, answered, envVars>>

\* It answers no: jobs_in_progress is incremented and the service is called.
Enter(d) ==
    /\ pc[d] = "checking"
    /\ result[JobOf[d]] = NoResult
    /\ pc' = [pc EXCEPT ![d] = "serving"]
    /\ branch' = [branch EXCEPT ![d] = "try"]
    /\ gauge' = [gauge EXCEPT ![JobOf[d]] = @ + 1]
    /\ UNCHANGED <<tries, result, total, sent, completions, answered, envVars>>

\* EXISTS raises outside the try statement: nothing is stored or announced.
CheckRaises(d) ==
    /\ pc[d] = "checking"
    /\ Faulty
    /\ pc' = [pc EXCEPT ![d] = "raised"]
    /\ UNCHANGED <<branch, tries, result, gauge, total, sent, completions, answered,
                   restarts, expiries>>

\* Mutated form of ServiceReturns: the notification goes out before the result is stored.
ServiceReturnsAnnounceFirst(d) ==
    /\ pc[d] = "serving"
    /\ pc' = [pc EXCEPT ![d] = "announcing"]
    /\ UNCHANGED <<branch, tries, result, gauge, total, sent, completions, answered, envVars>>

ServiceReturns(d) ==
    /\ pc[d] = "serving"
    /\ pc' = [pc EXCEPT ![d] = "storing"]
    /\ UNCHANGED <<branch, tries, result, gauge, total, sent, completions, answered, envVars>>

\* The payload is refused, or the service raises.
ServiceRaises(d) ==
    /\ pc[d] = "serving"
    /\ Catch(d)
    /\ UNCHANGED <<tries, result, total, sent, completions, answered, envVars>>

Store(d) ==
    /\ pc[d] = "storing"
    /\ WriteResult(d)
    /\ pc' = [pc EXCEPT ![d] = "announcing"]
    /\ UNCHANGED <<branch, tries, gauge, total, sent, envVars>>

\* Mutated form of StoreRaises: write_result logs Redis errors and swallows them.
StoreSwallows(d) ==
    /\ pc[d] = "storing"
    /\ Faulty
    /\ WriteResult(d) \/ NoWrite
    /\ pc' = [pc EXCEPT ![d] = "announcing"]
    /\ UNCHANGED <<branch, tries, gauge, total, sent, restarts, expiries>>

StoreRaises(d) ==
    /\ pc[d] = "storing"
    /\ Faulty
    /\ WriteResult(d) \/ NoWrite
    /\ Catch(d)
    /\ UNCHANGED <<tries, total, sent, restarts, expiries>>

\* The handler's last await: jobs_total is incremented and the handler returns.
Announce(d) ==
    /\ pc[d] = "announcing"
    /\ PublishNotification(d)
    /\ total' = [total EXCEPT ![JobOf[d]][StatusOf(d)] = @ + 1]
    /\ Leave(d, "returned")
    /\ UNCHANGED <<tries, result, completions, answered, envVars>>

\* Mutated form of AnnounceRaises: jobs_total is incremented before the notification.
AnnounceRaisesCounted(d) ==
    /\ pc[d] = "announcing"
    /\ Faulty
    /\ PublishNotification(d) \/ UNCHANGED sent
    /\ total' = [total EXCEPT ![JobOf[d]][StatusOf(d)] = @ + 1]
    /\ Catch(d)
    /\ UNCHANGED <<tries, result, completions, answered, restarts, expiries>>

AnnounceRaises(d) ==
    /\ pc[d] = "announcing"
    /\ Faulty
    /\ PublishNotification(d) \/ UNCHANGED sent
    /\ Catch(d)
    /\ UNCHANGED <<tries, result, total, completions, answered, restarts, expiries>>

\* Mutated form of Timeout: the worker is started without a job_timeout.
NoTimeout(d) == FALSE /\ pc[d] = "checking" /\ UNCHANGED vars

\* arq cancels a handler that exceeds job_timeout.  CancelledError is no
\* Exception: only the finally clause runs.  A PUBLISH on its way may arrive; a SET
\* that does is Store, with Timeout next.
Timeout(d) ==
    /\ Live(d)
    /\ IF InTry(d) THEN Leave(d, "raised")
                   ELSE pc' = [pc EXCEPT ![d] = "raised"] /\ UNCHANGED <<branch, gauge>>
    /\ \/ UNCHANGED sent
       \/ pc[d] = "announcing" /\ PublishNotification(d)
    /\ UNCHANGED <<tries, result, total, completions, answered, envVars>>

-----------------------------------------------------------------------------
(* The worker process and Redis. *)

\* The process stops (SIGTERM or a crash) and starts again: handlers are gone,
\* the metrics start from zero, and arq delivers what it had not recorded.
Restart ==
    /\ restarts < MaxRestarts
    /\ restarts' = restarts + 1
    /\ pc' = [d \in Deliveries |-> IF Held(d) THEN "queued" ELSE pc[d]]
    /\ branch' = [d \in Deliveries |-> "try"]
    /\ gauge' = [j \in Jobs |-> 0]
    /\ total' = [j \in Jobs |-> ZeroPerStatus]
    /\ UNCHANGED <<tries, result, sent, completions, answered, faults, expiries>>

\* result_ttl_seconds is 24 h, job_timeout 5 min: the key cannot go while a
\* handler that may have written it is still in its try statement.
Expire(j) ==
    /\ expiries < MaxExpiries
    /\ result[j] # NoResult
    /\ \A d \in Deliveries : JobOf[d] = j => ~InTry(d)
    /\ expiries' = expiries + 1
    /\ result' = [result EXCEPT ![j] = NoResult]
    /\ completions' = [completions EXCEPT ![j] = 0]
    /\ UNCHANGED <<pc, branch, tries, gauge, total, sent, answered, faults, restarts>>

-----------------------------------------------------------------------------

\* What the handler of a delivery does when Redis answers.
Progress(d) == Skip(d) \/ Enter(d) \/ Store(d) \/ Announce(d)

Handler(d) ==
    \/ Progress(d)
    \/ CheckRaises(d) \/ StoreRaises(d) \/ AnnounceRaises(d)
    \/ ServiceReturns(d) \/ ServiceRaises(d)
    \/ Timeout(d)

Arq(d) == Pick(d) \/ Abandon(d) \/ Finish(d)

Next ==
    \/ \E d \in Deliveries : Handler(d) \/ Arq(d)
    \/ Restart
    \/ \E j \in Jobs : Expire(j)

Spec == Init /\ [][Next]_vars

\* No two handlers of the same job id at the same time: one arq entry per job
\* id, or a backend that enqueues a job again only after it was answered.
Serial == \A d, e \in Deliveries :
              Live(d) /\ Live(e) /\ JobOf[d] = JobOf[e] => d = e
SerialSpec == Init /\ [][Next /\ Serial']_vars

\* The event loop runs what is ready, Redis answers, arq polls its queue and
\* ends any handler after job_timeout.  The service itself may never return.
Fairness == \A d \in Deliveries : /\ WF_vars(Progress(d))
                                  /\ WF_vars(Arq(d))
                                  /\ WF_vars(Timeout(d))
FairSpec == Spec /\ Fairness
-----------------------------------------------------------------------------
(* Properties *)

\* The type of every variable.  The metrics are floats in prometheus_client: a
\* gauge decremented once too often goes below zero and raises nothing.
TypeOK ==
    /\ pc \in [Deliveries -> {"queued", "checking", "serving", "storing", "announcing",
                               "returned", "raised", "succeeded", "errored"}]
    /\ branch \in [Deliveries -> {"try", "except"}]
    /\ tries \in [Deliveries -> 0 .. MaxTries]
    /\ result \in [Jobs -> Statuses \cup {NoResult}]
    /\ gauge \in [Jobs -> Int]
    /\ total \in [Jobs -> [Statuses -> Nat]]
    /\ sent \in [Jobs -> [Statuses -> Nat]]
    /\ completions \in [Jobs -> Nat]
    /\ answered \in SUBSET Jobs
    /\ faults \in 0 .. MaxFaults
    /\ restarts \in 0 .. MaxRestarts
    /\ expiries \in 0 .. MaxExpiries

\* On every way out of the envelope (result, service error, Redis error in either
\* branch, cancellation, restart) jobs_in_progress is again the number of handlers
\* inside the try statement: it neither leaks nor goes below zero.
GaugeBalanced ==
    \A j \in Jobs : gauge[j] = Cardinality({d \in Deliveries : JobOf[d] = j /\ InTry(d)})

\* jobs_total never counts an outcome whose notification was not published: the
\* dashboards cannot show more completed (or failed) jobs than the backend was told.
MetricsNeverOverReport ==
    \A j \in Jobs, s \in Statuses : total[j][s] <= sent[j][s]

\* A job function that returns normally, by whatever path, leaves its job answered:
\* arq never books a success for a job whose result was not stored by anyone.
SuccessMeansAnswered ==
    \A d \in Deliveries : pc[d] \in {"returned", "succeeded"} => JobOf[d] \in answered

\* Redis publishes a notification only while a result of that job can be read:
\* a backend that reacts to it at once finds one, duplicates, retries and
\* restarts notwithstanding.
AnnouncedIsReadable ==
    [][\A j \in Jobs : sent'[j] # sent[j] => result[j] # NoResult]_vars

\* The idempotence job_already_processed is there for: between two expiries of
\* its key a job is processed to completion, and its result stored, once.
IdempotentProcessing == \A j \in Jobs : completions[j] <= 1

\* With handlers of one job id that never overlap, the stored results and the
\* notifications are those of a ledger: no failed verdict becomes completed
\* before it expires, and what is announced is what a reader finds.
Ledger == INSTANCE ResultLedger
              WITH verdict <- result,
                   told <- {p \in Jobs \X Statuses : sent[p[1]][p[2]] > 0}
LedgerSpec == Ledger!Spec

\* Every delivery comes to an end in arq's books, although services may hang
\* for ever and the worker may be restarted under it.
EveryDeliveryEnds == \A d \in Deliveries : pc[d] = "queued" ~> Over(d)

\* README.fr.md: each job writes its result and publishes a notification.
StoredIsAnnounced ==
    \A j \in Jobs : result[j] # NoResult ~> \E s \in Statuses : sent[j][s] > 0
-----------------------------------------------------------------------------
(* The inductive strengthenings of the proofs (JobEnvelopeProofs). *)

\* Why a published notification finds a readable result: no key disappears
\* between the write and the notification, and stored results were answers.
AnswerInv ==
    /\ \A d \in Deliveries : pc[d] = "announcing" => result[JobOf[d]] # NoResult
    /\ \A j \in Jobs : result[j] # NoResult => j \in answered
    /\ SuccessMeansAnswered

\* Without overlap, what a handler has seen of its result key still holds
\* when it acts on it.
SerialInv ==
    /\ Serial
    /\ \A d \in Deliveries : pc[d] = "serving" => branch[d] = "try"
    /\ \A d \in Deliveries :
          pc[d] \in {"serving", "storing"} /\ branch[d] = "try"
              => result[JobOf[d]] = NoResult
    /\ \A d \in Deliveries : pc[d] = "announcing" => result[JobOf[d]] = StatusOf(d)
    /\ \A j \in Jobs : result[j] = NoResult => completions[j] = 0
    /\ IdempotentProcessing
=============================================================================
