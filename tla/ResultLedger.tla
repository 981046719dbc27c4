---------------------------- MODULE ResultLedger ----------------------------
(***************************************************************************)
(* What the workers promise the Rust backend about one job id: a verdict   *)
(* that can be read under skilluv:result:{job_id} and notifications on     *)
(* skilluv:notifications, without workers, queues or failures.             *)
(*                                                                         *)
(* A verdict is decided once.  It can be downgraded from completed to      *)
(* failed (the envelope does so when announcing a completed result fails)  *)
(* but a failed verdict is never turned into a completed one, and the      *)
(* whole record disappears only when its time to live is over.  Whatever   *)
(* is announced is the verdict a reader would find at that moment.         *)
(***************************************************************************)
CONSTANTS Jobs,      \* job ids
          NoResult   \* what a reader finds for a job without a stored result

Statuses == {"completed", "failed"}

VARIABLES verdict,   \* verdict[j]: the stored status of job j, or NoResult
          told       \* pairs <<j, s>>: status s of job j has been announced

vars == <<verdict, told>>

Init == /\ verdict = [j \in Jobs |-> NoResult]
        /\ told = {}

\* The first verdict of a job.
Decide(j) == /\ verdict[j] = NoResult
             /\ \E s \in Statuses : verdict' = [verdict EXCEPT ![j] = s]
             /\ UNCHANGED told

\* A completed verdict withdrawn for a failed one.
Downgrade(j) == /\ verdict[j] = "completed"
                /\ verdict' = [verdict EXCEPT ![j] = "failed"]
                /\ UNCHANGED told

\* The backend is told the verdict that is stored now.
Tell(j) == /\ verdict[j] \in Statuses
           /\ told' = told \cup {<<j, verdict[j]>>}
           /\ UNCHANGED verdict

\* The record reaches its time to live.
Forget(j) == /\ verdict' = [verdict EXCEPT ![j] = NoResult]
             /\ UNCHANGED told

Next == \E j \in Jobs : Decide(j) \/ Downgrade(j) \/ Tell(j) \/ Forget(j)

Spec == Init /\ [][Next]_vars
=============================================================================
