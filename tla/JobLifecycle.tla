---------------------------- MODULE JobLifecycle ----------------------------
(***************************************************************************)
(* What a client of the job queue is promised about one job, without the   *)
(* worker, the wake-up event, the database sessions or their failures:     *)
(* a job is started from pending only, an accepted enqueue or retry is     *)
(* worth Budget[j] starts, the job is given up exactly when they are used  *)
(* up, and completed is final.                                             *)
(***************************************************************************)
EXTENDS Integers

CONSTANTS
    Jobs,     \* the jobs
    Budget    \* the starts one enqueue or one retry is worth, in [Jobs -> Nat \ {0}]

VARIABLES
    status,   \* the status a client reads from GET /jobs/{id}
    left      \* starts left before the job is given up

vars == <<status, left>>

Init ==
    /\ status = [j \in Jobs |-> "none"]
    /\ left = Budget

Enqueue(j) ==
    /\ status[j] = "none"
    /\ status' = [status EXCEPT ![j] = "pending"]
    /\ UNCHANGED left

Start(j) ==
    /\ status[j] = "pending"
    /\ left[j] > 0
    /\ status' = [status EXCEPT ![j] = "running"]
    /\ left' = [left EXCEPT ![j] = @ - 1]

Complete(j) ==
    /\ status[j] = "running"
    /\ status' = [status EXCEPT ![j] = "completed"]
    /\ UNCHANGED left

Requeue(j) ==
    /\ status[j] = "running"
    /\ left[j] > 0
    /\ status' = [status EXCEPT ![j] = "pending"]
    /\ UNCHANGED left

GiveUp(j) ==
    /\ status[j] = "running"
    /\ left[j] = 0
    /\ status' = [status EXCEPT ![j] = "failed"]
    /\ UNCHANGED left

Reopen(j) ==
    /\ status[j] = "failed"
    /\ status' = [status EXCEPT ![j] = "pending"]
    /\ left' = [left EXCEPT ![j] = Budget[j]]

Next ==
    \E j \in Jobs :
        Enqueue(j) \/ Start(j) \/ Complete(j) \/ Requeue(j) \/ GiveUp(j) \/ Reopen(j)

Spec == Init /\ [][Next]_vars
=============================================================================
