-------------------------------- MODULE Jobs --------------------------------
(***************************************************************************)
(* thebe_core/jobs.py: the job table, the requests that create and retry   *)
(* jobs, and the one in-process worker, at the granularity of its awaits.  *)
(* A transaction is one step when nothing that runs between its read and   *)
(* its commit can change what it writes, and two steps when it can         *)
(* (retry_job, the failure handler).  A commit that raises has not been    *)
(* applied.  Rows of this table are never deleted, so the code's           *)
(* `row is None` returns do not occur.                                     *)
(***************************************************************************)
EXTENDS Integers, FiniteSets

CONSTANTS
    Jobs,         \* the jobs clients create; the order of the numbers is created_at
    MaxRetries,   \* JobDB.max_retries, any integer a client sends
    Retriers,     \* POST /jobs/{id}/retry requests that may run at the same time
    MaxFaults,    \* bound: database operations of the worker that raise
    MaxRestarts,  \* bound: crashes or shutdowns of the process
    MaxResets     \* bound: retry requests that find their job failed

ASSUME JobsAssumption ==
    /\ Jobs \subseteq Nat
    /\ IsFiniteSet(Jobs)
    /\ MaxRetries \in [Jobs -> Int]
    /\ MaxFaults \in Nat /\ MaxRestarts \in Nat /\ MaxResets \in Nat

NoJob == -1

VARIABLES
    status,      \* JobDB.status, "none" before the row exists
    retryCount,  \* JobDB.retry_count
    lastError,   \* JobDB.last_error is not null
    event,       \* JobService._event
    signals,     \* requests that have committed and not yet called _event.set()
    reading,     \* per retry request: the job whose row it has read as failed
    pc,          \* where the worker is in run() and _process_job()
    cur,         \* the worker's job_id
    count,       \* retry_count as the failure handler loaded it
    attempts,    \* history: starts of the job since it was created or last reset
    faults, restarts, resets   \* the bounded events so far

table == <<status, retryCount, lastError, attempts>>
worker == <<pc, cur, count>>
bounds == <<faults, restarts, resets>>
vars == <<table, event, signals, reading, worker, bounds>>

Holding == {"claim", "execute", "complete", "failRead", "failCommit"}
WorkerPcs == {"select", "clear", "wait", "backoff"} \cup Holding

(* An enqueue or a retry is worth max(1, max_retries) starts: the count is *)
(* compared after the first failure has been added to it.                  *)
Budget == [j \in Jobs |-> IF MaxRetries[j] > 1 THEN MaxRetries[j] ELSE 1]

Pending == {j \in Jobs : status[j] = "pending"}

Init ==
    /\ status = [j \in Jobs |-> "none"]
    /\ retryCount = [j \in Jobs |-> 0]
    /\ lastError = [j \in Jobs |-> FALSE]
    /\ attempts = [j \in Jobs |-> 0]
    /\ event = FALSE
    /\ signals = 0
    /\ reading = [r \in Retriers |-> NoJob]
    /\ pc = "select" /\ cur = NoJob /\ count = 0
    /\ faults = 0 /\ restarts = 0 /\ resets = 0

(***************************************************************************)
(* Requests                                                                *)
(***************************************************************************)

(* create_job up to its commit.  created_at is taken before the            *)
(* transaction, so an older job may be committed after a newer one.        *)
CreateJob(j) ==
    /\ status[j] = "none"
    /\ status' = [status EXCEPT ![j] = "pending"]
    /\ signals' = signals + 1
    /\ UNCHANGED <<retryCount, lastError, attempts, event, reading, worker, bounds>>

(* The _event.set() of a create_job or retry_job that has committed. *)
SetEvent(committed) ==
    /\ committed
    /\ signals' = signals - 1
    /\ event' = TRUE
    /\ UNCHANGED <<table, reading, worker, bounds>>

SetEventBeforeCommit == SetEvent(TRUE)

Signal == SetEvent(signals > 0)

(* The refresh after the commit raises: the request ends without the       *)
(* _event.set(), its job committed all the same.                           *)
RefreshRaises ==
    /\ signals > 0
    /\ signals' = signals - 1
    /\ UNCHANGED <<table, event, reading, worker, bounds>>

(* retry_job up to the check of the status it has loaded; any other status *)
(* returns None and changes nothing.                                       *)
LoadForRetry(r, j, accepted) ==
    /\ reading[r] = NoJob
    /\ status[j] \in accepted
    /\ resets < MaxResets
    /\ reading' = [reading EXCEPT ![r] = j]
    /\ resets' = resets + 1
    /\ UNCHANGED <<table, event, signals, worker, faults, restarts>>

RetryAnyFinished(r, j) == LoadForRetry(r, j, {"failed", "completed"})

RetryRead(r, j) == LoadForRetry(r, j, {"failed"})

(* The commit of retry_job: nothing makes it conditional on the row still  *)
(* being failed.                                                           *)
RetryCommit(r) ==
    LET j == reading[r] IN
    /\ j # NoJob
    /\ status' = [status EXCEPT ![j] = "pending"]
    /\ retryCount' = [retryCount EXCEPT ![j] = 0]
    /\ lastError' = [lastError EXCEPT ![j] = FALSE]
    /\ attempts' = [attempts EXCEPT ![j] = 0]
    /\ reading' = [reading EXCEPT ![r] = NoJob]
    /\ signals' = signals + 1
    /\ UNCHANGED <<event, worker, bounds>>

(***************************************************************************)
(* The worker loop                                                         *)
(***************************************************************************)

(* _next_pending_id: the oldest pending job, if there is one. *)
Select ==
    /\ pc = "select"
    /\ \/ /\ Pending = {}
          /\ pc' = "clear"
          /\ UNCHANGED cur
       \/ /\ \E j \in Pending : cur' = j /\ \A k \in Pending : j <= k
          /\ pc' = "claim"
    /\ UNCHANGED <<table, event, signals, reading, count, bounds>>

(* _event.clear(), and the start of wait_for: no await in between. *)
ClearEvent ==
    /\ pc = "clear"
    /\ event' = FALSE
    /\ pc' = "wait"
    /\ UNCHANGED <<table, signals, reading, cur, count, bounds>>

Wake ==
    /\ pc = "wait"
    /\ event
    /\ pc' = "select"
    /\ UNCHANGED <<table, event, signals, reading, cur, count, bounds>>

(* wait_for gives up after 5 s. *)
WaitForever == FALSE

WaitTimeout ==
    /\ pc = "wait"
    /\ pc' = "select"
    /\ UNCHANGED <<table, event, signals, reading, cur, count, bounds>>

(* The first transaction of _process_job; a row that is no longer pending  *)
(* sends the worker back to its loop.                                      *)
Claim ==
    /\ pc = "claim"
    /\ IF status[cur] = "pending"
       THEN /\ status' = [status EXCEPT ![cur] = "running"]
            /\ attempts' = [attempts EXCEPT ![cur] = @ + 1]
            /\ pc' = "execute"
            /\ UNCHANGED cur
       ELSE /\ pc' = "select"
            /\ cur' = NoJob
            /\ UNCHANGED <<status, attempts>>
    /\ UNCHANGED <<retryCount, lastError, event, signals, reading, count, bounds>>

(* _execute returns. *)
HandlerReturns ==
    /\ pc = "execute"
    /\ pc' = "complete"
    /\ UNCHANGED <<table, event, signals, reading, cur, count, bounds>>

(* _execute raises: an unsupported type, a missing row, a refused package. *)
HandlerRaisesTo(next, job) ==
    /\ pc = "execute"
    /\ pc' = next
    /\ cur' = job
    /\ UNCHANGED <<table, event, signals, reading, count, bounds>>

HandlerRaisesUncaught == HandlerRaisesTo("backoff", NoJob)

HandlerRaises == HandlerRaisesTo("failRead", cur)

CompleteUncommitted ==
    /\ pc = "complete"
    /\ pc' = "select"
    /\ cur' = NoJob
    /\ UNCHANGED <<table, event, signals, reading, count, bounds>>

(* The transaction that records the result; the columns it writes do not   *)
(* depend on what it loads.                                                *)
Complete ==
    /\ pc = "complete"
    /\ status' = [status EXCEPT ![cur] = "completed"]
    /\ lastError' = [lastError EXCEPT ![cur] = FALSE]
    /\ pc' = "select"
    /\ cur' = NoJob
    /\ UNCHANGED <<retryCount, attempts, event, signals, reading, count, bounds>>

(* The same transaction raises: it is inside the try, so the handler's     *)
(* finished work is reported as a failure.                                 *)
CompleteRaises ==
    /\ pc = "complete"
    /\ faults < MaxFaults
    /\ faults' = faults + 1
    /\ pc' = "failRead"
    /\ UNCHANGED <<table, event, signals, reading, cur, count, restarts, resets>>

(* The failure handler loads the row ...                                   *)
FailRead ==
    /\ pc = "failRead"
    /\ count' = retryCount[cur]
    /\ pc' = "failCommit"
    /\ UNCHANGED <<table, event, signals, reading, cur, bounds>>

(* ... and commits; a requeued job sets the worker's own event.  The status *)
(* is read back from a row that the commit has expired, without a refresh: *)
(* if that read raises, run() sleeps and the event stays as it is.         *)
RecordFailure(givesUp) ==
    /\ pc = "failCommit"
    /\ retryCount' = [retryCount EXCEPT ![cur] = count + 1]
    /\ lastError' = [lastError EXCEPT ![cur] = TRUE]
    /\ status' = [status EXCEPT ![cur] = IF givesUp THEN "failed" ELSE "pending"]
    /\ \/ event' = (event \/ ~givesUp) /\ pc' = "select"
       \/ UNCHANGED event /\ pc' = "backoff"
    /\ cur' = NoJob /\ count' = 0
    /\ UNCHANGED <<attempts, signals, reading, bounds>>

FailCommitOffByOne == RecordFailure(count >= MaxRetries[cur])

FailCommit == RecordFailure(count + 1 >= MaxRetries[cur])

(* The loop's own select, the claim or the failure handler raises: run()   *)
(* catches it and sleeps.  After the claim this abandons a running job.    *)
IterationFails ==
    /\ pc \in {"select", "claim", "failRead", "failCommit"}
    /\ faults < MaxFaults
    /\ faults' = faults + 1
    /\ pc' = "backoff" /\ cur' = NoJob /\ count' = 0
    /\ UNCHANGED <<table, event, signals, reading, restarts, resets>>

SleepEnds ==
    /\ pc = "backoff"
    /\ pc' = "select"
    /\ UNCHANGED <<table, event, signals, reading, cur, count, bounds>>

(* A crash, or the shutdown half of lifespan, whose cancellation of the    *)
(* worker is not an Exception and so runs no failure handler; then the     *)
(* next process starts a worker on the same table.                         *)
Restart ==
    /\ restarts < MaxRestarts
    /\ restarts' = restarts + 1
    /\ event' = FALSE /\ signals' = 0
    /\ reading' = [r \in Retriers |-> NoJob]
    /\ pc' = "select" /\ cur' = NoJob /\ count' = 0
    /\ UNCHANGED <<table, faults, resets>>

WorkerStep ==
    \/ Select \/ ClearEvent \/ Wake \/ WaitTimeout \/ Claim
    \/ HandlerReturns \/ HandlerRaises \/ Complete \/ FailRead \/ FailCommit \/ SleepEnds

Next ==
    \/ \E j \in Jobs : CreateJob(j)
    \/ \E r \in Retriers, j \in Jobs : RetryRead(r, j)
    \/ \E r \in Retriers : RetryCommit(r)
    \/ Signal
    \/ RefreshRaises
    \/ WorkerStep
    \/ CompleteRaises
    \/ IterationFails
    \/ Restart

Spec == Init /\ [][Next]_vars

(* The event loop keeps running the worker, whose handlers end (their      *)
(* calls have timeouts); clients need not come, and a request need not     *)
(* live to set the event.                                                  *)
FairSpec == Spec /\ WF_vars(WorkerStep)

(***************************************************************************)
(* Properties                                                              *)
(***************************************************************************)

Statuses == {"none", "pending", "running", "completed", "failed"}

(* The types of the state. *)
TypeOK ==
    /\ status \in [Jobs -> Statuses]
    /\ retryCount \in [Jobs -> Nat]
    /\ lastError \in [Jobs -> BOOLEAN]
    /\ attempts \in [Jobs -> Nat]
    /\ event \in BOOLEAN
    /\ signals \in Nat
    /\ reading \in [Retriers -> Jobs \cup {NoJob}]
    /\ pc \in WorkerPcs
    /\ cur \in Jobs \cup {NoJob}
    /\ count \in Nat
    /\ faults \in 0..MaxFaults /\ restarts \in 0..MaxRestarts /\ resets \in 0..MaxResets

(* The worker has a job in hand exactly in the steps of _process_job. *)
HeldJob == cur # NoJob <=> pc \in Holding

(* However faults, restarts and retry requests interleave with the worker, *)
(* a job is never started more than max(1, max_retries) times for one      *)
(* enqueue or retry (_process_job counts in a row that retry_job resets    *)
(* and that it reloads).                                                   *)
RetryBudget == \A j \in Jobs : attempts[j] <= Budget[j]

(* Running jobs that no worker is working on: nothing will ever move them, *)
(* and retry_job refuses them because they have not failed.                *)
Orphans == {j \in Jobs : status[j] = "running" /\ j # cur}

Disruptions == faults + restarts

(* Every such job was left behind by a restart or by a database error in   *)
(* the failure handler of its own: without either, a running job is the    *)
(* one in the worker's hands.                                              *)
OrphansAccounted == Cardinality(Orphans) <= Disruptions

(* What the failure handler and the claim rely on, for any number of       *)
(* concurrent retries: the worker claims only pending jobs, a job it has   *)
(* claimed is at most reset to pending, and the counters keep their        *)
(* distance from the budget.                                               *)
Accounting ==
    /\ pc = "claim" => status[cur] = "pending"
    /\ pc \in Holding \ {"claim"} => status[cur] \in {"running", "pending"}
    /\ pc = "failCommit" => count < Budget[cur] /\ attempts[cur] <= count + 1
    /\ \A j \in Jobs :
        /\ status[j] = "none" => attempts[j] = 0 /\ retryCount[j] = 0
        /\ status[j] = "pending" => attempts[j] <= retryCount[j]
        /\ status[j] = "running" => attempts[j] <= retryCount[j] + 1
        /\ status[j] \in {"pending", "running"} => retryCount[j] < Budget[j]

JobInv == TypeOK /\ HeldJob /\ Accounting /\ RetryBudget

(* With one retry request at a time the row a retry writes is still the    *)
(* failed row it read, and the history counter is a function of the row.   *)
SerialInv ==
    /\ \A r \in Retriers : reading[r] # NoJob => status[reading[r]] = "failed"
    /\ pc \in Holding \ {"claim"} => status[cur] = "running"
    /\ pc = "failCommit" => count = retryCount[cur]
    /\ \A j \in Jobs :
        /\ status[j] = "pending" => attempts[j] = retryCount[j]
        /\ status[j] = "running" => attempts[j] = retryCount[j] + 1
        /\ status[j] = "failed" => attempts[j] = Budget[j] /\ lastError[j]

(* The queue implements the life cycle a client is promised, as long as    *)
(* retry requests do not overlap.                                          *)
Promise == INSTANCE JobLifecycle
    WITH left <- [j \in Jobs |-> Budget[j] - attempts[j]]

Lifecycle == Promise!Spec

(* retry_job: "Reset a failed job back to pending."  A job whose result    *)
(* has been recorded stays completed.                                      *)
CompletedIsFinal ==
    [][\A j \in Jobs : status[j] = "completed" => status'[j] = "completed"]_vars

(* Finitely many faults and restarts never lose a pending job: the worker  *)
(* takes it although the event that announced it may have been cleared     *)
(* (_event.clear() after the select), never been set, or have died with    *)
(* the process.                                                            *)
PendingServed == \A j \in Jobs : status[j] = "pending" ~> status[j] # "pending"

(* Until a restart or a database error happens, every pending job gets a   *)
(* result or is given up: no failing job is retried for ever, and none     *)
(* blocks the others.                                                      *)
PendingSettles ==
    \A j \in Jobs :
        status[j] = "pending" ~>
            status[j] \in {"completed", "failed"} \/ Disruptions > 0
=============================================================================
