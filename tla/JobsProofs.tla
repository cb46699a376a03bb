----------------------------- MODULE JobsProofs -----------------------------
(***************************************************************************)
(* Theorems about Jobs for every set of jobs, every retry limit, every     *)
(* number of concurrent retry requests and every bound on faults, restarts *)
(* and resets.                                                             *)
(***************************************************************************)
EXTENDS Jobs, FiniteSetTheorems, WellFoundedInduction, TLAPS

(* The number of starts a job is worth is a positive natural, and a count  *)
(* below it that has reached max_retries has used up exactly the budget.   *)
LEMMA BudgetFacts ==
    ASSUME NEW j \in Jobs, NEW n \in Nat
    PROVE  /\ Budget[j] \in Nat
           /\ Budget[j] >= 1
           /\ MaxRetries[j] \in Int
           /\ n < Budget[j] /\ n + 1 >= MaxRetries[j] => n + 1 = Budget[j]
           /\ n < Budget[j] /\ ~(n + 1 >= MaxRetries[j]) => n + 1 < Budget[j]
    BY JobsAssumption DEF Budget

(* The initial state has the types, and the worker holds nothing.          *)
LEMMA TypeInit == Init => TypeOK /\ HeldJob
<1> SUFFICES ASSUME Init PROVE TypeOK /\ HeldJob
    OBVIOUS
<1>1. reading \in [Retriers -> Jobs \cup {NoJob}]
    BY DEF Init
<1>2. /\ faults \in 0..MaxFaults /\ restarts \in 0..MaxRestarts
      /\ resets \in 0..MaxResets
    BY JobsAssumption DEF Init
<1>3. HeldJob /\ pc \in WorkerPcs /\ cur \in Jobs \cup {NoJob}
    BY DEF Init, HeldJob, WorkerPcs, Holding
<1> QED
    BY <1>1, <1>2, <1>3 DEF Init, TypeOK, Statuses

(* One step per action.  HeldJob is needed because the failure handler     *)
(* reads the row of the job in hand.                                       *)
LEMMA TypeNext == TypeOK /\ HeldJob /\ [Next]_vars => (TypeOK /\ HeldJob)'
<1> SUFFICES ASSUME TypeOK, HeldJob, [Next]_vars
             PROVE  (TypeOK /\ HeldJob)'
    OBVIOUS
<1> USE JobsAssumption DEF TypeOK, HeldJob, Statuses, WorkerPcs, Holding, NoJob, table, worker, bounds
<1>1. ASSUME NEW j \in Jobs, CreateJob(j) PROVE (TypeOK /\ HeldJob)'
    BY <1>1 DEF CreateJob
<1>2. ASSUME NEW r \in Retriers, NEW j \in Jobs, RetryRead(r, j) PROVE (TypeOK /\ HeldJob)'
    BY <1>2 DEF RetryRead, LoadForRetry
<1>3. ASSUME NEW r \in Retriers, RetryCommit(r) PROVE (TypeOK /\ HeldJob)'
    BY <1>3 DEF RetryCommit
<1>4. CASE Signal \/ RefreshRaises
    <2>1. CASE Signal
        BY <2>1 DEF Signal, SetEvent
    <2>2. CASE RefreshRaises
        BY <2>2 DEF RefreshRaises
    <2> QED
        BY <1>4, <2>1, <2>2
<1>5. CASE WorkerStep
    <2>1. CASE Select
        BY <2>1 DEF Select, Pending
    <2>2. CASE ClearEvent
        BY <2>2 DEF ClearEvent
    <2>3. CASE Wake
        BY <2>3 DEF Wake
    <2>4. CASE WaitTimeout
        BY <2>4 DEF WaitTimeout
    <2>5. CASE Claim
        BY <2>5 DEF Claim
    <2>6. CASE HandlerReturns
        BY <2>6 DEF HandlerReturns
    <2>7. CASE HandlerRaises
        BY <2>7 DEF HandlerRaises, HandlerRaisesTo
    <2>8. CASE Complete
        BY <2>8 DEF Complete
    <2>9. CASE FailRead
        BY <2>9 DEF FailRead
    <2>10. CASE FailCommit
        <3>1. pc' \in {"select", "backoff"} /\ event' \in BOOLEAN
            BY <2>10 DEF FailCommit, RecordFailure
        <3>2. /\ status' \in [Jobs -> Statuses] /\ retryCount' \in [Jobs -> Nat]
              /\ lastError' \in [Jobs -> BOOLEAN]
            BY <2>10 DEF FailCommit, RecordFailure
        <3> QED
            BY <2>10, <3>1, <3>2 DEF FailCommit, RecordFailure
    <2>11. CASE SleepEnds
        BY <2>11 DEF SleepEnds
    <2> QED
        BY <1>5, <2>1, <2>2, <2>3, <2>4, <2>5, <2>6, <2>7, <2>8, <2>9, <2>10, <2>11
        DEF WorkerStep
<1>6. CASE CompleteRaises
    BY <1>6 DEF CompleteRaises
<1>7. CASE IterationFails
    BY <1>7 DEF IterationFails
<1>8. CASE Restart
    <2>1. reading' \in [Retriers -> Jobs \cup {NoJob}]
        BY <1>8 DEF Restart
    <2>2. restarts' \in 0..MaxRestarts
        BY <1>8 DEF Restart
    <2> QED
        BY <1>8, <2>1, <2>2 DEF Restart
<1>9. CASE UNCHANGED vars
    BY <1>9 DEF vars
<1> QED
    BY <1>1, <1>2, <1>3, <1>4, <1>5, <1>6, <1>7, <1>8, <1>9 DEF Next

(* The state keeps its types: TypeOK for every instance. *)
THEOREM TypeCorrect == Spec => [](TypeOK /\ HeldJob)
    BY TypeInit, TypeNext, PTL DEF Spec

-----------------------------------------------------------------------------
(* The starts a job has had against its budget, for any number of          *)
(* concurrent retry requests: nothing has been started at first.           *)
LEMMA AccountingInit == Init => Accounting /\ RetryBudget
<1>1. Init => RetryBudget
    BY BudgetFacts DEF Init, RetryBudget
<1>2. Init => Accounting
    BY DEF Init, Accounting, Holding
<1> QED
    BY <1>1, <1>2

(* Every step keeps the counters below the budget: a reset starts from 0,  *)
(* the failure handler writes a count it has compared.                     *)
LEMMA AccountingNext ==
    ASSUME TypeOK, HeldJob, Accounting, RetryBudget, [Next]_vars
    PROVE  (Accounting /\ RetryBudget)'
<1> USE DEF TypeOK, HeldJob, Accounting, RetryBudget, Holding, table, worker, bounds
<1>1. ASSUME NEW j \in Jobs, CreateJob(j) PROVE (Accounting /\ RetryBudget)'
    BY <1>1, BudgetFacts DEF CreateJob
<1>2. ASSUME NEW r \in Retriers, NEW j \in Jobs, RetryRead(r, j)
      PROVE  (Accounting /\ RetryBudget)'
    BY <1>2 DEF RetryRead, LoadForRetry
<1>3. ASSUME NEW r \in Retriers, RetryCommit(r) PROVE (Accounting /\ RetryBudget)'
    BY <1>3, BudgetFacts DEF RetryCommit
<1>4. CASE Signal \/ RefreshRaises
    BY <1>4 DEF Signal, SetEvent, RefreshRaises
<1>5. CASE WorkerStep
    <2>1. CASE Select
        BY <2>1 DEF Select, Pending
    <2>2. CASE ClearEvent \/ Wake \/ WaitTimeout \/ SleepEnds
        BY <2>2 DEF ClearEvent, Wake, WaitTimeout, SleepEnds
    <2>3. CASE Claim
        BY <2>3, BudgetFacts DEF Claim, NoJob
    <2>4. CASE HandlerReturns
        BY <2>4 DEF HandlerReturns
    <2>5. CASE HandlerRaises
        BY <2>5 DEF HandlerRaises, HandlerRaisesTo
    <2>6. CASE Complete
        BY <2>6 DEF Complete
    <2>7. CASE FailRead
        BY <2>7, BudgetFacts DEF FailRead
    <2>8. CASE FailCommit
        BY <2>8, BudgetFacts DEF FailCommit, RecordFailure
    <2> QED
        BY <1>5, <2>1, <2>2, <2>3, <2>4, <2>5, <2>6, <2>7, <2>8 DEF WorkerStep
<1>6. CASE CompleteRaises
    BY <1>6 DEF CompleteRaises
<1>7. CASE IterationFails
    BY <1>7 DEF IterationFails
<1>8. CASE Restart
    BY <1>8 DEF Restart
<1>9. CASE UNCHANGED vars
    BY <1>9 DEF vars
<1> QED
    BY <1>1, <1>2, <1>3, <1>4, <1>5, <1>6, <1>7, <1>8, <1>9 DEF Next

(* The conjunction is inductive; every later theorem cites it. *)
THEOREM JobInvariant == Spec => []JobInv
<1>1. Init => JobInv
    BY TypeInit, AccountingInit DEF JobInv
<1>2. JobInv /\ [Next]_vars => JobInv'
    BY TypeNext, AccountingNext DEF JobInv
<1> QED
    BY <1>1, <1>2, PTL DEF Spec

(* However many retry requests overlap, and whatever raises or restarts, a *)
(* job is started at most max(1, max_retries) times per enqueue or retry.  *)
THEOREM StartsWithinBudget == Spec => []RetryBudget
    BY JobInvariant, PTL DEF JobInv
-----------------------------------------------------------------------------
(* With one retry request at a time, the queue implements JobLifecycle. *)

SerialRetries == \A r, s \in Retriers : r = s

(* Before any job exists nothing has been read or claimed.                 *)
LEMMA SerialInit == Init => SerialInv
    BY DEF Init, SerialInv, Holding

(* Every step keeps the strengthening: with one retry request nobody else  *)
(* can take its job out of failed, and no reset reaches a running job.     *)
LEMMA SerialNext ==
    ASSUME SerialRetries, JobInv, JobInv', SerialInv, [Next]_vars
    PROVE  SerialInv'
<1> USE DEF JobInv, TypeOK, HeldJob, Accounting, SerialInv, Holding, table, worker, bounds
<1>1. ASSUME NEW j \in Jobs, CreateJob(j) PROVE SerialInv'
    BY <1>1, BudgetFacts DEF CreateJob
<1>2. ASSUME NEW r \in Retriers, NEW j \in Jobs, RetryRead(r, j) PROVE SerialInv'
    BY <1>2 DEF RetryRead, LoadForRetry
<1>3. ASSUME NEW r \in Retriers, RetryCommit(r) PROVE SerialInv'
    BY <1>3 DEF RetryCommit, SerialRetries
<1>4. CASE Signal \/ RefreshRaises
    BY <1>4 DEF Signal, SetEvent, RefreshRaises
<1>5. CASE WorkerStep
    <2>1. CASE Select
        BY <2>1 DEF Select, Pending
    <2>2. CASE ClearEvent \/ Wake \/ WaitTimeout \/ SleepEnds
        BY <2>2 DEF ClearEvent, Wake, WaitTimeout, SleepEnds
    <2>3. CASE Claim
        BY <2>3 DEF Claim, NoJob
    <2>4. CASE HandlerReturns
        BY <2>4 DEF HandlerReturns
    <2>5. CASE HandlerRaises
        BY <2>5 DEF HandlerRaises, HandlerRaisesTo
    <2>6. CASE Complete
        BY <2>6 DEF Complete
    <2>7. CASE FailRead
        BY <2>7 DEF FailRead
    <2>8. CASE FailCommit
        BY <2>8, BudgetFacts DEF FailCommit, RecordFailure
    <2> QED
        BY <1>5, <2>1, <2>2, <2>3, <2>4, <2>5, <2>6, <2>7, <2>8 DEF WorkerStep
<1>6. CASE CompleteRaises
    BY <1>6 DEF CompleteRaises
<1>7. CASE IterationFails
    BY <1>7 DEF IterationFails
<1>8. CASE Restart
    BY <1>8 DEF Restart
<1>9. CASE UNCHANGED vars
    BY <1>9 DEF vars
<1> QED
    BY <1>1, <1>2, <1>3, <1>4, <1>5, <1>6, <1>7, <1>8, <1>9 DEF Next

(* A job handed to the client as failed has used up its whole budget, and  *)
(* the row a retry request is about to overwrite is still failed.          *)
THEOREM SerialInvariant == ASSUME SerialRetries PROVE Spec => []SerialInv
<1>1. JobInv /\ JobInv' /\ SerialInv /\ [Next]_vars => SerialInv'
    BY SerialNext
<1> QED
    BY <1>1, SerialInit, JobInvariant, PTL DEF Spec

(* Each step of the queue is a step of the life cycle or leaves it alone.  *)
LEMMA StepSimulation ==
    ASSUME JobInv, SerialInv, [Next]_vars
    PROVE  [Promise!Next]_(Promise!vars)
<1> DEFINE left == [j \in Jobs |-> Budget[j] - attempts[j]]
<1> USE DEF JobInv, TypeOK, HeldJob, Accounting, SerialInv, Holding, worker, bounds
<1>0. ASSUME UNCHANGED <<status, attempts>>
      PROVE  UNCHANGED Promise!vars
    BY <1>0 DEF Promise!vars
<1>1. ASSUME NEW j \in Jobs, CreateJob(j) PROVE Promise!Enqueue(j)
    BY <1>1 DEF CreateJob, Promise!Enqueue
<1>2. ASSUME NEW r \in Retriers, RetryCommit(r), NEW j \in Jobs, j = reading[r]
      PROVE  Promise!Reopen(j)
    <2>1. status[j] = "failed"
        BY <1>2 DEF RetryCommit
    <2>2. \A k \in Jobs : Budget[k] - attempts'[k] =
              IF k = j THEN Budget[j] ELSE Budget[k] - attempts[k]
        BY <1>2, BudgetFacts DEF RetryCommit
    <2>3. left' = [left EXCEPT ![j] = Budget[j]]
        BY <2>2
    <2> QED
        BY <1>2, <2>1, <2>3 DEF RetryCommit, Promise!Reopen
<1>3. ASSUME Claim, NEW j \in Jobs, j = cur
      PROVE  Promise!Start(j)
    <2>1. /\ status[j] = "pending"
          /\ status' = [status EXCEPT ![j] = "running"]
          /\ attempts' = [attempts EXCEPT ![j] = @ + 1]
        BY <1>3 DEF Claim, NoJob
    <2>2. Budget[j] \in Nat /\ attempts[j] \in Nat /\ attempts[j] < Budget[j]
        BY <2>1, BudgetFacts
    <2>3. \A k \in Jobs : Budget[k] - attempts'[k] =
              IF k = j THEN (Budget[k] - attempts[k]) - 1 ELSE Budget[k] - attempts[k]
        BY <2>1, BudgetFacts
    <2>4. left' = [left EXCEPT ![j] = @ - 1]
        BY <2>3
    <2> QED
        BY <2>1, <2>2, <2>4 DEF Promise!Start
<1>4. ASSUME Complete, NEW j \in Jobs, j = cur
      PROVE  Promise!Complete(j)
    BY <1>4 DEF Complete, Promise!Complete
<1>5. ASSUME FailCommit, NEW j \in Jobs, j = cur
      PROVE  Promise!GiveUp(j) \/ Promise!Requeue(j)
    <2>1. /\ status[j] = "running"
          /\ attempts[j] = count + 1
          /\ count \in Nat /\ count < Budget[j]
          /\ UNCHANGED attempts
        BY <1>5 DEF FailCommit, RecordFailure
    <2>2. CASE count + 1 >= MaxRetries[j]
        <3>1. status' = [status EXCEPT ![j] = "failed"]
            BY <1>5, <2>2 DEF FailCommit, RecordFailure
        <3>2. left[j] = 0
            BY <2>1, <2>2, BudgetFacts
        <3> QED
            BY <2>1, <3>1, <3>2 DEF Promise!GiveUp
    <2>3. CASE ~(count + 1 >= MaxRetries[j])
        <3>1. status' = [status EXCEPT ![j] = "pending"]
            BY <1>5, <2>3 DEF FailCommit, RecordFailure
        <3>2. left[j] > 0
            BY <2>1, <2>3, BudgetFacts
        <3> QED
            BY <2>1, <3>1, <3>2 DEF Promise!Requeue
    <2> QED
        BY <2>2, <2>3
<1>6. ASSUME NEW r \in Retriers, NEW j \in Jobs, RetryRead(r, j)
      PROVE  UNCHANGED <<status, attempts>>
    BY <1>6 DEF RetryRead, LoadForRetry, table
<1>7. ASSUME \/ Signal \/ RefreshRaises \/ Select \/ ClearEvent \/ Wake \/ WaitTimeout
             \/ HandlerReturns \/ HandlerRaises \/ FailRead \/ SleepEnds
             \/ CompleteRaises \/ IterationFails \/ Restart \/ UNCHANGED vars
      PROVE  UNCHANGED <<status, attempts>>
    BY <1>7 DEF Signal, SetEvent, RefreshRaises, Select, ClearEvent, Wake, WaitTimeout,
        HandlerReturns, HandlerRaises, HandlerRaisesTo, FailRead, SleepEnds, CompleteRaises,
        IterationFails, Restart, table, vars
<1>8. /\ \A r \in Retriers : RetryCommit(r) => reading[r] \in Jobs
      /\ Claim \/ Complete \/ FailCommit => cur \in Jobs
    BY DEF RetryCommit, Claim, Complete, FailCommit, RecordFailure
<1>9. ASSUME NEW j \in Jobs,
             \/ Promise!Enqueue(j) \/ Promise!Reopen(j) \/ Promise!Start(j)
             \/ Promise!Complete(j) \/ Promise!GiveUp(j) \/ Promise!Requeue(j)
      PROVE  Promise!Next
    BY <1>9 DEF Promise!Next
<1> HIDE DEF left, JobInv, TypeOK, HeldJob, Accounting, SerialInv, Holding, worker, bounds
<1>10. ASSUME Claim \/ Complete \/ FailCommit PROVE Promise!Next
    BY <1>3, <1>4, <1>5, <1>8, <1>9, <1>10
<1>11. ASSUME NEW r \in Retriers, RetryCommit(r) PROVE Promise!Next
    BY <1>2, <1>8, <1>9, <1>11
<1> QED
    BY <1>0, <1>1, <1>6, <1>7, <1>9, <1>10, <1>11 DEF Next, WorkerStep

(* The queue implements the life cycle: the module's Lifecycle property    *)
(* for every instance in which retry requests do not overlap.              *)
THEOREM LifecycleRefinement == ASSUME SerialRetries PROVE Spec => Lifecycle
<1>1. Init => Promise!Init
    BY BudgetFacts, JobsAssumption DEF Init, Promise!Init, Budget
<1>2. JobInv /\ SerialInv /\ [Next]_vars => [Promise!Next]_(Promise!vars)
    BY StepSimulation
<1> QED
    BY <1>1, <1>2, JobInvariant, SerialInvariant, PTL
    DEF Spec, Lifecycle, Promise!Spec

-----------------------------------------------------------------------------
(* Running jobs without a worker. *)

(* A step that leaves the faults and restarts alone leaves no job behind;  *)
(* one that counts a fault or a restart leaves at most the job in hand.    *)
LEMMA OrphansStep ==
    ASSUME JobInv, [Next]_vars
    PROVE  /\ Orphans' \subseteq Orphans \cup {cur}
           /\ \/ Orphans' \subseteq Orphans /\ Disruptions' >= Disruptions
              \/ Disruptions' = Disruptions + 1
<1> USE DEF JobInv, TypeOK, HeldJob, Accounting, Holding, table, worker, bounds, Orphans
<1>1. ASSUME NEW j \in Jobs, CreateJob(j)
      PROVE  Orphans' \subseteq Orphans /\ UNCHANGED bounds
    BY <1>1 DEF CreateJob
<1>2. ASSUME NEW r \in Retriers, NEW j \in Jobs, RetryRead(r, j)
      PROVE  Orphans' \subseteq Orphans /\ UNCHANGED <<faults, restarts>>
    BY <1>2 DEF RetryRead, LoadForRetry
<1>3. ASSUME NEW r \in Retriers, RetryCommit(r)
      PROVE  Orphans' \subseteq Orphans /\ UNCHANGED bounds
    BY <1>3 DEF RetryCommit
<1>4. ASSUME Signal \/ RefreshRaises
      PROVE  Orphans' \subseteq Orphans /\ UNCHANGED bounds
    BY <1>4 DEF Signal, SetEvent, RefreshRaises
<1>5. ASSUME WorkerStep
      PROVE  Orphans' \subseteq Orphans /\ UNCHANGED bounds
    <2>1. CASE Select
        BY <2>1, JobsAssumption DEF Select, Pending, NoJob
    <2>2. CASE ClearEvent \/ Wake \/ WaitTimeout \/ HandlerReturns \/ SleepEnds
        BY <2>2 DEF ClearEvent, Wake, WaitTimeout, HandlerReturns, SleepEnds
    <2>3. CASE Claim
        BY <2>3 DEF Claim
    <2>4. CASE HandlerRaises
        BY <2>4 DEF HandlerRaises, HandlerRaisesTo
    <2>5. CASE Complete
        BY <2>5 DEF Complete, NoJob
    <2>6. CASE FailRead
        BY <2>6 DEF FailRead
    <2>7. CASE FailCommit
        BY <2>7 DEF FailCommit, RecordFailure, NoJob
    <2> QED
        BY <1>5, <2>1, <2>2, <2>3, <2>4, <2>5, <2>6, <2>7 DEF WorkerStep
<1>6. ASSUME CompleteRaises \/ IterationFails \/ Restart
      PROVE  /\ Orphans' \subseteq Orphans \cup {cur}
             /\ Disruptions' = Disruptions + 1
    BY <1>6, JobsAssumption DEF CompleteRaises, IterationFails, Restart, Disruptions
<1>7. ASSUME UNCHANGED vars
      PROVE  Orphans' \subseteq Orphans /\ UNCHANGED bounds
    BY <1>7 DEF vars
<1>8. faults \in Nat /\ restarts \in Nat
    BY JobsAssumption
<1> HIDE DEF JobInv, TypeOK, HeldJob, Accounting, Holding, table, worker, Orphans
<1>9. ASSUME Orphans' \subseteq Orphans, UNCHANGED <<faults, restarts>>
      PROVE  /\ Orphans' \subseteq Orphans \cup {cur}
             /\ Orphans' \subseteq Orphans /\ Disruptions' >= Disruptions
    BY <1>8, <1>9 DEF Disruptions
<1> QED
    BY <1>1, <1>2, <1>3, <1>4, <1>5, <1>6, <1>7, <1>9 DEF Next

(* A running job without a worker costs a restart or a database error      *)
(* each: without one, retry_job's refusal of running jobs strands nothing. *)
THEOREM OrphansAreAccountedFor == Spec => []OrphansAccounted
<1>1. Init => OrphansAccounted
    <2> SUFFICES ASSUME Init PROVE OrphansAccounted
        OBVIOUS
    <2>1. Orphans = {}
        BY DEF Init, Orphans
    <2> QED
        BY <2>1, FS_EmptySet DEF Init, OrphansAccounted, Disruptions
<1>2. JobInv /\ OrphansAccounted /\ [Next]_vars => OrphansAccounted'
    <2> SUFFICES ASSUME JobInv, OrphansAccounted, [Next]_vars
                 PROVE  OrphansAccounted'
        OBVIOUS
    <2>1. Disruptions \in Nat
        BY JobsAssumption DEF JobInv, TypeOK, Disruptions
    <2>2. IsFiniteSet(Orphans)
        BY JobsAssumption, FS_Subset DEF Orphans
    <2>3. /\ IsFiniteSet(Orphans \cup {cur})
          /\ Cardinality(Orphans \cup {cur}) <= Cardinality(Orphans) + 1
          /\ Cardinality(Orphans) \in Nat
        BY <2>2, FS_AddElement, FS_CardinalityType
    <2>4. Orphans' \subseteq Orphans => Cardinality(Orphans') <= Cardinality(Orphans)
        BY <2>2, FS_Subset
    <2>5. /\ Cardinality(Orphans') <= Cardinality(Orphans \cup {cur})
          /\ IsFiniteSet(Orphans')
        BY <2>3, OrphansStep, FS_Subset
    <2>6. /\ Cardinality(Orphans') \in Nat
          /\ Cardinality(Orphans \cup {cur}) \in Nat
        BY <2>3, <2>5, FS_CardinalityType
    <2>7. \/ Orphans' \subseteq Orphans /\ Disruptions' >= Disruptions
          \/ Disruptions' = Disruptions + 1
        BY OrphansStep
    <2>8. Disruptions' \in Nat
        <3>1. (TypeOK /\ HeldJob)'
            BY TypeNext DEF JobInv
        <3>2. faults' \in Nat /\ restarts' \in Nat
            BY <3>1, JobsAssumption DEF TypeOK
        <3>3. \A x, y \in Nat : x + y \in Nat
            OBVIOUS
        <3>4. Disruptions' = faults' + restarts'
            BY DEF Disruptions
        <3> QED
            BY <3>2, <3>3, <3>4, Zenon
    <2>9. Cardinality(Orphans) <= Disruptions
        BY DEF OrphansAccounted
    <2>10. Cardinality(Orphans') <= Disruptions'
        BY <2>1, <2>3, <2>4, <2>5, <2>6, <2>7, <2>8, <2>9
    <2> QED
        BY <2>10 DEF OrphansAccounted
<1> QED
    BY <1>1, <1>2, JobInvariant, PTL DEF Spec
-----------------------------------------------------------------------------
(* Jobs move on while the worker does. *)

(* What WF_vars(WorkerStep) amounts to, as the worker always has a step    *)
(* (WorkerCanStep) and every one of them moves it: it takes infinitely     *)
(* many.                                                                   *)
WorkerRuns == []<><<WorkerStep>>_vars

(* Fairness says so when the worker always has a step.                     *)
LEMMA FairWorkerRuns == FairSpec /\ []ENABLED <<WorkerStep>>_vars => Spec /\ WorkerRuns
    BY PTL DEF FairSpec, WorkerRuns

(* The guards of WorkerStep, one for each place the worker may be in: the  *)
(* oldest pending job is there to be selected, the job in hand to be read. *)
WorkerReady ==
    \/ pc = "select" /\ (Pending = {} \/ \E j \in Pending : \A k \in Pending : j <= k)
    \/ pc \in {"clear", "wait", "backoff"}
    \/ pc \in Holding /\ cur \in Jobs

(* Of the pending jobs one is the oldest.                                  *)
LEMMA OldestExists ==
    ASSUME NEW S \in SUBSET Jobs, S # {}
    PROVE  \E j \in S : \A k \in S : j <= k
<1>1. S \subseteq Nat
    BY JobsAssumption
<1>2. \E j \in S : \A k \in S : ~(<<k, j>> \in OpToRel(<, Nat))
    BY <1>1, NatLessThanWellFounded, WFMin
<1>3. PICK j \in S : \A k \in S : ~(<<k, j>> \in OpToRel(<, Nat))
    BY <1>2
<1>4. ASSUME NEW k \in S PROVE j <= k
    <2>1. j \in Nat /\ k \in Nat
        BY <1>1
    <2>2. ~(<<k, j>> \in OpToRel(<, Nat))
        BY <1>3
    <2>3. ~(k < j)
        BY <2>1, <2>2 DEF OpToRel
    <2> QED
        BY <2>1, <2>3
<1> QED
    BY <1>4

(* Wherever the worker is, it has a step to take: no queue of jobs and no  *)
(* fault or restart leaves it stuck.                                       *)
THEOREM WorkerCanStep == Spec => []WorkerReady
<1>1. TypeOK /\ HeldJob => WorkerReady
    <2> SUFFICES ASSUME TypeOK, HeldJob PROVE WorkerReady
        OBVIOUS
    <2>1. Pending \in SUBSET Jobs
        BY DEF Pending
    <2>2. Pending = {} \/ \E j \in Pending : \A k \in Pending : j <= k
        BY <2>1, OldestExists
    <2>3. pc \in Holding => cur \in Jobs
        BY DEF TypeOK, HeldJob
    <2> QED
        BY <2>2, <2>3 DEF TypeOK, WorkerReady, WorkerPcs
<1> QED
    BY <1>1, TypeCorrect, PTL

(* The worker moves when it takes a step, and from each place to the next; *)
(* only a fault or a restart moves it besides.                             *)
LEMMA WorkerMoves ==
    ASSUME TypeOK, HeldJob, [Next]_vars
    PROVE  /\ WorkerStep \/ UNCHANGED <<pc, cur>> \/ Disruptions' # Disruptions
           /\ WorkerStep =>
                /\ pc = "select" => pc' \in {"clear", "claim"}
                /\ pc = "clear" => pc' = "wait"
                /\ pc = "claim" => pc' \in {"execute", "select"}
                /\ pc = "execute" => pc' \in {"complete", "failRead"}
                /\ pc = "failRead" => pc' = "failCommit"
                /\ pc = "failCommit" => pc' \in {"select", "backoff"}
                /\ pc \in {"wait", "complete", "backoff"} => pc' = "select"
<1>1. WorkerStep =>
        /\ pc = "select" => pc' \in {"clear", "claim"}
        /\ pc = "clear" => pc' = "wait"
        /\ pc = "claim" => pc' \in {"execute", "select"}
        /\ pc = "execute" => pc' \in {"complete", "failRead"}
        /\ pc = "failRead" => pc' = "failCommit"
        /\ pc = "failCommit" => pc' \in {"select", "backoff"}
        /\ pc \in {"wait", "complete", "backoff"} => pc' = "select"
    BY DEF WorkerStep, Select, ClearEvent, Wake, WaitTimeout, Claim, HandlerReturns,
           HandlerRaises, HandlerRaisesTo, Complete, FailRead, FailCommit, RecordFailure, SleepEnds
<1>2. CompleteRaises \/ IterationFails \/ Restart => Disruptions' # Disruptions
    BY DEF TypeOK, CompleteRaises, IterationFails, Restart, Disruptions
<1>3. \/ WorkerStep \/ CompleteRaises \/ IterationFails \/ Restart
      \/ UNCHANGED <<pc, cur>>
    BY DEF Next, CreateJob, RetryRead, LoadForRetry, RetryCommit, Signal, SetEvent,
           RefreshRaises, worker, vars
<1> QED
    BY <1>1, <1>2, <1>3

(* From wherever it is the worker comes back to its loop, unless a fault   *)
(* or a restart comes first: no job keeps it for ever.                     *)
THEOREM WorkerComesBack ==
    ASSUME NEW d \in Nat
    PROVE  Spec /\ WorkerRuns => (Disruptions = d ~> pc = "select" \/ ~(Disruptions = d))
<1>1. JobInv => pc \in WorkerPcs
    BY DEF JobInv, TypeOK
<1>2. pc \in WorkerPcs =>
        \/ pc = "select" \/ pc = "clear" \/ pc \in {"wait", "complete", "backoff"}
        \/ pc = "claim" \/ pc = "execute" \/ pc = "failRead" \/ pc = "failCommit"
    BY DEF WorkerPcs, Holding
<1>3. JobInv /\ [Next]_vars /\ Disruptions = d /\ (Disruptions = d)' =>
        \/ <<WorkerStep>>_vars
        \/ /\ pc = "clear" => (pc = "clear")'
           /\ pc = "claim" => (pc = "claim")'
           /\ pc = "execute" => (pc = "execute")'
           /\ pc = "failRead" => (pc = "failRead")'
           /\ pc = "failCommit" => (pc = "failCommit")'
           /\ pc \in {"wait", "complete", "backoff"} => (pc \in {"wait", "complete", "backoff"})'
    BY WorkerMoves DEF JobInv, vars, worker
<1>4. JobInv /\ [Next]_vars /\ <<WorkerStep>>_vars =>
        /\ pc = "clear" => (pc \in {"wait", "complete", "backoff"})'
        /\ pc = "claim" => (pc = "execute")' \/ (pc = "select")'
        /\ pc = "execute"
            => (pc \in {"wait", "complete", "backoff"})' \/ (pc = "failRead")'
        /\ pc = "failRead" => (pc = "failCommit")'
        /\ pc = "failCommit" => (pc = "select")' \/ (pc \in {"wait", "complete", "backoff"})'
        /\ pc \in {"wait", "complete", "backoff"} => (pc = "select")'
    BY WorkerMoves DEF JobInv
<1> QED
    BY <1>1, <1>2, <1>3, <1>4, JobInvariant, PTL DEF Spec, WorkerRuns

(* A job that is running comes to a result, is given up or is queued again, *)
(* until a restart or a database error happens.                            *)
THEOREM RunningJobsSettle ==
    ASSUME NEW j \in Jobs
    PROVE  Spec /\ WorkerRuns
            => (status[j] = "running" ~> ~(status[j] = "running") \/ ~(Disruptions = 0))
<1>1. JobInv /\ OrphansAccounted /\ pc = "select" => ~(status[j] = "running") \/ ~(Disruptions = 0)
    <2> SUFFICES ASSUME JobInv, OrphansAccounted, pc = "select", status[j] = "running"
                 PROVE  ~(Disruptions = 0)
        OBVIOUS
    <2>1. cur = NoJob /\ j # NoJob
        BY JobsAssumption DEF JobInv, HeldJob, Holding, NoJob
    <2>2. j \in Orphans /\ IsFiniteSet(Orphans)
        BY <2>1, JobsAssumption, FS_Subset DEF Orphans
    <2>3. Cardinality(Orphans) # 0
        BY <2>2, FS_EmptySet
    <2>4. Cardinality(Orphans) \in Nat
        BY <2>2, FS_CardinalityType
    <2> QED
        BY <2>3, <2>4 DEF OrphansAccounted
<1>2. PICK d \in Nat : d = 0
    OBVIOUS
<1>3. Spec /\ WorkerRuns => (Disruptions = d ~> pc = "select" \/ ~(Disruptions = d))
    BY WorkerComesBack
<1>4. Disruptions = d <=> Disruptions = 0
    BY <1>2
<1> QED
    BY <1>1, <1>3, <1>4, JobInvariant, OrphansAreAccountedFor, PTL

Oldest(j) == j \in Pending /\ \A k \in Pending : j <= k

(* The oldest pending job is claimed, unless an older one becomes pending  *)
(* or a fault or a restart happens first: whether its event was cleared,   *)
(* never set or died with the process, the worker finds it in the table.   *)
THEOREM OldestIsServed ==
    ASSUME NEW j \in Jobs, NEW d \in Nat
    PROVE  Spec /\ WorkerRuns
            => (Oldest(j) /\ Disruptions = d ~> ~Oldest(j) \/ ~(Disruptions = d))
<1>1. JobInv /\ pc = "select" /\ Oldest(j) /\ <<WorkerStep>>_vars
        => (pc = "claim" /\ cur = j)'
    <2> SUFFICES ASSUME JobInv, pc = "select", Oldest(j), WorkerStep
                 PROVE  pc' = "claim" /\ cur' = j
        OBVIOUS
    <2>1. Select
        BY DEF WorkerStep, ClearEvent, Wake, WaitTimeout, Claim, HandlerReturns, HandlerRaises,
               HandlerRaisesTo, Complete, FailRead, FailCommit, RecordFailure, SleepEnds
    <2>2. PICK k \in Pending : cur' = k /\ pc' = "claim" /\ \A i \in Pending : k <= i
        BY <2>1 DEF Select, Oldest
    <2>3. k <= j /\ j <= k /\ j \in Nat /\ k \in Nat
        BY <2>2, JobsAssumption DEF Oldest, Pending
    <2>4. k = j
        BY <2>3
    <2> QED
        BY <2>2, <2>4
<1>2. JobInv /\ pc = "claim" /\ cur = j /\ <<WorkerStep>>_vars => ~(Oldest(j)')
    <2> SUFFICES ASSUME JobInv, pc = "claim", cur = j, WorkerStep PROVE status'[j] # "pending"
        BY DEF Oldest, Pending
    <2>1. Claim
        BY DEF WorkerStep, Select, ClearEvent, Wake, WaitTimeout, HandlerReturns, HandlerRaises,
               HandlerRaisesTo, Complete, FailRead, FailCommit, RecordFailure, SleepEnds
    <2> QED
        BY <2>1 DEF Claim, JobInv, TypeOK
<1>3. JobInv /\ [Next]_vars /\ Disruptions = d /\ (Disruptions = d)' =>
        \/ <<WorkerStep>>_vars
        \/ /\ pc = "select" => (pc = "select")'
           /\ pc = "claim" /\ cur = j => (pc = "claim" /\ cur = j)'
    BY WorkerMoves DEF JobInv, vars, worker
<1>4. Spec /\ WorkerRuns => (Disruptions = d ~> pc = "select" \/ ~(Disruptions = d))
    BY WorkerComesBack
<1> QED
    BY <1>1, <1>2, <1>3, <1>4, JobInvariant, PTL DEF Spec, WorkerRuns
=============================================================================
