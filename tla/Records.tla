------------------------------- MODULE Records -------------------------------
(***************************************************************************)
(* Findings and tasks of one customer (audit/service.py): evaluations open *)
(* and resolve findings rule by rule, people move findings and tasks on,   *)
(* and each status change is logged by a transaction of its own before it  *)
(* is committed.                                                           *)
(*                                                                         *)
(* Due dates, assignees, titles and links between the rows are left out:   *)
(* no status depends on them.                                              *)
(***************************************************************************)
EXTENDS Integers, Sequences, FiniteSets

CONSTANTS
    Results,    \* how many rules a result lists
    Callers,    \* requests that may run at the same time
    MaxRows,    \* bound: findings and tasks ever created
    MaxEvents   \* bound: different status changes in the trail or about to be

ASSUME RecordsAssumption ==
    /\ MaxRows \in Nat /\ Results \in Nat /\ MaxEvents \in Nat

Rules == 1..Results    \* rule ids, in the order of the result

(* The states a rule can be in, by what the loop does with them: FAIL and  *)
(* PARTIAL, PASS, and the two it skips.                                    *)
Verdicts == {"failed", "passed", "other"}

FINDING_TRANSITIONS == [
    open     |-> {"triaged", "assigned", "resolved", "closed"},
    triaged  |-> {"assigned", "resolved", "closed"},
    assigned |-> {"resolved", "closed"},
    resolved |-> {"closed"},
    closed   |-> {}]

TASK_TRANSITIONS == [
    todo              |-> {"in_progress", "awaiting_evidence", "done"},
    in_progress       |-> {"awaiting_evidence", "done"},
    awaiting_evidence |-> {"done"},
    done              |-> {}]

Initial(kind) == IF kind = "task" THEN "todo" ELSE "open"

Of(kind) == IF kind = "task" THEN DOMAIN TASK_TRANSITIONS ELSE DOMAIN FINDING_TRANSITIONS

Statuses == Of("task") \cup Of("finding")

Allowed(kind, status) ==
    IF kind = "task" THEN TASK_TRANSITIONS[status] ELSE FINDING_TRANSITIONS[status]

VARIABLES
    row,       \* the findings and tasks, in the order of their creation
    caller,    \* what each request is doing
    trail      \* the events of status changes, committed one by one

rvars == <<row, caller, trail>>

Free == [at |-> "free", results |-> <<>>, seen |-> <<>>, next |-> 0,
         id |-> 0, from |-> "open", to |-> "open"]

Unseen == [id |-> 0, status |-> "open"]

RInit ==
    /\ row = <<>>
    /\ caller = [c \in Callers |-> Free]
    /\ trail = {}

IsFinding(i, rule) == row[i].kind = "finding" /\ row[i].rule = rule
Findings(rule) == {i \in DOMAIN row : IsFinding(i, rule)}

(* A finding without a rule is one a person wrote down. *)
New(kind, rule) ==
    /\ Len(row) < MaxRows
    /\ row' = Append(row, [kind |-> kind, rule |-> rule, status |-> Initial(kind),
                           deleted |-> FALSE])

CreateFinding(c) ==
    /\ caller[c].at = "free"
    /\ New("finding", 0)
    /\ UNCHANGED <<caller, trail>>

CreateTask(c) ==
    /\ caller[c].at = "free"
    /\ New("task", 0)
    /\ UNCHANGED <<caller, trail>>

DeleteTask(c) ==
    /\ caller[c].at = "free"
    /\ \E i \in DOMAIN row :
        /\ row[i].kind = "task" /\ ~row[i].deleted
        /\ row' = [row EXCEPT ![i].deleted = TRUE]
    /\ UNCHANGED <<caller, trail>>

(***************************************************************************)
(* update_finding and update_task: read and check, log, commit.            *)
(***************************************************************************)

Writes(c, i, status, next) ==
    /\ Cardinality(trail) + Cardinality({d \in Callers : caller[d].at = "log"}) < MaxEvents
    /\ caller' = [caller EXCEPT ![c] = [@ EXCEPT !.at = next, !.id = i,
                                                 !.from = row[i].status, !.to = status]]

BegunUnlogged(c, i, status) ==
    /\ ~row[i].deleted
    /\ status \in Allowed(row[i].kind, row[i].status)
    /\ Writes(c, i, status, "commit")

BegunUnchecked(c, i, status) ==
    /\ ~row[i].deleted
    /\ status \in Of(row[i].kind) \ {row[i].status}
    /\ Writes(c, i, status, "log")

Begun(c, i, status) ==
    /\ ~row[i].deleted
    /\ status \in Allowed(row[i].kind, row[i].status)
    /\ Writes(c, i, status, "log")

Update(c) ==
    /\ caller[c].at = "free"
    /\ \E i \in DOMAIN row, status \in Statuses : Begun(c, i, status)
    /\ UNCHANGED <<row, trail>>

(* log_event commits the event in a session of its own, whatever has       *)
(* become of the row since it was read.                                    *)
LogEvent(c) ==
    /\ caller[c].at = "log"
    /\ trail' = trail \cup {[id |-> caller[c].id, from |-> caller[c].from, to |-> caller[c].to]}
    /\ caller' = [caller EXCEPT ![c].at = "commit"]
    /\ UNCHANGED row

(* The loop passes the rule it is at and forgets what it knew of it. *)
Passed(c) ==
    LET r == caller[c].next
    IN  [Free EXCEPT !.at = "rules", !.next = r + 1,
                     !.results = [caller[c].results EXCEPT ![r] = "other"],
                     !.seen = [caller[c].seen EXCEPT ![r] = Unseen]]

(* What a write goes on to: the rest of the result, or nothing. *)
After(c) == IF caller[c].next = 0 THEN Free ELSE Passed(c)

(* The row is written by its key alone: whatever it holds by now is lost.  *)
(* A task that is gone by then makes the commit fail.                      *)
Commit(c) ==
    /\ caller[c].at = "commit"
    /\ ~row[caller[c].id].deleted
    /\ row' = [row EXCEPT ![caller[c].id].status = caller[c].to]
    /\ caller' = [caller EXCEPT ![c] = After(c)]
    /\ UNCHANGED trail

(***************************************************************************)
(* upsert_findings_from_result.                                            *)
(***************************************************************************)

(* One row per rule, of those the customer has: the last in an order the   *)
(* query does not fix.                                                     *)
Snapshots ==
    {seen \in [Rules -> {Unseen} \cup {[id |-> i, status |-> row[i].status] : i \in DOMAIN row}] :
        \A r \in Rules :
            IF Findings(r) = {} THEN seen[r] = Unseen ELSE seen[r].id \in Findings(r)}

Upsert(c) ==
    /\ caller[c].at = "free"
    /\ \E results \in [Rules -> Verdicts], seen \in Snapshots :
        caller' = [caller EXCEPT ![c] = [Free EXCEPT !.at = "rules", !.next = 1,
                                         !.results = results, !.seen = seen]]
    /\ UNCHANGED <<row, trail>>

(* The rule the loop is at, its verdict and its finding in the snapshot. *)
At(c) == caller[c].at = "rules" /\ caller[c].next \in Rules
ResultOf(c) == caller[c].results[caller[c].next]
Seen(c) == caller[c].seen[caller[c].next]

TrackedOnce(seen) == seen.id # 0
Tracked(seen) == seen.id # 0 /\ seen.status # "closed"

OpenFinding(c) ==
    /\ At(c) /\ ResultOf(c) = "failed"
    /\ ~Tracked(Seen(c))
    /\ New("finding", caller[c].next)
    /\ caller' = [caller EXCEPT ![c] = Passed(c)]
    /\ UNCHANGED trail

(* update_finding reads the row again; a finding closed since the snapshot *)
(* makes it raise, which Break stands for.                                 *)
ResolveFinding(c) ==
    /\ At(c) /\ ResultOf(c) = "passed"
    /\ Tracked(Seen(c)) /\ Seen(c).status # "resolved"
    /\ Begun(c, Seen(c).id, "resolved")
    /\ UNCHANGED <<row, trail>>

AlreadyResolved(c) ==
    Tracked(Seen(c)) => "resolved" \in {Seen(c).status, row[Seen(c).id].status}

LeaveFinding(c) ==
    /\ At(c)
    /\ \/ ResultOf(c) = "failed" /\ Tracked(Seen(c))
       \/ ResultOf(c) = "passed" /\ AlreadyResolved(c)
       \/ ResultOf(c) = "other"
    /\ caller' = [caller EXCEPT ![c] = Passed(c)]
    /\ UNCHANGED <<row, trail>>

Finish(c) ==
    /\ caller[c].at = "rules" /\ caller[c].next \notin Rules
    /\ caller' = [caller EXCEPT ![c] = Free]
    /\ UNCHANGED <<row, trail>>

(* An error or a process that dies: the rules left are not looked at. *)
Break(c) ==
    /\ caller[c].at # "free"
    /\ caller' = [caller EXCEPT ![c] = Free]
    /\ UNCHANGED <<row, trail>>

RNext ==
    \E c \in Callers :
        \/ CreateFinding(c) \/ CreateTask(c) \/ DeleteTask(c)
        \/ Update(c) \/ LogEvent(c) \/ Commit(c)
        \/ Upsert(c) \/ OpenFinding(c) \/ ResolveFinding(c) \/ LeaveFinding(c)
        \/ Finish(c) \/ Break(c)

RecordsSpec == RInit /\ [][RNext]_rvars
(***************************************************************************)
(* Properties.                                                             *)
(***************************************************************************)

(* Rows have a status of their kind, and a request in the middle of a      *)
(* result or a write knows the row and the rule it is at.                  *)
RecordsTypeOK ==
    /\ Len(row) <= MaxRows
    /\ \A i \in DOMAIN row :
        /\ row[i].kind \in {"finding", "task"}
        /\ row[i].rule \in Rules \cup {0}
        /\ row[i].status \in Of(row[i].kind)
        /\ row[i].deleted => row[i].kind = "task"
    /\ \A c \in Callers :
        /\ caller[c].at \in {"free", "rules", "log", "commit"}
        /\ caller[c].at \in {"log", "commit"} =>
            /\ caller[c].id \in DOMAIN row
            /\ {caller[c].from, caller[c].to} \subseteq Of(row[caller[c].id].kind)
        /\ caller[c].next # 0 =>
            /\ caller[c].results \in [Rules -> Verdicts]
            /\ \A r \in Rules : caller[c].seen[r].id \in {0} \cup Findings(r)
    /\ \A event \in trail :
        event.id \in DOMAIN row /\ {event.from, event.to} \subseteq Of(row[event.id].kind)

(* The statuses that the trail says a row has been given. *)
Reached(i) == {Initial(row[i].kind)} \cup {event.to : event \in {e \in trail : e.id = i}}

(* The trail tells how every row came to its status: the event is          *)
(* committed before the row (audit/service.py:424, :609), so a failure     *)
(* between leaves an event without a change, never a change without one;   *)
(* and what an event says the row was before has its own event in turn,    *)
(* stale reads and requests that broke off notwithstanding.                *)
TrailHasNoGaps ==
    /\ \A i \in DOMAIN row : row[i].status \in Reached(i)
    /\ \A event \in trail : event.from \in Reached(event.id)

(* A row leaves its transition table only by the commit of an update that  *)
(* read it before another one changed it: a closed finding comes back no   *)
(* other way.                                                              *)
OnlyStaleWritesBreakTheTable ==
    [][\A i \in DOMAIN row :
        row'[i].status # row[i].status =>
            \/ row'[i].status \in Allowed(row[i].kind, row[i].status)
            \/ \E c \in Callers :
                /\ caller[c].at = "commit" /\ caller[c].id = i
                /\ caller[c].to = row'[i].status /\ caller'[c].at # "commit"
                /\ caller[c].from # row[i].status]_row

(* When an evaluation moves past a rule that fails, the rule has a finding *)
(* that is not closed, or that was not when the evaluation read it: a rule *)
(* that fails again after its finding was closed is not forgotten          *)
(* (audit/service.py:458).                                                 *)
FailuresAreTracked ==
    [][\A c \in Callers :
        At(c) /\ ResultOf(c) = "failed" /\ caller'[c].next = caller[c].next + 1 =>
            \E i \in DOMAIN row' :
                /\ row'[i].kind = "finding" /\ row'[i].rule = caller[c].next
                /\ \/ row'[i].status # "closed"
                   \/ Seen(c).id = i /\ Seen(c).status # "closed"]_caller
=============================================================================
