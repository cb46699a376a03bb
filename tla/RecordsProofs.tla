----------------------------- MODULE RecordsProofs -----------------------------
(***************************************************************************)
(* Proofs about Records, for every number of rules, rows and requests:     *)
(* what the trail says of a row's status, how a row may leave its table of *)
(* transitions, and that no rule that fails goes without a finding.  Then  *)
(* about PolicyEngine and Assessment, for every rule pack, context, control *)
(* and piece of evidence: that learning a fact overturns no verdict.       *)
(***************************************************************************)
EXTENDS AuditRecords, DocVersionsProofs, WellFoundedInduction

(***************************************************************************)
(* The inductive invariant.                                                *)
(***************************************************************************)

RowType == [
    kind : {"finding", "task"}, rule : Rules \cup {0}, status : Statuses,
    deleted : BOOLEAN]

SeenType == [id : Nat, status : Statuses]

CallerType == [
    at : {"free", "rules", "log", "commit"}, results : {<<>>} \cup [Rules -> Verdicts],
    seen : {<<>>} \cup [Rules -> SeenType], next : Nat,
    id : Nat, from : Statuses, to : Statuses]

EventType == [id : Nat, from : Statuses, to : Statuses]

(* Rows have a status of their kind, which the trail says they got. *)
RowOK(i) ==
    /\ row[i].status \in Of(row[i].kind)
    /\ row[i].deleted => row[i].kind = "task"
    /\ row[i].status \in Reached(i)

(* An event is of a row and of its kind, and so is the one it goes on from. *)
EventOK(event) ==
    /\ event.id \in 1..Len(row)
    /\ {event.from, event.to} \subseteq Of(row[event.id].kind)
    /\ event.from \in Reached(event.id)

(* A write was allowed from the status it was checked against, which the   *)
(* row had then and the trail knows of; once it waits for its commit, the  *)
(* trail knows of the new one too.                                         *)
WriteOK(c) ==
    caller[c].at \in {"log", "commit"} =>
        /\ caller[c].id \in 1..Len(row)
        /\ caller[c].from \in Of(row[caller[c].id].kind)
        /\ caller[c].to \in Allowed(row[caller[c].id].kind, caller[c].from)
        /\ caller[c].from \in Reached(caller[c].id)
        /\ caller[c].at = "commit" => caller[c].to \in Reached(caller[c].id)

(* A result under way knows, of each rule, a finding about it or none.     *)
ResultOK(c) ==
    /\ caller[c].at = "free" => caller[c].next = 0
    /\ caller[c].at = "rules" => caller[c].next # 0
    /\ caller[c].at \in {"log", "commit"} => caller[c].next \in Rules \cup {0}
    /\ caller[c].next # 0 =>
        /\ caller[c].results \in [Rules -> Verdicts]
        /\ caller[c].seen \in [Rules -> SeenType]
        /\ \A r \in Rules : caller[c].seen[r].id \in {0} \cup Findings(r)

RecordsInv ==
    /\ row \in Seq(RowType) /\ Len(row) <= MaxRows
    /\ caller \in [Callers -> CallerType]
    /\ trail \in SUBSET EventType
    /\ \A i \in 1..Len(row) : RowOK(i)
    /\ \A event \in trail : EventOK(event)
    /\ \A c \in Callers : WriteOK(c) /\ ResultOK(c)

(***************************************************************************)
(* The tables, and what steps have in common.                              *)
(***************************************************************************)

(* A transition leads from a status of a kind to another of that kind.     *)
LEMMA Tables ==
    /\ Of("task") = {"todo", "in_progress", "awaiting_evidence", "done"}
    /\ Of("finding") = {"open", "triaged", "assigned", "resolved", "closed"}
    /\ \A kind \in {"finding", "task"} : \A status \in Of(kind) :
        Allowed(kind, status) \subseteq Of(kind)
    /\ \A kind \in {"finding", "task"} : Of(kind) \subseteq Statuses /\ Initial(kind) \in Of(kind)
<1>1. Of("task") = {"todo", "in_progress", "awaiting_evidence", "done"}
    BY DEF Of, TASK_TRANSITIONS
<1>2. Of("finding") = {"open", "triaged", "assigned", "resolved", "closed"}
    BY DEF Of, FINDING_TRANSITIONS
<1>3. \A status \in Of("task") : Allowed("task", status) \subseteq Of("task")
    BY <1>1 DEF Allowed, TASK_TRANSITIONS
<1>4. \A status \in Of("finding") : Allowed("finding", status) \subseteq Of("finding")
    BY <1>2 DEF Allowed, FINDING_TRANSITIONS
<1> QED
    BY <1>1, <1>2, <1>3, <1>4 DEF Statuses, Initial

(* What the trail says stays said, of a row that keeps its kind.           *)
LEMMA ReachedGrows ==
    ASSUME NEW i, trail \subseteq trail', row'[i].kind = row[i].kind
    PROVE  Reached(i) \subseteq Reached(i)'
    BY DEF Reached

(* Requests that do nothing in a step still know the rows they knew: rows  *)
(* keep their place, their kind and their rule.                            *)
LEMMA OthersKept ==
    ASSUME RecordsInv, row' \in Seq(RowType), Len(row) <= Len(row'),
           \A i \in 1..Len(row) : row'[i].kind = row[i].kind /\ row'[i].rule = row[i].rule,
           trail \subseteq trail', NEW c \in Callers, caller'[c] = caller[c]
    PROVE  WriteOK(c)' /\ ResultOK(c)'
<1>1. row \in Seq(RowType) /\ Len(row) \in Nat /\ Len(row') \in Nat
    BY DEF RecordsInv
<1>2. WriteOK(c)'
    <2>1. \A i \in 1..Len(row) : Reached(i) \subseteq Reached(i)'
        BY ReachedGrows
    <2> QED
        BY <1>1, <2>1 DEF RecordsInv, WriteOK
<1>3. \A r \in Rules : Findings(r) \subseteq Findings(r)'
    BY <1>1 DEF Findings, IsFinding
<1>4. ResultOK(c)'
    BY <1>3 DEF RecordsInv, ResultOK
<1> QED
    BY <1>2, <1>4

(* So do the events.                                                       *)
LEMMA EventsKept ==
    ASSUME RecordsInv, row' \in Seq(RowType), Len(row) <= Len(row'), trail \subseteq trail',
           \A i \in 1..Len(row) : row'[i].kind = row[i].kind /\ row'[i].rule = row[i].rule
    PROVE  \A event \in trail : EventOK(event)'
<1>1. row \in Seq(RowType) /\ Len(row) \in Nat /\ Len(row') \in Nat
    BY DEF RecordsInv
<1>2. ASSUME NEW event \in trail PROVE EventOK(event)'
    <2>1. EventOK(event) /\ event.id \in 1..Len(row)
        BY DEF RecordsInv, EventOK
    <2>2. Reached(event.id) \subseteq Reached(event.id)'
        BY <2>1, ReachedGrows
    <2>3. row'[event.id].kind = row[event.id].kind /\ event.id \in 1..Len(row')
        BY <1>1, <2>1
    <2> QED
        BY <2>1, <2>2, <2>3 DEF EventOK
<1> QED
    BY <1>2

(* A new row has the first status of its kind, and the others keep their   *)
(* place.                                                                  *)
LEMMA NewRow ==
    ASSUME RecordsInv, NEW kind \in {"finding", "task"}, NEW rule \in Rules \cup {0},
           New(kind, rule), trail' = trail
    PROVE  /\ row' \in Seq(RowType) /\ Len(row') = Len(row) + 1 /\ Len(row') <= MaxRows
           /\ \A i \in 1..Len(row) : row'[i] = row[i]
           /\ row'[Len(row')].kind = kind /\ row'[Len(row')].rule = rule
           /\ row'[Len(row')].status = Initial(kind)
           /\ \A i \in 1..Len(row') : RowOK(i)'
<1> DEFINE added == [kind |-> kind, rule |-> rule, status |-> Initial(kind), deleted |-> FALSE]
<1>1. row \in Seq(RowType) /\ Len(row) \in Nat /\ Len(row) < MaxRows /\ MaxRows \in Nat
    BY RecordsAssumption DEF RecordsInv, New
<1>2. Initial(kind) \in Of(kind) /\ Initial(kind) \in Statuses
    BY Tables
<1>3. added \in RowType
    BY <1>2 DEF RowType
<1>4. row' = Append(row, added)
    BY DEF New
<1>5. /\ added.kind = kind /\ added.rule = rule /\ added.status = Initial(kind)
      /\ ~added.deleted
    OBVIOUS
<1> HIDE DEF added
<1>6. /\ row' \in Seq(RowType) /\ Len(row') = Len(row) + 1 /\ row'[Len(row) + 1] = added
      /\ \A i \in 1..Len(row) : row'[i] = row[i]
    BY <1>1, <1>3, <1>4
<1>7. ASSUME NEW i \in 1..Len(row') PROVE RowOK(i)'
    <2>1. CASE i \in 1..Len(row)
        BY <1>6, <2>1 DEF RecordsInv, RowOK, Reached
    <2>2. CASE i = Len(row) + 1
        BY <1>2, <1>5, <1>6, <2>2 DEF RowOK, Reached
    <2> QED
        BY <1>1, <1>6, <2>1, <2>2
<1> QED
    BY <1>1, <1>5, <1>6, <1>7

(* What a request is after its rule, its write or its failure.             *)
LEMMA FreeOrPassed ==
    ASSUME RecordsInv, NEW c \in Callers
    PROVE  /\ Free \in CallerType /\ Free.at = "free" /\ Free.next = 0
           /\ caller[c].next \in Rules =>
                /\ Passed(c) \in CallerType
                /\ Passed(c).at = "rules" /\ Passed(c).next = caller[c].next + 1
                /\ Passed(c).results \in [Rules -> Verdicts]
                /\ Passed(c).seen \in [Rules -> SeenType]
                /\ \A r \in Rules : Passed(c).seen[r].id \in {0} \cup Findings(r)
<1>1. "open" \in Statuses
    BY Tables DEF Statuses
<1>2. Free \in CallerType /\ Free.at = "free" /\ Free.next = 0
    BY <1>1 DEF Free, CallerType
<1>3. ASSUME caller[c].next \in Rules
      PROVE  /\ Passed(c) \in CallerType
             /\ Passed(c).at = "rules" /\ Passed(c).next = caller[c].next + 1
             /\ Passed(c).results \in [Rules -> Verdicts]
             /\ Passed(c).seen \in [Rules -> SeenType]
             /\ \A r \in Rules : Passed(c).seen[r].id \in {0} \cup Findings(r)
    <2> DEFINE n == caller[c].next
               results == [caller[c].results EXCEPT ![n] = "other"]
               seen == [caller[c].seen EXCEPT ![n] = Unseen]
    <2>1. /\ n \in Nat \ {0} /\ caller[c].results \in [Rules -> Verdicts]
          /\ caller[c].seen \in [Rules -> SeenType]
          /\ \A r \in Rules : caller[c].seen[r].id \in {0} \cup Findings(r)
        BY <1>3, RecordsAssumption DEF RecordsInv, ResultOK, Rules
    <2>2. Unseen \in SeenType /\ Unseen.id = 0
        BY <1>1 DEF Unseen, SeenType
    <2>3. results \in [Rules -> Verdicts]
        BY <2>1 DEF Verdicts
    <2>4. /\ seen \in [Rules -> SeenType]
          /\ \A r \in Rules : seen[r].id \in {0} \cup Findings(r)
        BY <2>1, <2>2
    <2>5. Passed(c) = [Free EXCEPT !.at = "rules", !.next = n + 1,
                                   !.results = results, !.seen = seen]
        BY DEF Passed
    <2>6. n + 1 \in Nat
        BY <2>1
    <2> HIDE DEF n, results, seen
    <2>7. Passed(c) = [at |-> "rules", results |-> results, seen |-> seen, next |-> n + 1,
                       id |-> 0, from |-> "open", to |-> "open"]
        BY <2>5 DEF Free
    <2>8. Passed(c) \in CallerType
        BY <1>1, <2>3, <2>4, <2>6, <2>7 DEF CallerType
    <2> QED
        BY <2>3, <2>4, <2>7, <2>8 DEF n
<1> QED
    BY <1>2, <1>3

(***************************************************************************)
(* The steps.                                                              *)
(***************************************************************************)

(* A customer begins without findings or tasks.                            *)
LEMMA RecordsInit == RInit => RecordsInv
<1> SUFFICES ASSUME RInit PROVE RecordsInv
    OBVIOUS
<1>1. row \in Seq(RowType) /\ Len(row) = 0 /\ Len(row) <= MaxRows
    BY RecordsAssumption DEF RInit
<1>2. "open" \in Statuses
    BY Tables
<1>3. Free \in CallerType /\ Free.at = "free" /\ Free.next = 0
    BY <1>2 DEF Free, CallerType
<1>4. caller \in [Callers -> CallerType] /\ \A c \in Callers : WriteOK(c) /\ ResultOK(c)
    BY <1>3 DEF RInit, WriteOK, ResultOK
<1> QED
    BY <1>1, <1>4 DEF RInit, RecordsInv

(* A step of one request that changes no row and logs nothing.             *)
LEMMA CallerStep ==
    ASSUME RecordsInv, row' = row, trail' = trail, NEW c \in Callers, NEW new \in CallerType,
           caller' = [caller EXCEPT ![c] = new], WriteOK(c)', ResultOK(c)'
    PROVE  RecordsInv'
<1>1. caller' \in [Callers -> CallerType] /\ \A d \in Callers \ {c} : caller'[d] = caller[d]
    BY DEF RecordsInv
<1>2. ASSUME NEW d \in Callers PROVE WriteOK(d)' /\ ResultOK(d)'
    <2>1. CASE d = c
        BY <2>1
    <2>2. CASE d # c
        BY <1>1, <2>2 DEF RecordsInv, WriteOK, Reached, ResultOK, Findings, IsFinding
    <2> QED
        BY <2>1, <2>2
<1> QED
    BY <1>1, <1>2 DEF RecordsInv, RowOK, EventOK, Reached

(* A step that leaves the requests alone: rows keep place, kind and rule.  *)
LEMMA RowStep ==
    ASSUME RecordsInv, caller' = caller, trail' = trail,
           row' \in Seq(RowType), Len(row) <= Len(row'),
           Len(row') <= MaxRows, \A i \in 1..Len(row') : RowOK(i)',
           \A i \in 1..Len(row) : row'[i].kind = row[i].kind /\ row'[i].rule = row[i].rule
    PROVE  RecordsInv'
<1>1. ASSUME NEW c \in Callers PROVE WriteOK(c)' /\ ResultOK(c)'
    BY OthersKept
<1>2. \A event \in trail : EventOK(event)'
    BY EventsKept
<1> QED
    BY <1>1, <1>2 DEF RecordsInv

(* The write that an update begins was allowed by the row it read.         *)
LEMMA BegunWrite ==
    ASSUME RecordsInv, NEW c \in Callers, NEW i \in 1..Len(row), NEW status \in Statuses,
           caller[c].next \in Rules \cup {0}, Begun(c, i, status), UNCHANGED <<row, trail>>
    PROVE  RecordsInv'
<1> DEFINE new == [caller[c] EXCEPT !.at = "log", !.id = i,
                                    !.from = row[i].status, !.to = status]
<1>1. caller[c] \in CallerType /\ row[i] \in RowType /\ i \in Nat /\ RowOK(i) /\ ResultOK(c)
    BY DEF RecordsInv
<1>2. /\ row[i].kind \in {"finding", "task"} /\ row[i].status \in Of(row[i].kind)
      /\ row[i].status \in Statuses /\ row[i].status \in Reached(i)
    BY <1>1 DEF RowOK, RowType
<1>3. /\ new \in CallerType /\ new.at = "log" /\ new.id = i
      /\ new.from = row[i].status /\ new.to = status
      /\ new.results = caller[c].results /\ new.seen = caller[c].seen
      /\ new.next = caller[c].next
    BY <1>1, <1>2 DEF CallerType
<1>4. status \in Allowed(row[i].kind, row[i].status) /\ caller' = [caller EXCEPT ![c] = new]
    BY DEF Begun, Writes
<1> HIDE DEF new
<1>5. caller'[c] = new
    BY <1>4 DEF RecordsInv
<1>6. WriteOK(c)'
    BY <1>2, <1>3, <1>4, <1>5 DEF WriteOK, Reached
<1>7. ResultOK(c)'
    BY <1>1, <1>3, <1>5 DEF ResultOK, Findings, IsFinding
<1> QED
    BY <1>3, <1>4, <1>6, <1>7, CallerStep

(* The event says where the row was, which had its own event, and what it  *)
(* is about to become.                                                     *)
LEMMA LogStep == ASSUME RecordsInv, NEW c \in Callers, LogEvent(c) PROVE RecordsInv'
<1> DEFINE new == [caller[c] EXCEPT !.at = "commit"]
<1>1. /\ caller[c] \in CallerType /\ caller[c].at = "log" /\ WriteOK(c) /\ ResultOK(c)
      /\ row' = row /\ trail \subseteq trail' /\ caller' = [caller EXCEPT ![c] = new]
    BY DEF LogEvent, RecordsInv
<1>2. PICK event \in EventType :
        /\ event.id = caller[c].id /\ event.from = caller[c].from /\ event.to = caller[c].to
        /\ trail' = trail \cup {event}
    BY <1>1 DEF LogEvent, CallerType, EventType
<1>3. /\ new \in CallerType /\ new.at = "commit" /\ new.id = event.id
      /\ new.from = event.from /\ new.to = event.to /\ new.next = caller[c].next
      /\ new.results = caller[c].results /\ new.seen = caller[c].seen
    BY <1>1, <1>2 DEF CallerType
<1> HIDE DEF new
<1>4. /\ row \in Seq(RowType) /\ event.id \in 1..Len(row) /\ row[event.id] \in RowType
      /\ event.from \in Of(row[event.id].kind)
      /\ event.to \in Allowed(row[event.id].kind, event.from)
      /\ event.from \in Reached(event.id)
    BY <1>1, <1>2 DEF RecordsInv, WriteOK
<1>5. event.to \in Of(row[event.id].kind)
    BY <1>4, Tables DEF RowType
<1>6. \A i \in 1..Len(row) : Reached(i) \subseteq Reached(i)'
    BY <1>1, ReachedGrows
<1>7. event.to \in Reached(event.id)'
    BY <1>1, <1>2 DEF Reached
<1>8. EventOK(event)'
    BY <1>1, <1>4, <1>5, <1>6 DEF EventOK
<1>9. \A e \in trail : EventOK(e)'
    BY <1>1, <1>6 DEF RecordsInv, EventOK
<1>10. \A i \in 1..Len(row) : RowOK(i)'
    BY <1>1, <1>6 DEF RecordsInv, RowOK
<1>11. /\ caller' \in [Callers -> CallerType] /\ caller'[c] = new
       /\ \A d \in Callers \ {c} : caller'[d] = caller[d]
    BY <1>1, <1>3 DEF RecordsInv
<1>12. WriteOK(c)' /\ ResultOK(c)'
    <2>1. WriteOK(c)'
        BY <1>1, <1>3, <1>4, <1>6, <1>7, <1>11 DEF WriteOK
    <2>2. ResultOK(c)'
        BY <1>1, <1>3, <1>11 DEF ResultOK, Findings, IsFinding
    <2> QED
        BY <2>1, <2>2
<1>13. ASSUME NEW d \in Callers, d # c PROVE WriteOK(d)' /\ ResultOK(d)'
    BY <1>1, <1>4, <1>11, <1>13, OthersKept
<1>14. trail' \in SUBSET EventType /\ \A e \in trail' : EventOK(e)'
    BY <1>2, <1>8, <1>9 DEF RecordsInv
<1> QED
    BY <1>1, <1>10, <1>11, <1>12, <1>13, <1>14 DEF RecordsInv

(* A request that goes back to rest, or on to the next rule.               *)
LEMMA LeaveStep ==
    ASSUME RecordsInv, row' = row, trail' = trail, NEW c \in Callers,
           \/ caller' = [caller EXCEPT ![c] = Free]
           \/ caller[c].next \in Rules /\ caller' = [caller EXCEPT ![c] = Passed(c)]
    PROVE  RecordsInv'
<1>1. CASE caller' = [caller EXCEPT ![c] = Free]
    <2>1. caller'[c] = Free
        BY <1>1 DEF RecordsInv
    <2> QED
        BY <1>1, <2>1, FreeOrPassed, CallerStep DEF WriteOK, ResultOK
<1>2. CASE caller[c].next \in Rules /\ caller' = [caller EXCEPT ![c] = Passed(c)]
    <2>1. /\ Passed(c) \in CallerType
          /\ Passed(c).at = "rules" /\ Passed(c).next = caller[c].next + 1
          /\ Passed(c).results \in [Rules -> Verdicts]
          /\ Passed(c).seen \in [Rules -> SeenType]
          /\ \A r \in Rules : Passed(c).seen[r].id \in {0} \cup Findings(r)
        BY <1>2, FreeOrPassed
    <2>2. caller'[c] = Passed(c) /\ Passed(c).next # 0
        BY <1>2, <2>1, RecordsAssumption DEF RecordsInv, Rules
    <2>3. WriteOK(c)' /\ ResultOK(c)'
        BY <2>1, <2>2 DEF WriteOK, ResultOK, Findings, IsFinding
    <2> QED
        BY <1>2, <2>1, <2>3, CallerStep
<1> QED
    BY <1>1, <1>2

(* A commit writes a status of the row's kind that the trail knows of.     *)
LEMMA CommitStep == ASSUME RecordsInv, NEW c \in Callers, Commit(c) PROVE RecordsInv'
<1> DEFINE i == caller[c].id
           new == After(c)
<1>1. /\ caller[c].at = "commit" /\ i \in 1..Len(row) /\ trail' = trail
      /\ caller[c] \in CallerType /\ row \in Seq(RowType) /\ Len(row) \in Nat
      /\ Len(row) <= MaxRows /\ caller[c].next \in Rules \cup {0}
      /\ row' = [row EXCEPT ![i].status = caller[c].to]
      /\ caller' = [caller EXCEPT ![c] = new]
    BY DEF Commit, RecordsInv, WriteOK, ResultOK
<1>2. row[i] \in RowType /\ RowOK(i)
    BY <1>1 DEF RecordsInv
<1>3. /\ caller[c].to \in Of(row[i].kind) /\ caller[c].to \in Statuses
      /\ caller[c].to \in Reached(i)
    BY <1>1, <1>2, Tables DEF RecordsInv, WriteOK, RowType
<1> DEFINE written == [row[i] EXCEPT !.status = caller[c].to]
<1>4. /\ row'[i] = written /\ row' = [j \in 1..Len(row) |-> row'[j]]
      /\ Len(row') = Len(row) /\ \A j \in 1..Len(row) : j # i => row'[j] = row[j]
    <2>1. row' = [row EXCEPT ![i] = written]
        BY <1>1
    <2>2. i \in 1..Len(row) /\ row \in Seq(RowType)
        BY <1>1
    <2>3. DOMAIN row = 1..Len(row) /\ Len(row) \in Nat
        BY <2>2
    <2> HIDE DEF i, written
    <2>4. DOMAIN row' = 1..Len(row) /\ row' = [j \in 1..Len(row) |-> row'[j]]
        BY <2>1, <2>3, Zenon
    <2>5. row'[i] = written /\ \A j \in 1..Len(row) : j # i => row'[j] = row[j]
        BY <2>1, <2>2, <2>3
    <2>6. Len(row') = Len(row)
        BY <2>3, <2>4
    <2> QED
        BY <2>4, <2>5, <2>6
<1>5. /\ row'[i] \in RowType /\ row'[i].kind = row[i].kind /\ row'[i].rule = row[i].rule
      /\ row'[i].status = caller[c].to /\ row'[i].deleted = row[i].deleted
    BY <1>2, <1>3, <1>4 DEF RowType
<1>6. Len(row') = Len(row) /\ \A j \in 1..Len(row) : j # i => row'[j] = row[j]
    BY <1>4
<1>7. row' \in Seq(RowType)
    <2>1. \A j \in 1..Len(row) : row[j] \in RowType
        BY <1>1
    <2>2. \A j \in 1..Len(row') : row'[j] \in RowType
        BY <1>5, <1>6, <2>1
    <2>3. row' \in [1..Len(row) -> RowType]
        BY <1>4, <1>6, <2>2
    <2> QED
        BY <1>1, <2>3
<1>8. ASSUME NEW j \in 1..Len(row') PROVE RowOK(j)'
    <2>1. CASE j = i
        BY <1>1, <1>2, <1>3, <1>5, <2>1 DEF RowOK, Reached
    <2>2. CASE j # i
        BY <1>1, <1>6, <2>2 DEF RecordsInv, RowOK, Reached
    <2> QED
        BY <2>1, <2>2
<1>9. \A j \in 1..Len(row) : row'[j].kind = row[j].kind /\ row'[j].rule = row[j].rule
    BY <1>5, <1>6
<1>10. /\ new \in CallerType
       /\ caller[c].next = 0 => new.at = "free" /\ new.next = 0
       /\ caller[c].next \in Rules =>
            /\ new.at = "rules" /\ new.next = caller[c].next + 1
            /\ new.results \in [Rules -> Verdicts] /\ new.seen \in [Rules -> SeenType]
            /\ \A r \in Rules : new.seen[r].id \in {0} \cup Findings(r)
    <2>1. CASE caller[c].next = 0
        BY <2>1, FreeOrPassed, RecordsAssumption DEF After, Rules
    <2>2. CASE caller[c].next \in Rules
        <3>1. caller[c].next # 0
            BY <2>2, RecordsAssumption DEF Rules
        <3> QED
            BY <2>2, <3>1, FreeOrPassed DEF After
    <2> QED
        BY <1>1, <2>1, <2>2
<1> HIDE DEF i, new
<1>11. /\ caller' \in [Callers -> CallerType] /\ caller'[c] = new
       /\ \A d \in Callers \ {c} : caller'[d] = caller[d]
    BY <1>1, <1>10 DEF RecordsInv
<1>12. \A r \in Rules : Findings(r) = Findings(r)'
    BY <1>1, <1>6, <1>7, <1>9 DEF Findings, IsFinding
<1>13. WriteOK(c)' /\ ResultOK(c)'
    <2>1. caller[c].next \in Rules => caller[c].next + 1 # 0
        BY RecordsAssumption DEF Rules
    <2> QED
        BY <1>1, <1>10, <1>11, <1>12, <2>1 DEF WriteOK, ResultOK
<1>14. ASSUME NEW d \in Callers, d # c PROVE WriteOK(d)' /\ ResultOK(d)'
    BY <1>1, <1>6, <1>7, <1>9, <1>11, <1>14, OthersKept
<1>15. \A event \in trail : EventOK(event)'
    BY <1>1, <1>6, <1>7, <1>9, EventsKept
<1> QED
    BY <1>1, <1>6, <1>7, <1>8, <1>11, <1>13, <1>14, <1>15 DEF RecordsInv

(* An evaluation starts from a snapshot of the findings about its rules.   *)
LEMMA UpsertStep == ASSUME RecordsInv, NEW c \in Callers, Upsert(c) PROVE RecordsInv'
<1>1. PICK results \in [Rules -> Verdicts], seen \in Snapshots :
        caller' = [caller EXCEPT ![c] = [Free EXCEPT !.at = "rules", !.next = 1,
                                         !.results = results, !.seen = seen]]
    BY DEF Upsert
<1> DEFINE new == [Free EXCEPT !.at = "rules", !.next = 1, !.results = results, !.seen = seen]
<1>2. row \in Seq(RowType) /\ \A i \in 1..Len(row) : row[i] \in RowType
    BY DEF RecordsInv
<1>3. "open" \in Statuses
    BY Tables
<1>4. Unseen \in SeenType /\ Unseen.id = 0
    BY <1>3 DEF Unseen, SeenType
<1>5. \A i \in DOMAIN row : [id |-> i, status |-> row[i].status] \in SeenType
    BY <1>2 DEF SeenType, RowType
<1>6. seen \in [Rules -> SeenType]
    BY <1>4, <1>5 DEF Snapshots
<1>7. \A r \in Rules : seen[r].id \in {0} \cup Findings(r)
    BY <1>4 DEF Snapshots
<1>8. new = [at |-> "rules", results |-> results, seen |-> seen, next |-> 1,
             id |-> 0, from |-> "open", to |-> "open"]
    <2>1. new = [Free EXCEPT !.at = "rules", !.next = 1, !.results = results, !.seen = seen]
        OBVIOUS
    <2> HIDE DEF new
    <2> QED
        BY <2>1 DEF Free
<1>9. caller' = [caller EXCEPT ![c] = new] /\ row' = row /\ trail' = trail
    BY <1>1 DEF Upsert
<1> HIDE DEF new
<1>10. new.at = "rules" /\ new.next = 1 /\ new.results = results /\ new.seen = seen
    BY <1>8
<1>11. new \in CallerType
    BY <1>3, <1>6, <1>8 DEF CallerType
<1>12. caller'[c] = new
    BY <1>9 DEF RecordsInv
<1>13. WriteOK(c)' /\ ResultOK(c)'
    BY <1>6, <1>7, <1>9, <1>10, <1>12 DEF WriteOK, ResultOK, Findings, IsFinding
<1> QED
    BY <1>9, <1>11, <1>13, CallerStep

(* A failing rule without a finding gets one, and the loop goes on.        *)
LEMMA OpenStep == ASSUME RecordsInv, NEW c \in Callers, OpenFinding(c) PROVE RecordsInv'
<1>1. /\ caller[c].next \in Rules /\ New("finding", caller[c].next)
      /\ caller' = [caller EXCEPT ![c] = Passed(c)] /\ trail' = trail
    BY DEF OpenFinding, At
<1>2. caller[c].next # 0
    BY <1>1, RecordsAssumption DEF Rules
<1>3. /\ row \in Seq(RowType) /\ Len(row) \in Nat
      /\ row' \in Seq(RowType) /\ Len(row') = Len(row) + 1 /\ Len(row') <= MaxRows
      /\ \A i \in 1..Len(row) : row'[i] = row[i]
      /\ \A i \in 1..Len(row') : RowOK(i)'
    BY <1>1, <1>2, NewRow DEF RecordsInv
<1>4. /\ Passed(c) \in CallerType /\ Passed(c).at = "rules" /\ Passed(c).next # 0
      /\ Passed(c).results \in [Rules -> Verdicts]
      /\ Passed(c).seen \in [Rules -> SeenType]
      /\ \A r \in Rules : Passed(c).seen[r].id \in {0} \cup Findings(r)
    BY <1>1, FreeOrPassed, RecordsAssumption DEF Rules
<1>5. /\ caller' \in [Callers -> CallerType] /\ caller'[c] = Passed(c)
      /\ \A d \in Callers \ {c} : caller'[d] = caller[d]
    BY <1>1, <1>4 DEF RecordsInv
<1>6. \A r \in Rules : Findings(r) \subseteq Findings(r)'
    BY <1>3 DEF Findings, IsFinding
<1>7. WriteOK(c)' /\ ResultOK(c)'
    BY <1>4, <1>5, <1>6 DEF WriteOK, ResultOK
<1>8. ASSUME NEW d \in Callers, d # c PROVE WriteOK(d)' /\ ResultOK(d)'
    BY <1>1, <1>3, <1>5, <1>8, OthersKept
<1>9. \A event \in trail : EventOK(event)'
    BY <1>1, <1>3, EventsKept
<1> QED
    BY <1>1, <1>3, <1>5, <1>7, <1>8, <1>9 DEF RecordsInv

(* Every step keeps the invariant.                                         *)
LEMMA RecordsNext == RecordsInv /\ [RNext]_rvars => RecordsInv'
<1> SUFFICES ASSUME RecordsInv, [RNext]_rvars PROVE RecordsInv'
    OBVIOUS
<1>1. ASSUME NEW c \in Callers, CreateFinding(c) \/ CreateTask(c) PROVE RecordsInv'
    <2>1. PICK kind \in {"finding", "task"} : New(kind, 0)
        BY <1>1 DEF CreateFinding, CreateTask
    <2>2. caller' = caller /\ trail' = trail
        BY <1>1 DEF CreateFinding, CreateTask
    <2>3. /\ row' \in Seq(RowType) /\ Len(row') = Len(row) + 1 /\ Len(row') <= MaxRows
          /\ \A i \in 1..Len(row) : row'[i] = row[i]
          /\ \A i \in 1..Len(row') : RowOK(i)'
        BY <2>1, <2>2, NewRow
    <2>4. Len(row) <= Len(row')
        BY <2>3 DEF RecordsInv
    <2> QED
        BY <2>2, <2>3, <2>4, RowStep
<1>2. ASSUME NEW c \in Callers, DeleteTask(c) PROVE RecordsInv'
    <2>1. PICK i \in DOMAIN row :
            row[i].kind = "task" /\ row' = [row EXCEPT ![i].deleted = TRUE]
        BY <1>2 DEF DeleteTask
    <2>2. /\ row \in Seq(RowType) /\ Len(row) \in Nat /\ i \in 1..Len(row)
          /\ row[i] \in RowType /\ caller' = caller /\ trail' = trail
        BY <1>2, <2>1 DEF DeleteTask, RecordsInv
    <2> DEFINE gone == [row[i] EXCEPT !.deleted = TRUE]
    <2>3. /\ gone \in RowType /\ gone.kind = row[i].kind /\ gone.rule = row[i].rule
          /\ gone.status = row[i].status
        BY <2>2 DEF RowType
    <2>4. row' = [row EXCEPT ![i] = gone]
        BY <2>1
    <2> HIDE DEF gone
    <2>5. /\ row' \in Seq(RowType) /\ Len(row') = Len(row) /\ row'[i] = gone
          /\ \A j \in 1..Len(row) : j # i => row'[j] = row[j]
        BY <2>2, <2>3, <2>4
    <2>6. \A j \in 1..Len(row') : RowOK(j)'
        BY <2>1, <2>2, <2>3, <2>5 DEF RecordsInv, RowOK, Reached
    <2>7. \A j \in 1..Len(row) : row'[j].kind = row[j].kind /\ row'[j].rule = row[j].rule
        BY <2>3, <2>5
    <2>8. Len(row) <= Len(row') /\ Len(row') <= MaxRows
        BY <2>2, <2>5 DEF RecordsInv
    <2> QED
        BY <2>2, <2>5, <2>6, <2>7, <2>8, RowStep
<1>3. ASSUME NEW c \in Callers, Update(c) PROVE RecordsInv'
    <2>1. PICK i \in 1..Len(row), status \in Statuses : Begun(c, i, status)
        BY <1>3 DEF Update, RecordsInv
    <2>2. caller[c].next = 0
        BY <1>3 DEF Update, RecordsInv, ResultOK
    <2> QED
        BY <1>3, <2>1, <2>2, BegunWrite DEF Update
<1>4. ASSUME NEW c \in Callers, LogEvent(c) \/ Commit(c) PROVE RecordsInv'
    BY <1>4, LogStep, CommitStep
<1>5. ASSUME NEW c \in Callers, Upsert(c) PROVE RecordsInv'
    BY <1>5, UpsertStep
<1>6. ASSUME NEW c \in Callers, OpenFinding(c) PROVE RecordsInv'
    BY <1>6, OpenStep
<1>7. ASSUME NEW c \in Callers, ResolveFinding(c) PROVE RecordsInv'
    <2>1. /\ caller[c].next \in Rules /\ Seen(c).id # 0 /\ UNCHANGED <<row, trail>>
          /\ Begun(c, Seen(c).id, "resolved")
        BY <1>7 DEF ResolveFinding, At, Tracked
    <2>2. caller[c].next # 0
        BY <2>1, RecordsAssumption DEF Rules
    <2>3. Seen(c).id \in Findings(caller[c].next)
        BY <2>1, <2>2 DEF RecordsInv, ResultOK, Seen
    <2>4. Seen(c).id \in 1..Len(row) /\ "resolved" \in Statuses
        BY <2>3, Tables DEF Findings, RecordsInv
    <2> QED
        BY <2>1, <2>4, BegunWrite
<1>8. ASSUME NEW c \in Callers, LeaveFinding(c) \/ Finish(c) \/ Break(c) PROVE RecordsInv'
    BY <1>8, LeaveStep DEF LeaveFinding, Finish, Break, At
<1>9. CASE UNCHANGED rvars
    BY <1>9 DEF rvars, RecordsInv, RowOK, EventOK, WriteOK, Reached, ResultOK, Findings, IsFinding
<1> QED
    BY <1>1, <1>2, <1>3, <1>4, <1>5, <1>6, <1>7, <1>8, <1>9 DEF RNext

(* The records' inductive invariant.                                       *)
THEOREM RecordsInvariant == RecordsSpec => []RecordsInv
    BY RecordsInit, RecordsNext, PTL DEF RecordsSpec

(***************************************************************************)
(* The theorems.                                                           *)
(***************************************************************************)

(* Rows keep a status of their kind, and requests know their rows.         *)
THEOREM RecordsTypes == RecordsSpec => []RecordsTypeOK
<1>1. RecordsInv => RecordsTypeOK
    <2> SUFFICES ASSUME RecordsInv PROVE RecordsTypeOK
        OBVIOUS
    <2>1. row \in Seq(RowType) /\ DOMAIN row = 1..Len(row) /\ Len(row) <= MaxRows
        BY DEF RecordsInv
    <2>2. ASSUME NEW i \in DOMAIN row
          PROVE  /\ row[i].kind \in {"finding", "task"}
                 /\ row[i].rule \in Rules \cup {0}
                 /\ row[i].status \in Of(row[i].kind)
                 /\ row[i].deleted => row[i].kind = "task"
        <3>1. row[i] \in RowType /\ RowOK(i)
            BY <2>1 DEF RecordsInv
        <3> QED
            BY <3>1 DEF RowType, RowOK
    <2>3. ASSUME NEW c \in Callers
          PROVE  /\ caller[c].at \in {"free", "rules", "log", "commit"}
                 /\ caller[c].at \in {"log", "commit"} =>
                    /\ caller[c].id \in DOMAIN row
                    /\ {caller[c].from, caller[c].to} \subseteq Of(row[caller[c].id].kind)
                 /\ caller[c].next # 0 =>
                    /\ caller[c].results \in [Rules -> Verdicts]
                    /\ \A r \in Rules : caller[c].seen[r].id \in {0} \cup Findings(r)
        <3>1. caller[c] \in CallerType /\ WriteOK(c) /\ ResultOK(c)
            BY DEF RecordsInv
        <3>2. ASSUME caller[c].at \in {"log", "commit"}
              PROVE  /\ caller[c].id \in DOMAIN row
                     /\ {caller[c].from, caller[c].to} \subseteq Of(row[caller[c].id].kind)
            BY <2>1, <2>2, <3>1, <3>2, Tables DEF WriteOK
        <3> QED
            BY <3>1, <3>2 DEF CallerType, ResultOK
    <2>4. \A event \in trail :
            event.id \in DOMAIN row /\ {event.from, event.to} \subseteq Of(row[event.id].kind)
        BY <2>1 DEF RecordsInv, EventOK
    <2> QED
        BY <2>1, <2>2, <2>3, <2>4 DEF RecordsTypeOK
<1> QED
    BY <1>1, RecordsInvariant, PTL

(* No row has a status without the event that it got there, and no event   *)
(* goes on from a status without one, wherever requests interleave or      *)
(* fail: the event is committed first.                                     *)
THEOREM ChangesHaveEvents == RecordsSpec => []TrailHasNoGaps
<1>1. RecordsInv => TrailHasNoGaps
    BY DEF RecordsInv, RowOK, EventOK, TrailHasNoGaps
<1> QED
    BY <1>1, RecordsInvariant, PTL

(* A row breaks its table of transitions only by a write whose check was   *)
(* made before another write.                                              *)
THEOREM TableBrokenByStaleWrites == RecordsSpec => OnlyStaleWritesBreakTheTable
<1> DEFINE Kept == \A i \in DOMAIN row :
        row'[i].status # row[i].status =>
            \/ row'[i].status \in Allowed(row[i].kind, row[i].status)
            \/ \E c \in Callers :
                /\ caller[c].at = "commit" /\ caller[c].id = i
                /\ caller[c].to = row'[i].status /\ caller'[c].at # "commit"
                /\ caller[c].from # row[i].status
<1>1. RecordsInv /\ [RNext]_rvars => [Kept]_row
    <2> SUFFICES ASSUME RecordsInv, [RNext]_rvars, NEW i \in DOMAIN row,
                        row'[i].status # row[i].status
                 PROVE  \/ row'[i].status \in Allowed(row[i].kind, row[i].status)
                        \/ \E c \in Callers :
                            /\ caller[c].at = "commit" /\ caller[c].id = i
                            /\ caller[c].to = row'[i].status /\ caller'[c].at # "commit"
                            /\ caller[c].from # row[i].status
        OBVIOUS
    <2>1. row \in Seq(RowType) /\ i \in 1..Len(row) /\ row[i] \in RowType
        BY DEF RecordsInv
    <2>2. CASE \E kind, rule : New(kind, rule)
        BY <2>1, <2>2 DEF New
    <2>3. ASSUME NEW c \in Callers, DeleteTask(c) PROVE FALSE
        BY <2>1, <2>3 DEF DeleteTask, RowType
    <2>4. ASSUME NEW c \in Callers, Commit(c)
          PROVE  \/ row'[i].status \in Allowed(row[i].kind, row[i].status)
                 \/ /\ caller[c].at = "commit" /\ caller[c].id = i
                    /\ caller[c].to = row'[i].status /\ caller'[c].at # "commit"
                    /\ caller[c].from # row[i].status
        <3>1. /\ caller[c].at = "commit" /\ caller[c].id \in 1..Len(row)
              /\ caller[c].to \in Allowed(row[caller[c].id].kind, caller[c].from)
              /\ row' = [row EXCEPT ![caller[c].id].status = caller[c].to]
            BY <2>4 DEF Commit, RecordsInv, WriteOK
        <3>2. caller[c].id = i
            BY <2>1, <3>1
        <3>3. row'[i].status = caller[c].to
            BY <2>1, <3>1, <3>2 DEF RowType
        <3>4. caller'[c].at # "commit"
            <4>1. caller'[c] = After(c)
                BY <2>4 DEF Commit, RecordsInv
            <4> QED
                BY <4>1 DEF After, Passed, Free
        <3> QED
            BY <3>1, <3>2, <3>3, <3>4
    <2>5. CASE row' = row
        BY <2>5
    <2> QED
        BY <2>2, <2>3, <2>4, <2>5
           DEF RNext, rvars, CreateFinding, CreateTask, Update, LogEvent, Upsert, OpenFinding,
               ResolveFinding, LeaveFinding, Finish, Break
<1> QED
    BY <1>1, RecordsInvariant, PTL DEF RecordsSpec, OnlyStaleWritesBreakTheTable

(* An evaluation does not move past a rule that fails without a finding    *)
(* about it that is not closed, or was not when it was read.               *)
THEOREM FailingRulesAreTracked == RecordsSpec => FailuresAreTracked
<1> DEFINE Held == \A c \in Callers :
        At(c) /\ ResultOf(c) = "failed" /\ caller'[c].next = caller[c].next + 1 =>
            \E i \in DOMAIN row' :
                /\ row'[i].kind = "finding" /\ row'[i].rule = caller[c].next
                /\ \/ row'[i].status # "closed"
                   \/ Seen(c).id = i /\ Seen(c).status # "closed"
<1>1. RecordsInv /\ [RNext]_rvars => [Held]_caller
    <2> SUFFICES ASSUME RecordsInv, [RNext]_rvars, caller' # caller, NEW c \in Callers,
                        At(c), ResultOf(c) = "failed",
                        caller'[c].next = caller[c].next + 1
                 PROVE  \E i \in DOMAIN row' :
                            /\ row'[i].kind = "finding" /\ row'[i].rule = caller[c].next
                            /\ \/ row'[i].status # "closed"
                               \/ Seen(c).id = i /\ Seen(c).status # "closed"
        OBVIOUS
    <2>1. /\ caller[c].at = "rules" /\ caller[c].next \in Rules /\ caller[c].next \in Nat
          /\ caller[c].next # 0 /\ caller[c] \in CallerType
          /\ row \in Seq(RowType) /\ caller \in [Callers -> CallerType]
        BY RecordsAssumption DEF At, RecordsInv, Rules
    <2>2. CASE OpenFinding(c)
        <3>1. New("finding", caller[c].next) /\ trail' = trail /\ Initial("finding") = "open"
            BY <2>2 DEF OpenFinding, Initial
        <3>2. /\ row' \in Seq(RowType) /\ Len(row') = Len(row) + 1
              /\ row'[Len(row')].kind = "finding" /\ row'[Len(row')].rule = caller[c].next
              /\ row'[Len(row')].status = "open"
            BY <2>1, <3>1, NewRow
        <3>3. Len(row') \in DOMAIN row'
            BY <2>1, <3>2
        <3> QED
            BY <3>2, <3>3
    <2>3. CASE LeaveFinding(c)
        <3>1. Tracked(Seen(c)) /\ row' = row
            BY <2>3 DEF LeaveFinding
        <3>2. Seen(c).id \in Findings(caller[c].next)
            BY <2>1, <3>1 DEF RecordsInv, ResultOK, Seen, Tracked
        <3> QED
            BY <3>1, <3>2 DEF Findings, IsFinding, Tracked
    <2>4. caller'[c] # caller[c] /\ caller'[c].next # 0
        BY <2>1
    <2>5. ASSUME NEW d \in Callers, d # c,
                 \/ Update(d) \/ LogEvent(d) \/ Commit(d) \/ Upsert(d) \/ OpenFinding(d) \/ ResolveFinding(d)
                 \/ LeaveFinding(d) \/ Finish(d) \/ Break(d)
          PROVE  FALSE
        BY <2>1, <2>4, <2>5
           DEF Update, LogEvent, Commit, Upsert, OpenFinding, ResolveFinding, LeaveFinding, Finish, Break,
               Begun, Writes
    <2>6. ASSUME Finish(c) \/ Break(c) PROVE FALSE
        BY <2>1, <2>4, <2>6 DEF Finish, Break, Free
    <2>7. ASSUME Update(c) \/ LogEvent(c) \/ Commit(c) \/ Upsert(c) \/ ResolveFinding(c) PROVE FALSE
        BY <2>1, <2>7 DEF Update, LogEvent, Commit, Upsert, ResolveFinding, Begun, Writes
    <2> QED
        BY <2>2, <2>3, <2>5, <2>6, <2>7
           DEF RNext, rvars, CreateFinding, CreateTask, DeleteTask
<1> QED
    BY <1>1, RecordsInvariant, PTL DEF RecordsSpec, FailuresAreTracked

(***************************************************************************)
(* Conditions are evaluated part by part.                                  *)
(***************************************************************************)

(* A set of natural numbers that is not empty has a smallest member.  It   *)
(* is what stands for induction over conditions, by their depth.           *)
LEMMA Smallest ==
    ASSUME NEW S \in SUBSET Nat, S # {}
    PROVE  \E n \in S : \A m \in S : n <= m
<1>1. \E n \in S : \A m \in S : ~(<<m, n>> \in OpToRel(<, Nat))
    BY NatLessThanWellFounded, WFMin
<1>2. PICK n \in S : \A m \in S : ~(<<m, n>> \in OpToRel(<, Nat))
    BY <1>1
<1>3. ASSUME NEW m \in S PROVE n <= m
    <2>1. m \in Nat /\ n \in Nat /\ ~(<<m, n>> \in OpToRel(<, Nat))
        BY <1>2
    <2>2. ~(m < n)
        BY <2>1 DEF OpToRel
    <2>3. m \in Nat /\ n \in Nat
        OBVIOUS
    <2> QED
        BY <2>2, <2>3
<1> QED
    BY <1>3

(* No condition nests deeper than some number: there are finitely many.    *)
LEMMA DepthIsBounded == \E n \in Nat : \A c \in Conditions : Depth[c] < n
<1> DEFINE Bounded(S) == \E n \in Nat : \A c \in S : Depth[c] < n
           Sizes == {n \in Nat : \E S \in SUBSET Conditions : Cardinality(S) = n /\ ~Bounded(S)}
<1>1. SUFFICES ASSUME ~Bounded(Conditions) PROVE FALSE
    OBVIOUS
<1>2. Sizes # {}
    BY <1>1, FS_CardinalityType, ConditionsAssumption
<1>3. PICK n \in Sizes : \A m \in Sizes : n <= m
    BY <1>2, Smallest
<1>4. PICK S \in SUBSET Conditions : Cardinality(S) = n /\ ~Bounded(S)
    OBVIOUS
<1>5. IsFiniteSet(S)
    BY FS_Subset, ConditionsAssumption
<1>6. S # {}
    <2>1. \A c \in {} : Depth[c] < 0
        OBVIOUS
    <2> QED
        BY <1>4, <2>1
<1>7. PICK c \in S : TRUE
    BY <1>6
<1>8. /\ Cardinality(S \ {c}) = n - 1 /\ n - 1 \in Nat
    <2>1. IsFiniteSet(S \ {c}) /\ Cardinality(S \ {c}) = Cardinality(S) - 1
        BY <1>5, <1>7, FS_RemoveElement
    <2> HIDE DEF Bounded
    <2> QED
        BY <1>4, <2>1, FS_CardinalityType
<1>9. Bounded(S \ {c})
    <2>1. n \in Nat /\ ~(n <= n - 1)
        OBVIOUS
    <2>2. n - 1 \notin Sizes
        BY <1>3, <2>1
    <2> HIDE DEF Bounded
    <2> QED
        BY <1>8, <2>2
<1>10. PICK m \in Nat : \A d \in S \ {c} : Depth[d] < m
    BY <1>9
<1>11. Depth[c] \in Nat /\ \A d \in S : Depth[d] \in Nat
    BY <1>7, ConditionsAssumption
<1>12. m + Depth[c] + 1 \in Nat /\ \A d \in S : Depth[d] < m + Depth[c] + 1
    BY <1>10, <1>11
<1> QED
    BY <1>4, <1>12

(* The value of a condition depends on the values of its parts alone.      *)
LEMMA JudgeLooksAtParts ==
    ASSUME NEW facts, NEW v, NEW w, NEW c \in Conditions,
           \A d \in PartsOf(c) : v[d] = w[d]
    PROVE  Judge(c, v, facts) = Judge(c, w, facts)
<1>1. CASE c.op = "not"
    <2>1. v[c.condition] = w[c.condition]
        BY <1>1 DEF PartsOf
    <2> QED
        BY <1>1, <2>1 DEF Judge
<1>2. {v[d] : d \in PartsOf(c)} = {w[d] : d \in PartsOf(c)}
    OBVIOUS
<1>3. CASE c.op # "not"
    BY <1>2, <1>3 DEF Judge
<1> QED
    BY <1>1, <1>3

(* Evaluation is well defined: every condition has the value its parts     *)
(* give it.                                                                *)
THEOREM EvaluateIsJudged ==
    ASSUME NEW facts
    PROVE  Evaluate(facts) = [c \in Conditions |-> Judge(c, Evaluate(facts), facts)]
<1> DEFINE Level(n) == {c \in Conditions : Depth[c] < n}
           Judged(n, v) == v = [c \in Level(n) |-> Judge(c, v, facts)]
           Stuck == {n \in Nat : ~ \E v : Judged(n, v)}
<1>1. Stuck = {}
    <2> SUFFICES ASSUME Stuck # {} PROVE FALSE
        OBVIOUS
    <2>1. PICK n \in Stuck : \A m \in Stuck : n <= m
        BY Smallest
    <2>2. CASE n = 0
        <3>1. Level(0) = {}
            BY ConditionsAssumption
        <3>2. Judged(0, [c \in {} |-> U])
            BY <3>1
        <3> QED
            BY <2>1, <2>2, <3>2
    <2>3. CASE n # 0
        <3>1. n - 1 \in Nat /\ ~(n <= n - 1)
            BY <2>3
        <3>2. n - 1 \notin Stuck
            BY <2>1, <3>1
        <3>3. PICK v : Judged(n - 1, v)
            BY <3>1, <3>2
        <3> DEFINE w == [c \in Level(n) |-> Judge(c, v, facts)]
        <3>4. \A c \in Level(n - 1) : c \in Level(n) /\ w[c] = v[c]
            BY <3>1, <3>3, ConditionsAssumption
        <3>5. \A c \in Level(n) : \A d \in PartsOf(c) : d \in Level(n - 1)
            BY <3>1, ConditionsAssumption
        <3>6. \A c \in Level(n) : Judge(c, w, facts) = Judge(c, v, facts)
            BY <3>4, <3>5, JudgeLooksAtParts
        <3>7. Judged(n, w)
            BY <3>6
        <3> QED
            BY <2>1, <3>7
    <2> QED
        BY <2>2, <2>3
<1>2. PICK n \in Nat : Level(n) = Conditions
    BY DepthIsBounded
<1>3. \E v : v = [c \in Conditions |-> Judge(c, v, facts)]
    <2>1. PICK v : Judged(n, v)
        BY <1>1
    <2> QED
        BY <1>2, <2>1
<1> QED
    BY <1>3 DEF Evaluate

(***************************************************************************)
(* Learning settles what was open.                                         *)
(***************************************************************************)

(* All that is known on f is as it is on g. *)
KnownOn(f, g) == \A p \in Paths : f[p] \notin {Absent, NotSure} => g[p] = f[p]

Settles(before, later) == before # U => later = before

(* Every operator that compares or connects keeps a value once its parts   *)
(* do: an unknown part is passed over only where another part decides.     *)
LEMMA JudgeSettles ==
    ASSUME NEW f, NEW g, KnownOn(f, g), NEW v, NEW w,
           NEW c \in Conditions, c.op \notin {"exists", "not_exists"},
           \A d \in PartsOf(c) : Settles(v[d], w[d])
    PROVE  Settles(Judge(c, v, f), Judge(c, w, g))
<1>1. CASE c.op = "not"
    <2>1. Settles(v[c.condition], w[c.condition])
        BY <1>1 DEF PartsOf
    <2> QED
        BY <1>1, <2>1 DEF Judge, Not, Settles
<1> DEFINE before == {v[d] : d \in PartsOf(c)}
           later == {w[d] : d \in PartsOf(c)}
<1>2. (U \notin before => later = before) /\ \A x \in before : x # U => x \in later
    BY DEF Settles
<1>3. CASE c.op = "and"
    <2>1. Judge(c, v, f) = AllOf(before) /\ Judge(c, w, g) = AllOf(later)
        BY <1>3 DEF Judge
    <2> HIDE DEF before, later
    <2> QED
        BY <1>2, <2>1 DEF AllOf, Settles, T, F, U
<1>4. CASE c.op = "or"
    <2>1. Judge(c, v, f) = AnyOf(before) /\ Judge(c, w, g) = AnyOf(later)
        BY <1>4 DEF Judge
    <2> HIDE DEF before, later
    <2> QED
        BY <1>2, <2>1 DEF AnyOf, Settles, T, F, U
<1>5. CASE c.op \notin {"not", "and", "or"}
    <2>1. c.path \in Paths
        BY <1>5, AssessmentAssumption
    <2>2. Judge(c, v, f) = CompareFact(c, f) /\ Judge(c, w, g) = CompareFact(c, g)
        BY <1>5 DEF Judge
    <2>3. CASE f[c.path] \in {Absent, NotSure}
        BY <2>2, <2>3 DEF CompareFact, Settles
    <2>4. CASE f[c.path] \notin {Absent, NotSure}
        <3>1. g[c.path] = f[c.path]
            BY <2>1, <2>4 DEF KnownOn
        <3> QED
            BY <2>2, <3>1 DEF CompareFact, Settles
    <2> QED
        BY <2>3, <2>4
<1> QED
    BY <1>1, <1>3, <1>4, <1>5

(* The parts of a condition that compares do so as well.                   *)
LEMMA ComparingParts ==
    ASSUME NEW c \in Comparing
    PROVE  c \in Conditions /\ c.op \notin {"exists", "not_exists"}
           /\ PartsOf(c) \subseteq Comparing
<1>1. PICK S \in SUBSET Conditions :
        /\ c \in S
        /\ \A d \in S : d.op \notin {"exists", "not_exists"} /\ PartsOf(d) \subseteq S
    BY DEF Comparing
<1>2. S \subseteq Comparing
    BY <1>1 DEF Comparing
<1> QED
    BY <1>1, <1>2

(* A condition of any depth that compares keeps its value on more facts.   *)
THEOREM ComparisonsSettle ==
    ASSUME NEW f, NEW g, KnownOn(f, g), NEW c \in Comparing
    PROVE  Settles(Value(c, f), Value(c, g))
<1> DEFINE Fails(d) == ~Settles(Value(d, f), Value(d, g))
           Depths == {n \in Nat : \E d \in Comparing : Depth[d] = n /\ Fails(d)}
<1>1. SUFFICES ASSUME Fails(c) PROVE FALSE
    OBVIOUS
<1>2. Depths # {}
    BY <1>1, ComparingParts, ConditionsAssumption
<1>3. PICK n \in Depths : \A m \in Depths : n <= m
    BY <1>2, Smallest
<1>4. PICK d \in Comparing : Depth[d] = n /\ Fails(d)
    OBVIOUS
<1>5. /\ d \in Conditions /\ d.op \notin {"exists", "not_exists"}
      /\ PartsOf(d) \subseteq Comparing
    BY ComparingParts
<1>6. ASSUME NEW part \in PartsOf(d) PROVE Settles(Value(part, f), Value(part, g))
    <2>1. Depth[part] \in Nat /\ Depth[part] < n /\ part \in Comparing
        BY <1>4, <1>5, ConditionsAssumption
    <2>2. Depth[part] \notin Depths
        BY <1>3, <2>1
    <2> QED
        BY <2>1, <2>2
<1>7. Settles(Judge(d, Evaluate(f), f), Judge(d, Evaluate(g), g))
    BY <1>5, <1>6, JudgeSettles DEF Value
<1>8. Value(d, f) = Judge(d, Evaluate(f), f) /\ Value(d, g) = Judge(d, Evaluate(g), g)
    <2>1. Evaluate(f)[d] = Judge(d, Evaluate(f), f)
        BY <1>5, EvaluateIsJudged, Zenon
    <2>2. Evaluate(g)[d] = Judge(d, Evaluate(g), g)
        BY <1>5, EvaluateIsJudged, Zenon
    <2> QED
        BY <2>1, <2>2 DEF Value
<1> QED
    BY <1>4, <1>7, <1>8

(* So does a rule whose conditions compare: the verdict it has reached on  *)
(* less is its verdict on more.                                            *)
LEMMA VerdictSettles ==
    ASSUME NEW f, NEW g, KnownOn(f, g), NEW rule \in RulePack, NEW a, NEW active,
           {rule.check} \cup ToSet(rule.applies) \subseteq Comparing,
           Verdict(rule, f, a, active) # "UNKNOWN"
    PROVE  Verdict(rule, g, a, active) = Verdict(rule, f, a, active)
<1>1. Settles(Applies(rule, f), Applies(rule, g))
    <2>1. CASE rule.applies = <<>>
        BY <2>1 DEF Applies, Settles
    <2>2. CASE rule.applies # <<>>
        <3>1. PICK c \in Conditions : rule.applies = <<c>>
            BY <2>2, AssessmentAssumption
        <3>2. ToSet(rule.applies) = {c} /\ rule.applies[1] = c
            BY <3>1 DEF ToSet
        <3>3. rule.applies[1] \in Comparing
            BY <3>2
        <3> QED
            BY <2>2, <3>3, ComparisonsSettle DEF Applies
    <2> QED
        BY <2>1, <2>2
<1>2. Settles(Met(rule, f, a), Met(rule, g, a))
    BY ComparisonsSettle DEF Met, Settles
<1> QED
    BY <1>1, <1>2 DEF Verdict, Settles, T, F, U

(***************************************************************************)
(* The rows that are judged.                                               *)
(***************************************************************************)

(* A customer starts with no facts, no answers and no evidence.            *)
LEMMA AssessmentInit == AInit => AssessmentTypeOK
<1> SUFFICES ASSUME AInit PROVE AssessmentTypeOK
    OBVIOUS
<1>1. NoProof \in [control : Controls \cup {NoControl}, recent : BOOLEAN]
    BY DEF NoProof
<1> QED
    BY <1>1 DEF AInit, AssessmentTypeOK

(* Evidence is only linked to a control that has a row, and the row stays. *)
LEMMA AssessmentNext == AssessmentTypeOK /\ [ANext]_avars => AssessmentTypeOK'
<1> SUFFICES ASSUME AssessmentTypeOK, [ANext]_avars PROVE AssessmentTypeOK'
    OBVIOUS
<1> DEFINE Proof == [control : Controls \cup {NoControl}, recent : BOOLEAN]
<1>1. /\ fact \in [Paths -> Values \cup {Absent}]
      /\ answer \in [Controls -> Answers \cup {NoAnswer}]
      /\ proof \in [Proofs -> Proof]
      /\ \A e \in Proofs : proof[e] # NoProof => HasControl(proof[e].control)
    BY DEF AssessmentTypeOK
<1>2. ASSUME UNCHANGED <<answer, proof>>, fact' \in [Paths -> Values \cup {Absent}]
      PROVE  AssessmentTypeOK'
    BY <1>1, <1>2 DEF AssessmentTypeOK, HasControl
<1>3. ASSUME NEW k \in Controls, NEW a \in Answers,
             answer' = [answer EXCEPT ![k] = a], UNCHANGED <<fact, proof>>
      PROVE  AssessmentTypeOK'
    <2>1. answer' \in [Controls -> Answers \cup {NoAnswer}]
        BY <1>1, <1>3
    <2>2. \A j \in Controls : HasControl(j) => answer'[j] # NoAnswer
        BY <1>1, <1>3, AssessmentAssumption DEF HasControl
    <2> QED
        BY <1>1, <1>3, <2>1, <2>2 DEF AssessmentTypeOK, HasControl
<1>4. ASSUME NEW e \in Proofs, NEW new \in Proof, new # NoProof => HasControl(new.control),
             proof' = [proof EXCEPT ![e] = new], UNCHANGED <<fact, answer>>
      PROVE  AssessmentTypeOK'
    <2>1. proof' \in [Proofs -> Proof]
        BY <1>1, <1>4
    <2>2. ASSUME NEW d \in Proofs, proof'[d] # NoProof PROVE HasControl(proof'[d].control)
        BY <1>1, <1>4, <2>2
    <2> HIDE DEF Proof
    <2>3. \A d \in Proofs : (proof[d] # NoProof => HasControl(proof[d].control))'
        BY <1>4, <2>2 DEF HasControl
    <2> QED
        BY <1>1, <1>4, <2>1, <2>3 DEF AssessmentTypeOK, Proof, NoProof
<1>5. CASE SetFact
    BY <1>1, <1>2, <1>5 DEF SetFact
<1>6. CASE create_control \/ update_control
    BY <1>3, <1>6 DEF create_control, update_control
<1>7. CASE create_evidence \/ update_evidence
    <2>1. PICK e \in Proofs, k \in Controls :
            /\ HasControl(k) /\ UNCHANGED <<fact, answer>>
            /\ proof' = [proof EXCEPT ![e] = [control |-> k, recent |-> TRUE]]
        BY <1>7 DEF create_evidence, update_evidence
    <2> QED
        BY <1>4, <2>1
<1>8. CASE delete_evidence
    <2>1. NoProof \in Proof
        BY DEF NoProof
    <2> HIDE DEF Proof
    <2> QED
        BY <1>4, <1>8, <2>1 DEF delete_evidence
<1>9. CASE Ages
    <2>1. PICK e \in Proofs :
            /\ proof[e].recent /\ proof' = [proof EXCEPT ![e].recent = FALSE]
            /\ UNCHANGED <<fact, answer>>
        BY <1>9 DEF Ages
    <2> DEFINE aged == [proof[e] EXCEPT !.recent = FALSE]
    <2>2. proof[e] \in Proof /\ proof[e] # NoProof
        BY <1>1, <2>1 DEF NoProof
    <2>3. aged \in Proof /\ aged.control = proof[e].control
        BY <2>2
    <2>4. HasControl(aged.control)
        BY <1>1, <2>2, <2>3
    <2>5. proof' = [proof EXCEPT ![e] = aged]
        BY <1>1, <2>1
    <2> HIDE DEF aged, Proof
    <2> QED
        BY <1>4, <2>1, <2>3, <2>4, <2>5
<1>10. CASE UNCHANGED avars
    BY <1>10 DEF avars, AssessmentTypeOK, HasControl
<1> HIDE DEF Proof
<1> QED
    BY <1>5, <1>6, <1>7, <1>8, <1>9, <1>10 DEF ANext

(* Evidence never refers to a control that is gone.                        *)
THEOREM AssessmentTypes == AssessmentSpec => []AssessmentTypeOK
    BY AssessmentInit, AssessmentNext, PTL DEF AssessmentSpec

(* Learning a fact overturns no verdict, whatever the rules: of any depth, *)
(* over any number of facts, on any answer and evidence.                   *)
THEOREM VerdictsAreNotOverturned == AssessmentSpec => LearningOverturnsNothing
<1>1. ASSUME AssessmentTypeOK, ANext, Learns, NEW rule \in RulePack,
             State(rule) # "UNKNOWN",
             {rule.check} \cup ToSet(rule.applies) \subseteq Comparing
      PROVE  State(rule)' = State(rule)
    <2>1. PICK p \in Unknown : fact' = [fact EXCEPT ![p] = fact'[p]] /\ p \notin (Unknown')
        BY <1>1 DEF Learns
    <2>2. fact \in [Paths -> Values \cup {Absent}]
        BY <1>1 DEF AssessmentTypeOK
    <2>3. fact' # fact
        BY <2>1 DEF Unknown
    <2>4. UNCHANGED <<answer, proof>>
        BY <1>1, <2>3 DEF ANext, SetFact, create_control, update_control, create_evidence,
                          update_evidence, delete_evidence, Ages
    <2>5. KnownOn(fact, fact')
        BY <2>1, <2>2 DEF KnownOn, Unknown
    <2>6. AnswerOf(rule.control)' = AnswerOf(rule.control)
          /\ Active(rule.control)' = Active(rule.control)
        BY <2>4 DEF AnswerOf, Active
    <2> QED
        BY <1>1, <2>5, <2>6, VerdictSettles DEF State
<1>2. AssessmentTypeOK /\ [ANext]_avars =>
        [Learns => \A rule \in RulePack :
            /\ State(rule) # "UNKNOWN"
            /\ {rule.check} \cup ToSet(rule.applies) \subseteq Comparing
            => State(rule)' = State(rule)]_fact
    BY <1>1 DEF avars
<1> QED
    BY <1>2, AssessmentTypes, PTL DEF AssessmentSpec, LearningOverturnsNothing

(***************************************************************************)
(* The three parts together.                                               *)
(***************************************************************************)

(* The three together are each of them, whatever the others do: their rows *)
(* refer to controls, findings and versions that exist.                    *)
THEOREM AuditTypes == Spec => AssessmentSpec /\ RecordsSpec /\ VersionsSpec /\ []TypeOK
<1>1. Init => AInit /\ RInit /\ VInit
    BY DEF Init
<1>2. [Next]_vars => [ANext]_avars /\ [RNext]_rvars /\ [VNext]_vvars
    BY DEF Next, AssessmentMoves, RecordsMove, VersionsMove, vars
<1>3. AssessmentTypeOK /\ RecordsTypeOK /\ VersionsTypeOK => TypeOK
    BY DEF TypeOK
<1> QED
    BY <1>1, <1>2, <1>3, AssessmentTypes, RecordsTypes, VersionsTypes, PTL
       DEF Spec, AssessmentSpec, RecordsSpec, VersionsSpec
=============================================================================
