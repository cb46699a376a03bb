------------------------------ MODULE MCRecords ------------------------------
(* Instance of the three parts of audit/service.py that keep a customer's  *)
(* compliance records.  They share no row, so a behaviour of this instance *)
(* is one of one of them, and the others stand still.                      *)
EXTENDS AuditRecords, TLC

CONSTANTS
    c1, c2,          \* callers
    e1, e2,          \* editors
    ann, bob,        \* actors
    draft, rewrite,  \* contents
    p1, p2,          \* paths
    k1, k2,          \* controls
    proof1           \* evidence

VARIABLE part        \* the part that moves

Eq(p, v) == [op |-> "eq", path |-> p, value |-> v]
AtLeast(p, v) == [op |-> "gte", path |-> p, value |-> v]

MCPack == {
    [applies |-> <<>>, control |-> k1, evidence |-> TRUE,
     check |-> [op |-> "and", conditions |-> <<AtLeast(p1, 1), [op |-> "not", condition |-> Eq(p2, 1)]>>]],
    [applies |-> <<[op |-> "or", conditions |-> <<Eq(p1, 1), Eq(p2, 0)>>]>>,
     control |-> NoControl, evidence |-> FALSE,
     check |-> [op |-> "in", path |-> p2, value |-> {0, 1}]],
    [applies |-> <<[op |-> "exists", path |-> p1]>>, control |-> k2, evidence |-> FALSE,
     check |-> [op |-> "ne", path |-> p1, value |-> 0]]}

(* Two levels below what the rules name, and how deep each of them nests.  *)
MCConditions ==
    LET top == UNION {{rule.check} \cup ToSet(rule.applies) : rule \in MCPack}
        below(S) == S \cup UNION {PartsOf(c) : c \in S}
    IN  below(below(top))

MCDepth ==
    LET leaf(c) == PartsOf(c) = {}
    IN  [c \in MCConditions |->
           IF leaf(c) THEN 0 ELSE IF \A d \in PartsOf(c) : leaf(d) THEN 1 ELSE 2]

(* The first text may as well be the draft: the two are interchangeable. *)
MCInit ==
    /\ Init
    /\ version[1].content = draft
    /\ part \in {"assessment", "records", "versions"}

MCNext ==
    /\ UNCHANGED part
    /\ \/ part = "assessment" /\ AssessmentMoves
       \/ part = "records" /\ RecordsMove
       \/ part = "versions" /\ VersionsMove

MCSpec == MCInit /\ [][MCNext]_<<vars, part>>

Symmetry == Permutations({c1, c2}) \cup Permutations({e1, e2})
=============================================================================
