----------------------------- MODULE PolicyEngine -----------------------------
(***************************************************************************)
(* policy/engine.py as pure operators: conditions in the rule language,    *)
(* evaluated in three truth values, and the state a rule ends in.          *)
(*                                                                         *)
(* The facts a context holds are a function from paths to values.  A rule  *)
(* pack is read from a file, so there are finitely many conditions, and    *)
(* they nest to some depth.  The rest of a result (text, severity, source  *)
(* fields) is copied through.                                              *)
(***************************************************************************)
EXTENDS Integers, FiniteSets, SequencesExt

CONSTANTS
    Absent,     \* the path does not lead to a value
    Empty,      \* an empty text at the end of the path
    NotSure,    \* the answer "not_sure"
    NoAnswer,   \* no answer is recorded for the control
    Conditions, \* the conditions of a rule pack, and the conditions in them
    Depth       \* how deep each of them nests

(* The conditions that are evaluated for the sake of this one.             *)
PartsOf(c) ==
    CASE c.op = "not" -> {c.condition}
      [] c.op \in {"and", "or"} -> ToSet(c.conditions)
      [] OTHER -> {}

ASSUME ConditionsAssumption ==
    /\ IsFiniteSet(Conditions) /\ Depth \in [Conditions -> Nat]
    /\ \A c \in Conditions : \A d \in PartsOf(c) : d \in Conditions /\ Depth[d] < Depth[c]

T == "true"
F == "false"
U == "unknown"

Truth(b) == IF b THEN T ELSE F

States == {"PASS", "PARTIAL", "FAIL", "UNKNOWN", "NOT_APPLICABLE"}
Failing == {"FAIL", "PARTIAL"}

Compare(op, left, value) ==
    CASE op = "eq"  -> left = value
      [] op = "ne"  -> left # value
      [] op = "gt"  -> left > value
      [] op = "gte" -> left >= value
      [] op = "lt"  -> left < value
      [] op = "lte" -> left <= value
      [] op = "in"  -> left \in value
      [] op = "contains" -> value \in left

CompareFact(c, fact) ==
    IF fact[c.path] \in {Absent, NotSure} THEN U
    ELSE Truth(Compare(c.op, fact[c.path], c.value))

AllKnown(values) == IF F \in values THEN F ELSE T

(* The first false child settles "and", the first true one "or"; unknown   *)
(* children only matter when none does.                                    *)
AllOf(values) == IF F \in values THEN F ELSE IF U \in values THEN U ELSE T
AnyOf(values) == IF T \in values THEN T ELSE IF U \in values THEN U ELSE F

Not(value) == IF value = U THEN U ELSE Truth(value # T)

(* The value of a condition, given those of its parts. *)
Judge(c, value, fact) ==
    CASE c.op = "exists"     -> Truth(fact[c.path] \notin {Absent, Empty})
      [] c.op = "not_exists" -> Truth(fact[c.path] \in {Absent, Empty})
      [] c.op = "not"        -> Not(value[c.condition])
      [] c.op = "and"        -> AllOf({value[d] : d \in PartsOf(c)})
      [] c.op = "or"         -> AnyOf({value[d] : d \in PartsOf(c)})
      [] OTHER               -> CompareFact(c, fact)

Evaluate(fact) ==
    LET value[c \in Conditions] == Judge(c, value, fact) IN value

Value(c, fact) == Evaluate(fact)[c]

(* The conditions that compare values and nowhere ask whether a path       *)
(* exists; one that asks knows the answer when the path is absent.         *)
Comparing ==
    UNION {S \in SUBSET Conditions :
             \A c \in S : c.op \notin {"exists", "not_exists"} /\ PartsOf(c) \subseteq S}

Applies(rule, fact) ==
    IF rule.applies = <<>> THEN T ELSE Value(rule.applies[1], fact)

(* A recorded answer drives the state; only without one is the check read. *)
Met(rule, fact, answer) ==
    CASE answer = NoAnswer -> Value(rule.check, fact)
      [] answer \in {"unanswered", NotSure} -> U
      [] answer = "no" -> F
      [] OTHER -> T

(* The state of a rule whose control has this answer and evidence no older *)
(* than a year when `active`.                                              *)
Verdict(rule, fact, answer, active) ==
    CASE Applies(rule, fact) = U -> "UNKNOWN"
      [] Applies(rule, fact) = F -> "NOT_APPLICABLE"
      [] Applies(rule, fact) = T /\ Met(rule, fact, answer) = U -> "UNKNOWN"
      [] Applies(rule, fact) = T /\ Met(rule, fact, answer) = F -> "FAIL"
      [] OTHER -> IF rule.evidence /\ ~active THEN "PARTIAL" ELSE "PASS"
=============================================================================
