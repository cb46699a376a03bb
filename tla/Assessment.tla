------------------------------ MODULE Assessment ------------------------------
(***************************************************************************)
(* What an evaluation of a rule pack reads: the facts of a context, the    *)
(* answers on a customer's controls and the evidence linked to them        *)
(* (audit/service.py), judged by the policy engine.  Building the context  *)
(* from the rows is left to a caller outside src; here it holds the rows   *)
(* as they are.                                                            *)
(*                                                                         *)
(* Names, owners, links and a control's free status are left out: no rule  *)
(* reads them.                                                             *)
(***************************************************************************)
EXTENDS PolicyEngine

CONSTANTS
    Paths,       \* the paths conditions read
    Values,      \* what a path may lead to, NotSure and Empty included
    Controls,    \* control keys
    Proofs,      \* evidence ids
    NoControl,   \* a rule without a control key, evidence not in the table
    RulePack     \* the rules: applies, check, control, evidence (required)

Answers == {"unanswered", "yes", "no", NotSure}

ASSUME AssessmentAssumption ==
    /\ NoAnswer \notin Answers
    /\ \A rule \in RulePack :
        rule.check \in Conditions /\ rule.applies \in {<<>>} \cup {<<c>> : c \in Conditions}
    /\ \A c \in Conditions : c.op \in {"not", "and", "or"} \/ c.path \in Paths

VARIABLES
    fact,      \* context.attributes, by path
    answer,    \* ControlDB.answer by key; NoAnswer before the row exists
    proof      \* EvidenceDB by id: its control, and whether it is within a year

avars == <<fact, answer, proof>>

NoProof == [control |-> NoControl, recent |-> FALSE]

AInit ==
    /\ fact = [p \in Paths |-> Absent]
    /\ answer = [k \in Controls |-> NoAnswer]
    /\ proof = [e \in Proofs |-> NoProof]

HasControl(k) == k \in Controls /\ answer[k] # NoAnswer

SetFact ==
    /\ \E p \in Paths, v \in Values \cup {Absent} : fact' = [fact EXCEPT ![p] = v]
    /\ UNCHANGED <<answer, proof>>

create_control ==
    /\ \E k \in Controls, a \in Answers :
        ~HasControl(k) /\ answer' = [answer EXCEPT ![k] = a]
    /\ UNCHANGED <<fact, proof>>

update_control ==
    /\ \E k \in Controls, a \in Answers :
        HasControl(k) /\ answer' = [answer EXCEPT ![k] = a]
    /\ UNCHANGED <<fact, proof>>

create_orphan_evidence ==
    /\ \E e \in Proofs, k \in Controls :
        /\ proof[e] = NoProof
        /\ proof' = [proof EXCEPT ![e] = [control |-> k, recent |-> TRUE]]
    /\ UNCHANGED <<fact, answer>>

(* The control's id is a foreign key, whoever's control it is. *)
create_evidence ==
    /\ \E e \in Proofs, k \in Controls :
        /\ proof[e] = NoProof /\ HasControl(k)
        /\ proof' = [proof EXCEPT ![e] = [control |-> k, recent |-> TRUE]]
    /\ UNCHANGED <<fact, answer>>

(* Any change makes it recent; it may move to another control. *)
update_evidence ==
    /\ \E e \in Proofs, k \in Controls :
        /\ proof[e] # NoProof /\ HasControl(k)
        /\ proof' = [proof EXCEPT ![e] = [control |-> k, recent |-> TRUE]]
    /\ UNCHANGED <<fact, answer>>

delete_evidence ==
    /\ \E e \in Proofs :
        proof[e] # NoProof /\ proof' = [proof EXCEPT ![e] = NoProof]
    /\ UNCHANGED <<fact, answer>>

(* A year passes since updated_at. *)
Ages ==
    /\ \E e \in Proofs : proof[e].recent /\ proof' = [proof EXCEPT ![e].recent = FALSE]
    /\ UNCHANGED <<fact, answer>>

ANext ==
    \/ SetFact \/ create_control \/ update_control
    \/ create_evidence \/ update_evidence \/ delete_evidence \/ Ages

AssessmentSpec == AInit /\ [][ANext]_avars

Active(k) == \E e \in Proofs : proof[e].recent /\ proof[e].control = k

AnswerOf(k) == IF k \in Controls THEN answer[k] ELSE NoAnswer

State(rule) == Verdict(rule, fact, AnswerOf(rule.control), Active(rule.control))

(***************************************************************************)
(* Properties.                                                             *)
(***************************************************************************)

(* Evidence only points at controls that exist, whose answer is therefore  *)
(* read, and paths lead to values.                                         *)
AssessmentTypeOK ==
    /\ fact \in [Paths -> Values \cup {Absent}]
    /\ answer \in [Controls -> Answers \cup {NoAnswer}]
    /\ proof \in [Proofs -> [control : Controls \cup {NoControl}, recent : BOOLEAN]]
    /\ \A e \in Proofs : proof[e] # NoProof => HasControl(proof[e].control)

Unknown == {p \in Paths : fact[p] \in {Absent, NotSure}}

(* The path p was not known and is now; the rest is as it was. *)
Learns == \E p \in Unknown : fact' = [fact EXCEPT ![p] = fact'[p]] /\ p \notin (Unknown')

(* Learning a fact settles what was open and overturns nothing: a rule     *)
(* that passed, failed or did not apply on less stays as it was, when its  *)
(* conditions compare values and do not ask whether a path exists          *)
(* (policy/engine.py:252-312).                                             *)
LearningOverturnsNothing ==
    [][Learns => \A rule \in RulePack :
        /\ State(rule) # "UNKNOWN"
        /\ {rule.check} \cup ToSet(rule.applies) \subseteq Comparing
        => State(rule)' = State(rule)]_fact
=============================================================================
