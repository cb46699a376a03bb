---------------------------- MODULE MCGovernance ----------------------------
(* Instances of Governance for TLC. *)
EXTENDS Governance, TLC

(* An author who owns the rights, and one who has not said so. *)
MCOwner == [owned |-> TRUE, declared |-> FALSE, strict |-> TRUE, imprint |-> "own"]
MCProfiles == {MCOwner, [MCOwner EXCEPT !.owned = FALSE]}

(* A complete paperback, and one without the ISBN that print needs. *)
MCPaperback == [format |-> "paperback", isbn |-> TRUE, publisher |-> "none"]
MCMetadata == {MCPaperback, [MCPaperback EXCEPT !.isbn = FALSE]}
MCComplete == {MCPaperback}

(* Generations of one type, the second free of the first one's issues. *)
MCKind == [a \in Assets |-> "description"]
MCText == [a \in Assets |-> IF a = 1 THEN {"guarantee"} ELSE {}]

MCSymmetry == Permutations(Requests)
=============================================================================
