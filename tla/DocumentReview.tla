--------------------------- MODULE DocumentReview ---------------------------
(***************************************************************************)
(* What the versions of a document promise when requests take turns: the   *)
(* document is the last version and nothing else.  A review is of what the *)
(* document says, an approval is of what was reviewed and by somebody      *)
(* else, and new text has to be reviewed again.                            *)
(***************************************************************************)
EXTENDS Integers

CONSTANTS
    Actors,
    Contents,
    Nobody     \* no reviewer, no approver

VARIABLE document

Init ==
    \E text \in Contents :
        document = [number |-> 1, status |-> "generated", content |-> text,
                    reviewed |-> Nobody, approved |-> Nobody]

Review(who) ==
    document' = [document EXCEPT !.number = @ + 1, !.status = "reviewed",
                                 !.reviewed = who, !.approved = Nobody]

Approve(who) ==
    /\ document.status = "reviewed" /\ document.reviewed # who
    /\ document' = [document EXCEPT !.number = @ + 1, !.status = "approved", !.approved = who]

Regenerate(text) ==
    document' = [document EXCEPT !.number = @ + 1, !.status = "generated", !.content = text,
                                 !.reviewed = Nobody, !.approved = Nobody]

Next ==
    \/ \E who \in Actors : Review(who) \/ Approve(who)
    \/ \E text \in Contents : Regenerate(text)

Spec == Init /\ [][Next]_document
=============================================================================
