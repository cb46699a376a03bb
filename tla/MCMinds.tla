------------------------------- MODULE MCMinds -------------------------------
(* Constants for TLC: turns for one Mind on an alias that may belong to another. *)
EXTENDS MindsChat

CONSTANTS chat, make, again, mara, other

MCTurns == {chat, make, again}
MCMinds == {mara, other}
MCKindOf == [t \in MCTurns |-> IF t = make THEN "generate" ELSE "message"]
MCMindOf == [t \in MCTurns |-> mara]

=============================================================================
