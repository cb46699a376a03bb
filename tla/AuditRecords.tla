----------------------------- MODULE AuditRecords -----------------------------
(***************************************************************************)
(* The three parts of audit/service.py that keep a customer's compliance   *)
(* records side by side: what is judged, the findings and tasks that come  *)
(* of it, and the documents.  A result reaches the findings through a      *)
(* caller outside src, so they share no row: each transaction is of one    *)
(* part and leaves the others alone.                                       *)
(***************************************************************************)
EXTENDS Assessment, Records, DocVersions

vars == <<avars, rvars, vvars>>

Init == AInit /\ RInit /\ VInit

AssessmentMoves == ANext /\ UNCHANGED <<rvars, vvars>>
RecordsMove == RNext /\ UNCHANGED <<avars, vvars>>
VersionsMove == VNext /\ UNCHANGED <<avars, rvars>>

Next == AssessmentMoves \/ RecordsMove \/ VersionsMove

Spec == Init /\ [][Next]_vars

(* The rows refer to controls, findings and versions that exist, and hold  *)
(* statuses of their tables.                                               *)
TypeOK == AssessmentTypeOK /\ RecordsTypeOK /\ VersionsTypeOK
=============================================================================
