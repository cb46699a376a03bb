----------------------------- MODULE CreatorFiles -----------------------------
(***************************************************************************)
(* The two directories the creator service writes files to: packages and   *)
(* source documents.  They share no row and no file, so each step is of    *)
(* one of them and leaves the other alone.                                 *)
(***************************************************************************)
EXTENDS Publishing, SourceDocuments

vars == <<pvars, dvars>>

Init == PInit /\ DInit

PackagesMove == PNext /\ UNCHANGED dvars
DocumentsMove == DNext /\ UNCHANGED pvars

Next == PackagesMove \/ DocumentsMove

Spec == Init /\ [][Next]_vars

(* A package file has the name of its edition and destination, and every   *)
(* document has a file and a time of its own.                              *)
TypeOK == PublishingTypeOK /\ DocumentsTypeOK
=============================================================================
