--------------------------- MODULE SourceDocuments ---------------------------
(***************************************************************************)
(* The source documents of one book (creator/service.py): an upload writes *)
(* its file, reads the latest version, stamps the new row with the clock   *)
(* and commits it.  The document that is worked on is the one stamped      *)
(* last, whatever its version.                                             *)
(***************************************************************************)
EXTENDS Integers, FiniteSets, FiniteSetsExt

CONSTANTS
    Uploads,         \* upload requests that may run at the same time
    MaxDocuments     \* bound: uploads ever begun

ASSUME DocumentsAssumption == MaxDocuments \in Nat

VARIABLES
    document,   \* the committed rows: version and created_at
    onDisk,     \* uploads whose file was written
    upload,     \* what each upload is doing
    clock,      \* the next created_at
    overlapped  \* history: an upload read the version while another was under way

dvars == <<document, onDisk, upload, clock, overlapped>>

Waiting == [at |-> "waiting", version |-> 0, created |-> 0]

DInit ==
    /\ document = {}
    /\ onDisk = 0
    /\ upload = [u \in Uploads |-> Waiting]
    /\ clock = 1
    /\ overlapped = FALSE

Versions == {d.version : d \in document}
Latest == CHOOSE d \in document : \A other \in document : other.created <= d.created

(* A file with a suffix the service takes; the others are refused before. *)
WriteFile(u) ==
    /\ upload[u].at = "waiting" /\ onDisk < MaxDocuments
    /\ onDisk' = onDisk + 1
    /\ upload' = [upload EXCEPT ![u].at = "written"]
    /\ UNCHANGED <<document, clock, overlapped>>

NextAfterOldest == IF Versions = {} THEN 1 ELSE Min(Versions) + 1

NextVersion == IF Versions = {} THEN 1 ELSE Max(Versions) + 1

ReadVersion(u) ==
    /\ upload[u].at = "written"
    /\ upload' = [upload EXCEPT ![u].at = "read", ![u].version = NextVersion]
    /\ overlapped' = (overlapped \/ \E v \in Uploads : upload[v].at \in {"read", "stamped"})
    /\ UNCHANGED <<document, onDisk, clock>>

StampCoarsely(u) ==
    /\ upload[u].at = "read"
    /\ upload' = [upload EXCEPT ![u].at = "stamped", ![u].created = clock]
    /\ UNCHANGED <<document, onDisk, clock, overlapped>>

(* created_at is the time the row object is made, not its commit. *)
Stamp(u) ==
    /\ upload[u].at = "read"
    /\ upload' = [upload EXCEPT ![u].at = "stamped", ![u].created = clock]
    /\ clock' = clock + 1
    /\ UNCHANGED <<document, onDisk, overlapped>>

CommitDocument(u) ==
    /\ upload[u].at = "stamped"
    /\ document' = document \cup {[version |-> upload[u].version, created |-> upload[u].created]}
    /\ upload' = [upload EXCEPT ![u] = Waiting]
    /\ UNCHANGED <<onDisk, clock, overlapped>>

(* The file stays, whatever becomes of its row. *)
LoseUpload(u) ==
    /\ upload[u].at # "waiting"
    /\ upload' = [upload EXCEPT ![u] = Waiting]
    /\ UNCHANGED <<document, onDisk, clock, overlapped>>

DNext ==
    \E u \in Uploads :
        WriteFile(u) \/ ReadVersion(u) \/ Stamp(u) \/ CommitDocument(u) \/ LoseUpload(u)

DocumentsSpec == DInit /\ [][DNext]_dvars

(***************************************************************************)
(* Properties.                                                             *)
(***************************************************************************)

(* Every row has its file, and two rows never share a time stamp. *)
DocumentsTypeOK ==
    /\ document \subseteq [version : 1..MaxDocuments, created : 1..(clock - 1)]
    /\ Cardinality(document) + Cardinality({u \in Uploads : upload[u].at # "waiting"}) <= onDisk
    /\ Cardinality({d.created : d \in document}) = Cardinality(document)
    /\ onDisk \in 0..MaxDocuments
    /\ overlapped \in BOOLEAN

(* Generation and packages work on the document of the highest version,    *)
(* and no other document shares it, unless an upload read the version      *)
(* while another was under way: latest_document goes by created_at, which  *)
(* says nothing of versions by itself (creator/service.py:417, :451).      *)
LatestIsHighestVersion ==
    overlapped \/ document = {} \/
        \A d \in document \ {Latest} : d.version < Latest.version
=============================================================================
