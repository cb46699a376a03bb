----------------------------- MODULE DocVersions -----------------------------
(***************************************************************************)
(* Versions of one generated document (audit/service.py): reviewing,       *)
(* approving and regenerating each read the current version, add a version *)
(* in a second transaction, mark the one they read as superseded in a      *)
(* third and log in a fourth.                                              *)
(***************************************************************************)
EXTENDS Integers, Sequences, FiniteSets

CONSTANTS
    Actors,
    Contents,
    Editors,       \* requests that may run at the same time
    Nobody,        \* no reviewer, no approver
    MaxVersions    \* bound: versions ever created

ASSUME VersionsAssumption ==
    /\ Nobody \notin Actors
    /\ MaxVersions \in Nat \ {0}

VARIABLES
    version,   \* the document's rows, in the order they were committed
    editor,    \* what each request is doing
    overlapped, \* history: a request read while another was adding a version
    brokenOff  \* history: a request broke off before it marked the old version

notes == <<overlapped, brokenOff>>
vvars == <<version, editor, notes>>

Away == [at |-> "away", op |-> "review", actor |-> Nobody, of |-> 0, new |-> 0]

VInit ==
    /\ \E text \in Contents :
        version = <<[number |-> 1, status |-> "generated", content |-> text,
                     reviewed |-> Nobody, approved |-> Nobody, from |-> 0,
                     superseded |-> 0]>>
    /\ editor = [e \in Editors |-> Away]
    /\ overlapped = FALSE /\ brokenOff = FALSE

Unsuperseded == {v \in DOMAIN version : version[v].superseded = 0}

IsUnsuperseded(v) == v \in Unsuperseded

(* The unsuperseded version with the highest number; of two that share it, *)
(* whichever the query returns.                                            *)
IsCurrent(v) ==
    v \in Unsuperseded /\ \A w \in Unsuperseded : version[w].number <= version[v].number

AddsFromAnyActor(v, op, actor) ==
    op = "approve" => version[v].status = "reviewed"

AddsFrom(v, op, actor) ==
    op = "approve" => version[v].status = "reviewed" /\ version[v].reviewed # actor

Read(e) ==
    /\ editor[e].at = "away"
    /\ \E v \in DOMAIN version, op \in {"review", "approve", "regenerate"}, who \in Actors :
        /\ IsCurrent(v)
        /\ AddsFrom(v, op, who)
        /\ editor' = [editor EXCEPT ![e] = [at |-> "create", op |-> op, actor |-> who,
                                            of |-> v, new |-> 0]]
    /\ overlapped' = (overlapped \/
                       \E other \in Editors : editor[other].at \in {"create", "supersede"})
    /\ UNCHANGED <<version, brokenOff>>

(* What each of the three adds to the version it read. *)
Reviewed(old, who) ==
    [old EXCEPT !.status = "reviewed", !.reviewed = who, !.approved = Nobody]
Approved(old, who) == [old EXCEPT !.status = "approved", !.approved = who]
Regenerated(old, text) ==
    [old EXCEPT !.status = "generated", !.content = text,
                !.reviewed = Nobody, !.approved = Nobody]

Created(e) ==
    LET old == version[editor[e].of]
        who == editor[e].actor
    IN  CASE editor[e].op = "review"  -> {Reviewed(old, who)}
          [] editor[e].op = "approve" -> {Approved(old, who)}
          [] OTHER -> {Regenerated(old, text) : text \in Contents}

Create(e) ==
    /\ editor[e].at = "create" /\ Len(version) < MaxVersions
    /\ \E new \in Created(e) :
        version' = Append(version, [new EXCEPT !.number = @ + 1, !.superseded = 0,
                                               !.from = editor[e].of])
    /\ editor' = [editor EXCEPT ![e].at = "supersede", ![e].new = Len(version) + 1]
    /\ UNCHANGED notes

SupersedesNothing(e) ==
    /\ editor[e].at = "supersede"
    /\ editor' = [editor EXCEPT ![e].at = "log"]
    /\ UNCHANGED <<version, notes>>

SupersedesAll(e) ==
    /\ editor[e].at = "supersede"
    /\ version' = [v \in DOMAIN version |->
                    [version[v] EXCEPT !.superseded = editor[e].new]]
    /\ editor' = [editor EXCEPT ![e].at = "log"]
    /\ UNCHANGED notes

Supersede(e) ==
    /\ editor[e].at = "supersede"
    /\ version' = [version EXCEPT ![editor[e].of].superseded = editor[e].new]
    /\ editor' = [editor EXCEPT ![e].at = "log"]
    /\ UNCHANGED notes

Log(e) ==
    /\ editor[e].at = "log"
    /\ editor' = [editor EXCEPT ![e] = Away]
    /\ UNCHANGED <<version, notes>>

(* An error or a process that dies between two of the transactions. *)
BreakOff(e) ==
    /\ editor[e].at # "away"
    /\ editor' = [editor EXCEPT ![e] = Away]
    /\ brokenOff' = (brokenOff \/ editor[e].at = "supersede")
    /\ UNCHANGED <<version, overlapped>>

VNext ==
    \E e \in Editors :
        Read(e) \/ Create(e) \/ Supersede(e) \/ Log(e) \/ BreakOff(e)

VersionsSpec == VInit /\ [][VNext]_vvars

(***************************************************************************)
(* Properties.                                                             *)
(***************************************************************************)

(* Versions are numbered from 1 and refer to versions that exist. *)
VersionsTypeOK ==
    /\ Len(version) \in 1..MaxVersions
    /\ \A v \in DOMAIN version :
        /\ version[v].number \in 1..MaxVersions
        /\ version[v].status \in {"generated", "reviewed", "approved"}
        /\ version[v].content \in Contents
        /\ {version[v].reviewed, version[v].approved} \subseteq Actors \cup {Nobody}
        /\ version[v].from \in 0..(v - 1)
        /\ version[v].superseded \in {0} \cup DOMAIN version
    /\ \A e \in Editors :
        /\ editor[e].at \in {"away", "create", "supersede", "log"}
        /\ editor[e].at # "away" => editor[e].of \in DOMAIN version
        /\ editor[e].at \in {"supersede", "log"} => editor[e].new \in DOMAIN version
    /\ {overlapped, brokenOff} \subseteq BOOLEAN

(* An approved version carries the text its reviewer saw, and was reviewed *)
(* by someone other than its approver, whatever else was going on: "requires *)
(* prior review by another actor" (audit/service.py:795).                  *)
ApprovedWasReviewed ==
    \A v \in DOMAIN version : version[v].status = "approved" =>
        LET old == version[version[v].from]
        IN  /\ old.status = "reviewed" /\ old.content = version[v].content
            /\ old.reviewed = version[v].reviewed
            /\ version[v].reviewed \notin {Nobody, version[v].approved}

(* The newest version is current, or one of two with its number is: a      *)
(* version is superseded only after its successor exists, so no failure    *)
(* leaves the document without a current version or with an older one.     *)
NewestIsCurrent ==
    \E v \in Unsuperseded :
        \A w \in DOMAIN version : version[w].number <= version[v].number

(* Two versions are current only while a request is about to supersede one *)
(* of them, unless two requests overlapped or one broke off in between.    *)
ForkHasACause ==
    \/ overlapped \/ brokenOff
    \/ Cardinality(Unsuperseded) =
                1 + Cardinality({e \in Editors : editor[e].at = "supersede"})

(* The document is what its last version says.                             *)
LastVersion ==
    LET last == version[Len(version)]
    IN  [number |-> last.number, status |-> last.status, content |-> last.content,
         reviewed |-> last.reviewed, approved |-> last.approved]

TakingTurns == INSTANCE DocumentReview WITH document <- LastVersion

(* While requests take turns, each acts on the document as it is and at    *)
(* once, although any of them may break off between its transactions and   *)
(* leave two versions unsuperseded: "Return the current (unsuperseded)     *)
(* version of a document" (audit/service.py:672).                          *)
VersionsAreOneDocument ==
    /\ TakingTurns!Init
    /\ [][overlapped' \/ UNCHANGED LastVersion \/ TakingTurns!Next]_version
=============================================================================
