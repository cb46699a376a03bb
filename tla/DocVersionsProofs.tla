--------------------------- MODULE DocVersionsProofs ---------------------------
(***************************************************************************)
(* Proofs about DocVersions: what its run shows on four versions and two   *)
(* requests holds for every number of versions, actors and requests.       *)
(***************************************************************************)
EXTENDS DocVersions, FiniteSetTheorems, TLAPS

(***************************************************************************)
(* The inductive invariant.                                                *)
(***************************************************************************)

Ops == {"review", "approve", "regenerate"}

VersionRow == [
    number : Nat, status : {"generated", "reviewed", "approved"}, content : Contents,
    reviewed : Actors \cup {Nobody}, approved : Actors \cup {Nobody},
    from : Nat, superseded : Nat]

EditorType == [
    at : {"away", "create", "supersede", "log"}, op : Ops, actor : Actors \cup {Nobody},
    of : Nat, new : Nat]

(* A version is younger than the one it was made from, and its number is   *)
(* at most its place in the order of the commits.                          *)
VersionOK(v) ==
    /\ version[v].number \in 1..v
    /\ version[v].from \in 0..(v - 1)
    /\ version[v].superseded \in 0..Len(version)

(* A request is about versions that exist; the one it has made is newer    *)
(* than the one it was made from.                                          *)
EditorOK(e) ==
    /\ editor[e].at # "away" =>
        editor[e].of \in 1..Len(version) /\ editor[e].actor \in Actors
    /\ editor[e].at \in {"supersede", "log"} => editor[e].new \in 1..Len(version)
    /\ editor[e].at = "supersede" =>
        /\ version[editor[e].new].number > version[editor[e].of].number
        /\ editor[e].new # editor[e].of

(* A review is on record, and an approval rests on one by somebody else.   *)
ReviewedBySomeone(v) == version[v].status \in {"reviewed", "approved"} => version[v].reviewed \in Actors

ApprovesReviewed(e) ==
    editor[e].at = "create" /\ editor[e].op = "approve" =>
        /\ version[editor[e].of].status = "reviewed"
        /\ version[editor[e].of].reviewed # editor[e].actor

ApprovalOK(v) ==
    version[v].status = "approved" =>
        /\ version[v].from \in 1..Len(version)
        /\ version[version[v].from].status = "reviewed"
        /\ version[version[v].from].content = version[v].content
        /\ version[version[v].from].reviewed = version[v].reviewed
        /\ version[v].reviewed # version[v].approved

TypeInv ==
    /\ version \in Seq(VersionRow)
    /\ Len(version) \in 1..MaxVersions
    /\ editor \in [Editors -> EditorType]
    /\ overlapped \in BOOLEAN /\ brokenOff \in BOOLEAN
    /\ \A v \in 1..Len(version) : VersionOK(v) /\ ReviewedBySomeone(v)
    /\ \A e \in Editors : EditorOK(e)

ApprovalInv ==
    /\ \A v \in 1..Len(version) : ApprovalOK(v)
    /\ \A e \in Editors : ApprovesReviewed(e)

(* While no two requests have overlapped, at most one is under way, and    *)
(* one version is current, but for the moment before the old one is marked. *)
Alone ==
    ~(overlapped \/ brokenOff) =>
        /\ \A e, f \in Editors :
            {editor[e].at, editor[f].at} \subseteq {"create", "supersede"} => e = f
        /\ \A e \in Editors : editor[e].at = "create" => editor[e].of \in Unsuperseded
        /\ \A e \in Editors :
            editor[e].at = "supersede" => Unsuperseded = {editor[e].of, editor[e].new}
        /\ (\A e \in Editors : editor[e].at # "supersede") => \E v : Unsuperseded = {v}

VersionsInv == TypeInv /\ ApprovalInv /\ NewestIsCurrent /\ Alone

(***************************************************************************)
(* The three changes of the state that steps are made of.                  *)
(***************************************************************************)

(* What Create adds is one version after the one it was made from.         *)
LEMMA CreateAdds ==
    ASSUME TypeInv, NEW e \in Editors, ApprovesReviewed(e), Create(e)
    PROVE  \E row \in VersionRow :
             /\ version' = Append(version, row)
             /\ row.number = version[editor[e].of].number + 1
             /\ row.superseded = 0 /\ row.from = editor[e].of
             /\ row.status \in {"reviewed", "approved"} => row.reviewed \in Actors
             /\ row.status = "approved" =>
                    /\ editor[e].op = "approve" /\ row.approved = editor[e].actor
                    /\ row.content = version[editor[e].of].content
                    /\ row.reviewed = version[editor[e].of].reviewed
<1> DEFINE old == version[editor[e].of]
<1>1. /\ editor[e].at = "create" /\ editor[e] \in EditorType /\ editor[e].of \in Nat
      /\ editor[e].of \in 1..Len(version) /\ editor[e].actor \in Actors
    BY DEF TypeInv, Create, EditorOK, EditorType
<1>2. old \in VersionRow /\ ReviewedBySomeone(editor[e].of)
    BY <1>1 DEF TypeInv
<1>3. PICK new \in Created(e) :
        version' = Append(version, [new EXCEPT !.number = @ + 1, !.superseded = 0,
                                               !.from = editor[e].of])
    BY DEF Create
<1>4. /\ new \in VersionRow /\ new.number = old.number
      /\ new.status \in {"reviewed", "approved"} => new.reviewed \in Actors
      /\ new.status = "approved" =>
            /\ editor[e].op = "approve" /\ new.approved = editor[e].actor
            /\ new.content = old.content /\ new.reviewed = old.reviewed
    <2>1. CASE editor[e].op = "review"
        BY <1>1, <1>2, <1>3, <2>1 DEF Created, Reviewed, VersionRow
    <2>2. CASE editor[e].op = "approve"
        <3>1. new = Approved(old, editor[e].actor) /\ old.reviewed \in Actors
            BY <1>1, <1>2, <1>3, <2>2 DEF Created, ApprovesReviewed, ReviewedBySomeone
        <3> QED
            BY <1>1, <1>2, <2>2, <3>1 DEF Approved, VersionRow
    <2>3. CASE editor[e].op = "regenerate"
        <3>1. PICK text \in Contents : new = Regenerated(old, text)
            BY <1>3, <2>3 DEF Created
        <3> QED
            BY <1>2, <3>1 DEF Regenerated, VersionRow
    <2> QED
        BY <1>1, <2>1, <2>2, <2>3 DEF EditorType, Ops
<1> DEFINE row == [new EXCEPT !.number = @ + 1, !.superseded = 0, !.from = editor[e].of]
<1>5. row \in VersionRow /\ row.number = old.number + 1
    <2>1. new.number \in Nat /\ new.number + 1 \in Nat
        BY <1>4 DEF VersionRow
    <2> QED
        BY <1>1, <1>4, <2>1 DEF VersionRow
<1>6. /\ row.superseded = 0 /\ row.from = editor[e].of
      /\ row.status = new.status /\ row.reviewed = new.reviewed
      /\ row.approved = new.approved /\ row.content = new.content
    BY <1>4 DEF VersionRow
<1>7. version' = Append(version, row)
    BY <1>3
<1> HIDE DEF row, old
<1>8. /\ row.status \in {"reviewed", "approved"} => row.reviewed \in Actors
      /\ row.status = "approved" =>
            /\ editor[e].op = "approve" /\ row.approved = editor[e].actor
            /\ row.content = old.content /\ row.reviewed = old.reviewed
    BY <1>4, <1>6
<1> QED
    BY <1>5, <1>6, <1>7, <1>8 DEF old

(* Supersede changes one mark, of a version other than the newest.         *)
LEMMA SupersedeMarks ==
    ASSUME TypeInv, NEW e \in Editors, Supersede(e)
    PROVE  /\ editor[e].of \in 1..Len(version) /\ editor[e].new \in 1..Len(version)
           /\ Len(version') = Len(version) /\ version' \in Seq(VersionRow)
           /\ \A v \in 1..Len(version) :
                /\ version'[v].superseded =
                        IF v = editor[e].of THEN editor[e].new ELSE version[v].superseded
                /\ version'[v].number = version[v].number
                /\ version'[v].status = version[v].status
                /\ version'[v].content = version[v].content
                /\ version'[v].reviewed = version[v].reviewed
                /\ version'[v].approved = version[v].approved
                /\ version'[v].from = version[v].from
<1>1. /\ editor[e].of \in 1..Len(version) /\ editor[e].new \in 1..Len(version)
      /\ version' = [version EXCEPT ![editor[e].of].superseded = editor[e].new]
      /\ version \in Seq(VersionRow) /\ editor[e].new \in Nat
    BY DEF TypeInv, Supersede, EditorOK
<1>2. \A v \in 1..Len(version) : version[v] \in VersionRow
    BY <1>1
<1>3. Len(version') = Len(version)
    BY <1>1
<1>4. ASSUME NEW v \in 1..Len(version)
      PROVE  version'[v] = IF v = editor[e].of
                             THEN [version[v] EXCEPT !.superseded = editor[e].new]
                             ELSE version[v]
    BY <1>1
<1>5. ASSUME NEW v \in 1..Len(version)
      PROVE  /\ version'[v] \in VersionRow
             /\ version'[v].superseded =
                    IF v = editor[e].of THEN editor[e].new ELSE version[v].superseded
             /\ version'[v].number = version[v].number
             /\ version'[v].status = version[v].status
             /\ version'[v].content = version[v].content
             /\ version'[v].reviewed = version[v].reviewed
             /\ version'[v].approved = version[v].approved
             /\ version'[v].from = version[v].from
    <2>1. version[v] \in VersionRow
        BY <1>2
    <2>2. CASE v = editor[e].of
        <3>1. version'[v] = [version[v] EXCEPT !.superseded = editor[e].new]
            BY <1>4, <2>2
        <3>2. editor[e].new \in Nat
            BY <1>1
        <3>3. version'[v] \in VersionRow
            BY <2>1, <3>1, <3>2 DEF VersionRow
        <3>4. version'[v].superseded = editor[e].new
            BY <2>1, <3>1 DEF VersionRow
        <3> QED
            BY <2>1, <2>2, <3>1, <3>3, <3>4 DEF VersionRow
    <2>3. CASE v # editor[e].of
        BY <1>4, <2>1, <2>3
    <2> QED
        BY <2>2, <2>3
<1>6. version' \in Seq(VersionRow)
    BY <1>1, <1>3, <1>5
<1> QED
    BY <1>1, <1>3, <1>5, <1>6

(***************************************************************************)
(* The invariant.                                                          *)
(***************************************************************************)

(* A document begins with one generated version and nobody at work on it.  *)
LEMMA VersionsInit == VInit => VersionsInv
<1> SUFFICES ASSUME VInit PROVE VersionsInv
    OBVIOUS
<1>1. PICK text \in Contents :
        version = <<[number |-> 1, status |-> "generated", content |-> text,
                     reviewed |-> Nobody, approved |-> Nobody, from |-> 0,
                     superseded |-> 0]>>
    BY DEF VInit
<1>2. /\ version \in Seq(VersionRow) /\ Len(version) = 1
      /\ version[1].number = 1 /\ version[1].status = "generated"
      /\ version[1].from = 0 /\ version[1].superseded = 0
    BY <1>1 DEF VersionRow
<1>3. TypeInv
    <2>1. editor \in [Editors -> EditorType]
        BY DEF VInit, Away, EditorType, Ops
    <2>2. \A e \in Editors : EditorOK(e)
        BY DEF VInit, Away, EditorOK
    <2> QED
        <3>1. VersionOK(1) /\ ReviewedBySomeone(1)
            BY <1>2 DEF VersionOK, ReviewedBySomeone
        <3>2. \A v \in 1..Len(version) : VersionOK(v) /\ ReviewedBySomeone(v)
            <4>1. \A v \in 1..1 : v = 1
                OBVIOUS
            <4> QED
                BY <1>2, <3>1, <4>1
        <3>3. Len(version) \in 1..MaxVersions
            BY <1>2, VersionsAssumption
        <3> QED
            BY <1>2, <2>1, <2>2, <3>2, <3>3 DEF VInit, TypeInv
<1>4. ApprovalInv
    BY <1>2 DEF VInit, Away, ApprovalInv, ApprovalOK, ApprovesReviewed
<1>5. Unsuperseded = {1}
    BY <1>2 DEF Unsuperseded
<1>6. NewestIsCurrent
    BY <1>2, <1>5 DEF NewestIsCurrent
<1>7. Alone
    BY <1>5 DEF VInit, Away, Alone
<1> QED
    BY <1>3, <1>4, <1>6, <1>7 DEF VersionsInv

(* Types, and that an approval rests on a review: rows are never changed   *)
(* but for the mark that they are superseded.                              *)
LEMMA ApprovalNext ==
    TypeInv /\ ApprovalInv /\ [VNext]_vvars => TypeInv' /\ ApprovalInv'
<1> SUFFICES ASSUME TypeInv, ApprovalInv, [VNext]_vvars PROVE TypeInv' /\ ApprovalInv'
    OBVIOUS
<1>1. ASSUME NEW e \in Editors, Read(e) PROVE TypeInv' /\ ApprovalInv'
    <2>1. PICK v \in DOMAIN version, op \in Ops, who \in Actors :
            /\ AddsFrom(v, op, who)
            /\ editor' = [editor EXCEPT ![e] = [at |-> "create", op |-> op, actor |-> who,
                                                of |-> v, new |-> 0]]
        BY <1>1 DEF Read, Ops
    <2>2. /\ v \in 1..Len(version) /\ version' = version
          /\ overlapped' \in BOOLEAN /\ brokenOff' \in BOOLEAN
        BY <1>1, <2>1 DEF Read, TypeInv
    <2>3. editor' \in [Editors -> EditorType]
        BY <2>1, <2>2 DEF TypeInv, EditorType
    <2>4. \A f \in Editors : EditorOK(f)'
        BY <2>1, <2>2 DEF TypeInv, EditorOK
    <2>5. \A f \in Editors : ApprovesReviewed(f)'
        BY <2>1, <2>2 DEF TypeInv, ApprovalInv, ApprovesReviewed, AddsFrom
    <2> QED
        BY <2>2, <2>3, <2>4, <2>5
           DEF TypeInv, ApprovalInv, VersionOK, ReviewedBySomeone, ApprovalOK
<1>2. ASSUME NEW e \in Editors, Create(e) PROVE TypeInv' /\ ApprovalInv'
    <2>1. ApprovesReviewed(e)
        BY DEF ApprovalInv
    <2>2. PICK row \in VersionRow :
            /\ version' = Append(version, row)
            /\ row.number = version[editor[e].of].number + 1
            /\ row.superseded = 0 /\ row.from = editor[e].of
            /\ row.status \in {"reviewed", "approved"} => row.reviewed \in Actors
            /\ row.status = "approved" =>
                    /\ editor[e].op = "approve" /\ row.approved = editor[e].actor
                    /\ row.content = version[editor[e].of].content
                    /\ row.reviewed = version[editor[e].of].reviewed
        BY <1>2, <2>1, CreateAdds
    <2>3. /\ editor[e].at = "create" /\ editor[e].of \in 1..Len(version)
          /\ editor' = [editor EXCEPT ![e].at = "supersede", ![e].new = Len(version) + 1]
          /\ Len(version) < MaxVersions
          /\ overlapped' \in BOOLEAN /\ brokenOff' \in BOOLEAN
          /\ version \in Seq(VersionRow) /\ Len(version) \in Nat
        BY <1>2 DEF Create, notes, TypeInv, EditorOK
    <2>4. /\ version' \in Seq(VersionRow) /\ Len(version') = Len(version) + 1
          /\ \A v \in 1..Len(version) : version'[v] = version[v]
          /\ version'[Len(version) + 1] = row
        BY <2>2, <2>3
    <2>5. Len(version') \in 1..MaxVersions
        BY <2>3, <2>4, VersionsAssumption
    <2>6. version[editor[e].of].number \in 1..editor[e].of
        BY <2>3 DEF TypeInv, VersionOK
    <2>7. ASSUME NEW v \in 1..Len(version')
          PROVE  (VersionOK(v) /\ ReviewedBySomeone(v) /\ ApprovalOK(v))'
        <3>1. CASE v \in 1..Len(version)
            <4>1. VersionOK(v) /\ ReviewedBySomeone(v) /\ ApprovalOK(v)
                BY <3>1 DEF TypeInv, ApprovalInv
            <4>2. version'[v] = version[v] /\ v \in Nat
                BY <2>4, <3>1
            <4>3. VersionOK(v)' /\ ReviewedBySomeone(v)'
                BY <2>3, <2>4, <4>1, <4>2 DEF VersionOK, ReviewedBySomeone
            <4>4. ApprovalOK(v)'
                BY <2>3, <2>4, <4>1, <4>2 DEF ApprovalOK
            <4> QED
                BY <4>3, <4>4
        <3>2. CASE v = Len(version) + 1
            BY <2>1, <2>2, <2>3, <2>4, <2>6, <3>2
               DEF VersionOK, ReviewedBySomeone, ApprovalOK, ApprovesReviewed
        <3> QED
            BY <2>3, <2>4, <3>1, <3>2
    <2>8. editor' \in [Editors -> EditorType]
        <3>1. editor \in [Editors -> EditorType] /\ Len(version) + 1 \in Nat
            BY <2>3 DEF TypeInv
        <3>2. editor'[e] = [editor[e] EXCEPT !.at = "supersede", !.new = Len(version) + 1]
            BY <2>3, <3>1
        <3>3. editor'[e] \in EditorType
            BY <3>1, <3>2 DEF EditorType
        <3> QED
            BY <2>3, <3>1, <3>3
    <2>9. ASSUME NEW f \in Editors PROVE EditorOK(f)'
        <3>1. CASE f = e
            BY <2>2, <2>3, <2>4, <2>6, <3>1 DEF TypeInv, EditorOK
        <3>2. CASE f # e
            BY <2>3, <2>4, <3>2 DEF TypeInv, EditorOK
        <3> QED
            BY <3>1, <3>2
    <2>10. ASSUME NEW f \in Editors PROVE ApprovesReviewed(f)'
        BY <2>3, <2>4 DEF TypeInv, ApprovalInv, ApprovesReviewed, EditorOK
    <2> QED
        BY <2>3, <2>4, <2>5, <2>7, <2>8, <2>9, <2>10 DEF TypeInv, ApprovalInv
<1>3. ASSUME NEW e \in Editors, Supersede(e) PROVE TypeInv' /\ ApprovalInv'
    <2>1. /\ editor[e].at = "supersede"
          /\ overlapped' \in BOOLEAN /\ brokenOff' \in BOOLEAN
          /\ editor' = [editor EXCEPT ![e].at = "log"]
          /\ editor[e].new \in 1..Len(version) /\ Len(version) \in 1..MaxVersions
        BY <1>3 DEF Supersede, notes, TypeInv, EditorOK
    <2>2. /\ Len(version') = Len(version) /\ version' \in Seq(VersionRow)
          /\ \A v \in 1..Len(version) :
                /\ version'[v].superseded =
                        IF v = editor[e].of THEN editor[e].new ELSE version[v].superseded
                /\ version'[v].number = version[v].number
                /\ version'[v].status = version[v].status
                /\ version'[v].content = version[v].content
                /\ version'[v].reviewed = version[v].reviewed
                /\ version'[v].approved = version[v].approved
                /\ version'[v].from = version[v].from
        BY <1>3, SupersedeMarks
    <2>3. ASSUME NEW v \in 1..Len(version')
          PROVE  (VersionOK(v) /\ ReviewedBySomeone(v) /\ ApprovalOK(v))'
        <3>1. v \in 1..Len(version) /\ Len(version) \in Nat
            BY <2>1, <2>2
        <3>2. VersionOK(v) /\ ReviewedBySomeone(v) /\ ApprovalOK(v)
            BY <3>1 DEF TypeInv, ApprovalInv
        <3>3. VersionOK(v)'
            BY <2>1, <2>2, <3>1, <3>2 DEF VersionOK
        <3>4. ReviewedBySomeone(v)' /\ ApprovalOK(v)'
            BY <2>2, <3>1, <3>2 DEF ReviewedBySomeone, ApprovalOK
        <3> QED
            BY <3>3, <3>4
    <2>4. editor' \in [Editors -> EditorType]
        BY <2>1 DEF TypeInv, EditorType
    <2>5. ASSUME NEW f \in Editors PROVE EditorOK(f)' /\ ApprovesReviewed(f)'
        <3>1. EditorOK(f) /\ ApprovesReviewed(f)
            BY DEF TypeInv, ApprovalInv
        <3>2. CASE f = e
            <4>1. /\ editor'[f].at = "log" /\ editor'[f].of = editor[f].of
                  /\ editor'[f].actor = editor[f].actor /\ editor'[f].new = editor[f].new
                BY <2>1, <3>2 DEF TypeInv, EditorType
            <4> QED
                BY <2>1, <2>2, <3>1, <3>2, <4>1 DEF EditorOK, ApprovesReviewed
        <3>3. CASE f # e
            <4>1. editor'[f] = editor[f]
                BY <2>1, <3>3 DEF TypeInv
            <4>2. EditorOK(f)'
                BY <2>2, <3>1, <4>1 DEF EditorOK
            <4>3. ApprovesReviewed(f)'
                BY <2>2, <3>1, <4>1 DEF ApprovesReviewed, EditorOK
            <4> QED
                BY <4>2, <4>3
        <3> QED
            BY <3>2, <3>3
    <2> QED
        BY <2>1, <2>2, <2>3, <2>4, <2>5 DEF TypeInv, ApprovalInv
<1>4. ASSUME NEW e \in Editors, Log(e) \/ BreakOff(e) PROVE TypeInv' /\ ApprovalInv'
    <2>1. /\ version' = version /\ editor' = [editor EXCEPT ![e] = Away]
          /\ overlapped' \in BOOLEAN /\ brokenOff' \in BOOLEAN
        BY <1>4 DEF Log, BreakOff, notes, TypeInv
    <2>2. editor' \in [Editors -> EditorType]
        BY <2>1 DEF TypeInv, EditorType, Away, Ops
    <2>3. ASSUME NEW f \in Editors PROVE (EditorOK(f) /\ ApprovesReviewed(f))'
        BY <2>1 DEF TypeInv, ApprovalInv, EditorOK, ApprovesReviewed, Away
    <2> QED
        BY <2>1, <2>2, <2>3
           DEF TypeInv, ApprovalInv, VersionOK, ReviewedBySomeone, ApprovalOK
<1>5. CASE UNCHANGED vvars
    BY <1>5 DEF vvars, notes, TypeInv, ApprovalInv, VersionOK, ReviewedBySomeone, ApprovalOK,
                EditorOK, ApprovesReviewed
<1> QED
    BY <1>1, <1>2, <1>3, <1>4, <1>5 DEF VNext

(* A version is marked only when a newer one exists.                       *)
LEMMA NewestNext ==
    TypeInv /\ ApprovalInv /\ NewestIsCurrent /\ [VNext]_vvars => NewestIsCurrent'
<1> SUFFICES ASSUME TypeInv, ApprovalInv, NewestIsCurrent, [VNext]_vvars
             PROVE  NewestIsCurrent'
    OBVIOUS
<1>1. PICK v \in 1..Len(version) :
        /\ version[v].superseded = 0
        /\ \A w \in 1..Len(version) : version[w].number <= version[v].number
    BY DEF NewestIsCurrent, Unsuperseded, TypeInv
<1>2. \A w \in 1..Len(version) : version[w].number \in Nat
    BY DEF TypeInv, VersionOK
<1>3. ASSUME NEW e \in Editors, Create(e) PROVE NewestIsCurrent'
    <2>1. PICK row \in VersionRow :
            /\ version' = Append(version, row) /\ row.superseded = 0
            /\ row.number = version[editor[e].of].number + 1
        BY <1>3, CreateAdds DEF ApprovalInv
    <2>2. /\ editor[e].of \in 1..Len(version) /\ row.number \in Nat
          /\ version \in Seq(VersionRow) /\ Len(version) \in Nat
        BY <1>2, <1>3, <2>1 DEF Create, TypeInv, EditorOK
    <2>3. /\ DOMAIN version' = 1..(Len(version) + 1)
          /\ \A w \in 1..Len(version) : version'[w] = version[w]
          /\ version'[Len(version) + 1] = row
        BY <2>1, <2>2
    <2>4. CASE row.number > version[v].number
        <3>1. \A w \in DOMAIN version' : version'[w].number <= row.number
            BY <1>1, <1>2, <2>2, <2>3, <2>4
        <3>2. Len(version) + 1 \in Unsuperseded'
            BY <2>1, <2>2, <2>3 DEF Unsuperseded
        <3> QED
            BY <2>3, <3>1, <3>2 DEF NewestIsCurrent
    <2>5. CASE row.number <= version[v].number
        <3>1. \A w \in DOMAIN version' : version'[w].number <= version[v].number
            BY <1>1, <1>2, <2>2, <2>3, <2>5
        <3>2. v \in Unsuperseded' /\ version'[v] = version[v]
            BY <1>1, <2>2, <2>3 DEF Unsuperseded
        <3> QED
            BY <3>1, <3>2 DEF NewestIsCurrent
    <2> QED
        BY <1>2, <2>2, <2>4, <2>5
<1>4. ASSUME NEW e \in Editors, Supersede(e) PROVE NewestIsCurrent'
    <2>1. /\ editor[e].new \in 1..Len(version) /\ editor[e].of \in 1..Len(version)
          /\ version[editor[e].new].number > version[editor[e].of].number
        BY <1>4 DEF Supersede, TypeInv, EditorOK
    <2>2. v # editor[e].of
        BY <1>1, <1>2, <2>1
    <2>3. /\ version' \in Seq(VersionRow) /\ Len(version') = Len(version)
          /\ version'[v].superseded = 0
          /\ \A w \in 1..Len(version) : version'[w].number = version[w].number
        BY <1>1, <1>4, <2>2, SupersedeMarks
    <2>4. DOMAIN version' = 1..Len(version) /\ v \in Unsuperseded'
        BY <2>3 DEF Unsuperseded
    <2> QED
        BY <1>1, <2>3, <2>4 DEF NewestIsCurrent
<1>5. CASE UNCHANGED version
    BY <1>5 DEF NewestIsCurrent, Unsuperseded
<1> QED
    BY <1>3, <1>4, <1>5 DEF VNext, Read, Log, BreakOff, vvars

(* Requests that do not overlap leave one current version behind.          *)
LEMMA AloneNext == TypeInv /\ ApprovalInv /\ Alone /\ [VNext]_vvars => Alone'
<1> SUFFICES ASSUME TypeInv, ApprovalInv, Alone, [VNext]_vvars,
                    ~overlapped', ~brokenOff'
             PROVE  Alone'
    BY DEF Alone
<1>1. /\ version \in Seq(VersionRow) /\ Len(version) \in Nat
      /\ DOMAIN version = 1..Len(version) /\ editor \in [Editors -> EditorType]
      /\ \A v \in DOMAIN version : version[v].superseded \in Nat
    BY DEF TypeInv, VersionOK
<1>2. ASSUME NEW e \in Editors, Read(e) PROVE Alone'
    <2>1. ~overlapped /\ ~brokenOff /\ \A f \in Editors : editor[f].at \notin {"create", "supersede"}
        BY <1>2 DEF Read
    <2>2. PICK v : Unsuperseded = {v}
        BY <2>1 DEF Alone
    <2>3. /\ Unsuperseded' = {v} /\ editor'[e].at = "create" /\ editor'[e].of = v
          /\ \A f \in Editors \ {e} : editor'[f] = editor[f]
        BY <1>1, <1>2, <2>2 DEF Read, IsCurrent, Unsuperseded
    <2> QED
        BY <2>1, <2>3 DEF Alone
<1>3. ASSUME NEW e \in Editors, Create(e) PROVE Alone'
    <2>1. /\ ~overlapped /\ ~brokenOff /\ editor[e].at = "create" /\ editor[e].of \in Unsuperseded
          /\ \A f \in Editors \ {e} : editor[f].at \notin {"create", "supersede"}
        BY <1>3 DEF Create, notes, Alone
    <2>2. PICK v : Unsuperseded = {v}
        BY <2>1 DEF Alone
    <2>3. PICK row \in VersionRow : version' = Append(version, row) /\ row.superseded = 0
        BY <1>3, CreateAdds DEF ApprovalInv
    <2>4. /\ DOMAIN version' = DOMAIN version \cup {Len(version) + 1}
          /\ \A w \in DOMAIN version : version'[w] = version[w]
          /\ version'[Len(version) + 1] = row
        BY <1>1, <2>3
    <2>5. Unsuperseded' = Unsuperseded \cup {Len(version) + 1}
        BY <2>3, <2>4 DEF Unsuperseded
    <2>6. /\ editor'[e].at = "supersede" /\ editor'[e].of = editor[e].of
          /\ editor'[e].new = Len(version) + 1
          /\ \A f \in Editors \ {e} : editor'[f] = editor[f]
        BY <1>1, <1>3 DEF Create, EditorType
    <2>7. Unsuperseded' = {editor'[e].of, editor'[e].new}
        BY <2>1, <2>2, <2>5, <2>6
    <2> QED
        BY <2>1, <2>6, <2>7 DEF Alone
<1>4. ASSUME NEW e \in Editors, Supersede(e) PROVE Alone'
    <2>1. /\ ~overlapped /\ ~brokenOff /\ editor[e].at = "supersede"
          /\ Unsuperseded = {editor[e].of, editor[e].new}
          /\ \A f \in Editors \ {e} : editor[f].at \notin {"create", "supersede"}
        BY <1>4 DEF Supersede, notes, Alone
    <2>2. /\ editor[e].new \in 1..Len(version) /\ editor[e].new # editor[e].of
          /\ editor[e].new # 0
        BY <1>1, <2>1 DEF TypeInv, EditorOK
    <2>3. /\ DOMAIN version' = DOMAIN version
          /\ \A v \in DOMAIN version : version'[v].superseded =
                IF v = editor[e].of THEN editor[e].new ELSE version[v].superseded
        BY <1>1, <1>4, SupersedeMarks
    <2>4. Unsuperseded' = {editor[e].new}
        BY <2>1, <2>2, <2>3 DEF Unsuperseded
    <2>5. /\ editor'[e].at = "log" /\ \A f \in Editors \ {e} : editor'[f] = editor[f]
        BY <1>1, <1>4 DEF Supersede, EditorType
    <2>6. \A f \in Editors : editor'[f].at \notin {"create", "supersede"}
        BY <2>1, <2>5
    <2>7. \E v : Unsuperseded' = {v}
        BY <2>4
    <2> QED
        BY <2>6, <2>7 DEF Alone
<1>5. ASSUME NEW e \in Editors, Log(e) \/ BreakOff(e) PROVE Alone'
    <2>1. editor' = [editor EXCEPT ![e] = Away] /\ version' = version
        BY <1>5 DEF Log, BreakOff
    <2>2. ~overlapped /\ ~brokenOff /\ editor[e].at # "supersede"
        <3>1. CASE Log(e)
            BY <3>1 DEF Log, notes
        <3>2. CASE BreakOff(e)
            BY <3>2, Zenon DEF BreakOff
        <3> QED
            BY <1>5, <3>1, <3>2
    <2>3. editor'[e].at = "away" /\ \A f \in Editors \ {e} : editor'[f] = editor[f]
        BY <1>1, <2>1 DEF Away
    <2>4. Unsuperseded' = Unsuperseded
        BY <2>1 DEF Unsuperseded
    <2>5. (\A f \in Editors : editor'[f].at # "supersede") =>
            \A f \in Editors : editor[f].at # "supersede"
        BY <2>2, <2>3
    <2>6. (\A f \in Editors : editor'[f].at # "supersede") => \E v : Unsuperseded' = {v}
        BY <2>2, <2>4, <2>5 DEF Alone
    <2>7. /\ \A f, g \in Editors :
                {editor'[f].at, editor'[g].at} \subseteq {"create", "supersede"} => f = g
          /\ \A f \in Editors : editor'[f].at = "create" => editor'[f].of \in Unsuperseded'
          /\ \A f \in Editors : editor'[f].at = "supersede" =>
                Unsuperseded' = {editor'[f].of, editor'[f].new}
        BY <2>2, <2>3, <2>4 DEF Alone
    <2> QED
        BY <2>6, <2>7 DEF Alone
<1>6. CASE UNCHANGED vvars
    BY <1>6 DEF vvars, notes, Alone, Unsuperseded
<1> QED
    BY <1>2, <1>3, <1>4, <1>5, <1>6 DEF VNext

(* The versions' inductive invariant.                                      *)
THEOREM VersionsInvariant == VersionsSpec => []VersionsInv
<1>1. VersionsInv /\ [VNext]_vvars => VersionsInv'
    BY ApprovalNext, NewestNext, AloneNext DEF VersionsInv
<1> QED
    BY <1>1, VersionsInit, PTL DEF VersionsSpec

(***************************************************************************)
(* The theorems.                                                           *)
(***************************************************************************)

(* The rows of a document are well formed, whoever is at work on it.       *)
THEOREM VersionsTypes == VersionsSpec => []VersionsTypeOK
<1>1. VersionsInv => VersionsTypeOK
    <2> SUFFICES ASSUME VersionsInv PROVE VersionsTypeOK
        OBVIOUS
    <2>1. /\ version \in Seq(VersionRow) /\ Len(version) \in 1..MaxVersions
          /\ DOMAIN version = 1..Len(version) /\ editor \in [Editors -> EditorType]
          /\ overlapped \in BOOLEAN /\ brokenOff \in BOOLEAN /\ MaxVersions \in Nat
        BY VersionsAssumption DEF VersionsInv, TypeInv
    <2>2. ASSUME NEW v \in DOMAIN version
          PROVE  /\ version[v].number \in 1..MaxVersions
                 /\ version[v].status \in {"generated", "reviewed", "approved"}
                 /\ version[v].content \in Contents
                 /\ {version[v].reviewed, version[v].approved} \subseteq Actors \cup {Nobody}
                 /\ version[v].from \in 0..(v - 1)
                 /\ version[v].superseded \in {0} \cup DOMAIN version
        <3>1. version[v] \in VersionRow /\ VersionOK(v)
            BY <2>1, <2>2 DEF VersionsInv, TypeInv
        <3> QED
            BY <2>1, <3>1 DEF VersionRow, VersionOK
    <2>3. ASSUME NEW e \in Editors
          PROVE  /\ editor[e].at \in {"away", "create", "supersede", "log"}
                 /\ editor[e].at # "away" => editor[e].of \in DOMAIN version
                 /\ editor[e].at \in {"supersede", "log"} => editor[e].new \in DOMAIN version
        BY <2>1 DEF VersionsInv, TypeInv, EditorOK, EditorType
    <2> QED
        BY <2>1, <2>2, <2>3 DEF VersionsTypeOK
<1> QED
    BY <1>1, VersionsInvariant, PTL

(* An approved version carries the text its reviewer saw, and the reviewer *)
(* is not the approver, whatever happened between the two requests.        *)
THEOREM ApprovalsRestOnReviews == VersionsSpec => []ApprovedWasReviewed
<1>1. VersionsInv => ApprovedWasReviewed
    BY VersionsAssumption
       DEF VersionsInv, TypeInv, ApprovalInv, ApprovalOK, ReviewedBySomeone, ApprovedWasReviewed
<1> QED
    BY <1>1, VersionsInvariant, PTL

(* No failure leaves a document without a current version, or with an      *)
(* older one: the old row is marked after the new one is committed.        *)
THEOREM NewestStaysCurrent == VersionsSpec => []NewestIsCurrent
<1>1. VersionsInv => NewestIsCurrent
    BY DEF VersionsInv
<1> QED
    BY <1>1, VersionsInvariant, PTL

(* Two versions stay current only where two requests overlapped, or one    *)
(* broke off before it marked the version it replaced.                     *)
THEOREM ForksAreRaces == VersionsSpec => []ForkHasACause
<1>1. VersionsInv => ForkHasACause
    <2> SUFFICES ASSUME VersionsInv, ~overlapped, ~brokenOff
                 PROVE  Cardinality(Unsuperseded) =
                            1 + Cardinality({e \in Editors : editor[e].at = "supersede"})
        BY DEF ForkHasACause
    <2> DEFINE Marking == {e \in Editors : editor[e].at = "supersede"}
    <2>1. CASE Marking = {}
        <3>1. PICK v : Unsuperseded = {v}
            BY <2>1 DEF VersionsInv, Alone
        <3>2. Cardinality(Unsuperseded) = 1 /\ Cardinality(Marking) = 0
            BY <2>1, <3>1, FS_Singleton, FS_EmptySet
        <3> HIDE DEF Marking
        <3>3. Cardinality(Unsuperseded) = 1 + Cardinality(Marking)
            BY <3>2
        <3> QED
            BY <3>3 DEF Marking
    <2>2. CASE Marking # {}
        <3>1. PICK e \in Editors : editor[e].at = "supersede"
            BY <2>2
        <3>2. Marking = {e}
            BY <3>1 DEF VersionsInv, Alone
        <3>3. Unsuperseded = {editor[e].of} \cup {editor[e].new}
            BY <3>1 DEF VersionsInv, Alone
        <3>4. editor[e].new \notin {editor[e].of}
            BY <3>1 DEF VersionsInv, TypeInv, EditorOK
        <3>5. IsFiniteSet({editor[e].of}) /\ Cardinality({editor[e].of}) = 1
            BY FS_Singleton
        <3>6. Cardinality(Unsuperseded) = Cardinality({editor[e].of}) + 1
            BY <3>3, <3>4, <3>5, FS_AddElement
        <3>7. Cardinality(Marking) = 1
            BY <3>2, FS_Singleton
        <3> HIDE DEF Marking
        <3>8. Cardinality(Unsuperseded) = 1 + Cardinality(Marking)
            BY <3>5, <3>6, <3>7
        <3> QED
            BY <3>8 DEF Marking
    <2> QED
        BY <2>1, <2>2
<1> QED
    BY <1>1, VersionsInvariant, PTL

(***************************************************************************)
(* Requests that take turns.                                               *)
(***************************************************************************)

(* Requests that take turns work from the last version, which is never      *)
(* superseded, even if an earlier one has not been either.                 *)
InSequence ==
    /\ \A e, f \in Editors :
        {editor[e].at, editor[f].at} \subseteq {"create", "supersede"} => e = f
    /\ \A v \in 1..Len(version) : version[v].number = v
    /\ version[Len(version)].superseded = 0
    /\ \A e \in Editors :
        /\ editor[e].at = "create" => editor[e].of = Len(version)
        /\ editor[e].at = "supersede" => editor[e].of # Len(version)

(* A document starts with its first version. *)
LEMMA InSequenceInit == VInit => InSequence
<1> SUFFICES ASSUME VInit PROVE InSequence
    OBVIOUS
<1>1. Len(version) = 1 /\ version[1].number = 1 /\ version[1].superseded = 0
    BY DEF VInit
<1>2. \A v \in 1..1 : v = 1
    OBVIOUS
<1> QED
    BY <1>1, <1>2 DEF VInit, Away, InSequence

(* What is read is the last version, what is created comes after it, and   *)
(* what is marked is another one.                                          *)
LEMMA InSequenceNext ==
    ASSUME TypeInv, ApprovalInv, InSequence, [VNext]_vvars, ~overlapped'
    PROVE  InSequence'
<1>1. /\ version \in Seq(VersionRow) /\ Len(version) \in Nat \ {0}
      /\ DOMAIN version = 1..Len(version) /\ editor \in [Editors -> EditorType]
    BY VersionsAssumption DEF TypeInv
<1>2. ASSUME NEW e \in Editors, Read(e) PROVE InSequence'
    <2>1. PICK v \in DOMAIN version, op \in Ops, who \in Actors :
            /\ IsCurrent(v)
            /\ editor' = [editor EXCEPT ![e] = [at |-> "create", op |-> op, actor |-> who,
                                                of |-> v, new |-> 0]]
        BY <1>2 DEF Read, Ops
    <2>2. Len(version) \in Unsuperseded
        BY <1>1 DEF InSequence, Unsuperseded
    <2>3. v = Len(version)
        BY <1>1, <2>1, <2>2 DEF IsCurrent, InSequence, Unsuperseded
    <2>4. /\ version' = version /\ editor'[e].at = "create" /\ editor'[e].of = Len(version)
          /\ \A f \in Editors \ {e} : editor'[f] = editor[f]
        BY <1>1, <1>2, <2>1, <2>3 DEF Read
    <2>5. \A f \in Editors : editor[f].at \notin {"create", "supersede"}
        BY <1>2 DEF Read
    <2> QED
        BY <2>4, <2>5 DEF InSequence
<1>3. ASSUME NEW e \in Editors, Create(e) PROVE InSequence'
    <2>1. PICK row \in VersionRow :
            /\ version' = Append(version, row) /\ row.superseded = 0
            /\ row.number = version[editor[e].of].number + 1
        BY <1>3, CreateAdds DEF ApprovalInv
    <2>2. editor[e].of = Len(version) /\ row.number = Len(version) + 1
        BY <1>1, <1>3, <2>1 DEF Create, InSequence
    <2>3. /\ Len(version') = Len(version) + 1
          /\ \A v \in 1..Len(version) : version'[v] = version[v]
          /\ version'[Len(version) + 1] = row
        BY <1>1, <2>1
    <2>4. /\ editor'[e].at = "supersede" /\ editor'[e].of = Len(version)
          /\ \A f \in Editors \ {e} : editor'[f] = editor[f]
        BY <1>1, <1>3, <2>2 DEF Create, EditorType
    <2>5. \A v \in 1..Len(version') : version'[v].number = v
        BY <1>1, <2>2, <2>3 DEF InSequence
    <2>6. \A f \in Editors \ {e} : editor[f].at \notin {"create", "supersede"}
        BY <1>3 DEF Create, InSequence
    <2>7. version'[Len(version')].superseded = 0
        BY <2>1, <2>3
    <2>8. ASSUME NEW f \in Editors
          PROVE  /\ editor'[f].at = "create" => editor'[f].of = Len(version')
                 /\ editor'[f].at = "supersede" => editor'[f].of # Len(version')
        BY <1>1, <2>3, <2>4, <2>6
    <2>9. \A f, g \in Editors :
            {editor'[f].at, editor'[g].at} \subseteq {"create", "supersede"} => f = g
        BY <2>4, <2>6
    <2> QED
        BY <2>5, <2>7, <2>8, <2>9 DEF InSequence
<1>4. ASSUME NEW e \in Editors, Supersede(e) PROVE InSequence'
    <2>1. /\ editor[e].of # Len(version) /\ editor'[e].at = "log"
          /\ \A f \in Editors \ {e} : editor'[f] = editor[f]
        BY <1>1, <1>4 DEF Supersede, InSequence, EditorType
    <2>2. /\ Len(version') = Len(version)
          /\ \A v \in 1..Len(version) :
                /\ version'[v].superseded =
                        IF v = editor[e].of THEN editor[e].new ELSE version[v].superseded
                /\ version'[v].number = version[v].number
        BY <1>4, SupersedeMarks
    <2>3. version'[Len(version)].superseded = 0
        BY <1>1, <2>1, <2>2 DEF InSequence
    <2> QED
        BY <2>1, <2>2, <2>3 DEF InSequence
<1>5. ASSUME NEW e \in Editors, Log(e) \/ BreakOff(e) PROVE InSequence'
    <2>1. /\ version' = version /\ editor'[e].at = "away"
          /\ \A f \in Editors \ {e} : editor'[f] = editor[f]
        BY <1>1, <1>5 DEF Log, BreakOff, Away
    <2> QED
        BY <2>1 DEF InSequence
<1>6. CASE UNCHANGED vvars
    BY <1>6 DEF vvars, InSequence
<1> QED
    BY <1>2, <1>3, <1>4, <1>5, <1>6 DEF VNext

(* A version that is added is what the document becomes, by an operation   *)
(* on what it was.                                                         *)
LEMMA CreateSimulation ==
    ASSUME TypeInv, ApprovalInv, InSequence, NEW e \in Editors, Create(e)
    PROVE  TakingTurns!Next
<1> DEFINE old == version[Len(version)]
           who == editor[e].actor
<1>1. /\ version \in Seq(VersionRow) /\ Len(version) \in Nat \ {0}
      /\ editor[e].at = "create" /\ editor[e].of = Len(version)
      /\ editor[e] \in EditorType /\ editor[e].actor \in Actors
    BY VersionsAssumption DEF TypeInv, Create, InSequence, EditorOK
<1>2. old \in VersionRow
    BY <1>1
<1>3. PICK new \in Created(e) :
        version' = Append(version, [new EXCEPT !.number = @ + 1, !.superseded = 0,
                                               !.from = editor[e].of])
    BY DEF Create
<1>4. Len(version') = Len(version) + 1
      /\ version'[Len(version')] = [new EXCEPT !.number = @ + 1, !.superseded = 0,
                                               !.from = editor[e].of]
    BY <1>1, <1>3
<1>5. ASSUME new \in VersionRow
      PROVE  LastVersion' = [number |-> new.number + 1, status |-> new.status,
                             content |-> new.content, reviewed |-> new.reviewed,
                             approved |-> new.approved]
    <2>1. LastVersion' = [number |-> version'[Len(version')].number,
                          status |-> version'[Len(version')].status,
                          content |-> version'[Len(version')].content,
                          reviewed |-> version'[Len(version')].reviewed,
                          approved |-> version'[Len(version')].approved]
        BY DEF LastVersion
    <2> QED
        BY <1>4, <1>5, <2>1 DEF VersionRow
<1>6. LastVersion = [number |-> old.number, status |-> old.status, content |-> old.content,
                     reviewed |-> old.reviewed, approved |-> old.approved]
    BY DEF LastVersion
<1>7. CASE editor[e].op = "review"
    <2>1. new = [old EXCEPT !.status = "reviewed", !.reviewed = who, !.approved = Nobody]
        BY <1>1, <1>3, <1>7 DEF Created, Reviewed
    <2> HIDE DEF old, who
    <2>2. new \in VersionRow
        BY <1>1, <1>2, <2>1 DEF VersionRow, who
    <2>3. LastVersion' = [number |-> old.number + 1, status |-> "reviewed",
                          content |-> old.content, reviewed |-> who, approved |-> Nobody]
        BY <1>2, <1>5, <2>1, <2>2 DEF VersionRow
    <2>4. LastVersion' = [LastVersion EXCEPT !.number = @ + 1, !.status = "reviewed",
                                             !.reviewed = who, !.approved = Nobody]
        <3> DEFINE next == [LastVersion EXCEPT !.number = @ + 1, !.status = "reviewed",
                                          !.reviewed = who, !.approved = Nobody]
        <3>1. next = [LastVersion EXCEPT !.number = @ + 1, !.status = "reviewed",
                                          !.reviewed = who, !.approved = Nobody]
            OBVIOUS
        <3> HIDE DEF next
        <3>2. next = [number |-> old.number + 1, status |-> "reviewed",
                     content |-> old.content, reviewed |-> who, approved |-> Nobody]
            BY <1>6, <3>1
        <3>3. LastVersion' = next
            BY <2>3, <3>2
        <3> QED
            BY <3>1, <3>3
    <2> QED
        BY <1>1, <2>4 DEF TakingTurns!Next, TakingTurns!Review, who
<1>8. CASE editor[e].op = "approve"
    <2>1. /\ new = [old EXCEPT !.status = "approved", !.approved = who]
          /\ old.status = "reviewed" /\ old.reviewed # who
        BY <1>1, <1>3, <1>8 DEF Created, Approved, ApprovalInv, ApprovesReviewed
    <2> HIDE DEF old, who
    <2>2. new \in VersionRow
        BY <1>1, <1>2, <2>1 DEF VersionRow, who
    <2>3. LastVersion' = [number |-> old.number + 1, status |-> "approved",
                          content |-> old.content, reviewed |-> old.reviewed, approved |-> who]
        BY <1>2, <1>5, <2>1, <2>2 DEF VersionRow
    <2>4. LastVersion' = [LastVersion EXCEPT !.number = @ + 1, !.status = "approved",
                                             !.approved = who]
        <3> DEFINE next == [LastVersion EXCEPT !.number = @ + 1, !.status = "approved",
                                          !.approved = who]
        <3>1. next = [LastVersion EXCEPT !.number = @ + 1, !.status = "approved",
                                          !.approved = who]
            OBVIOUS
        <3> HIDE DEF next
        <3>2. next = [number |-> old.number + 1, status |-> "approved",
                     content |-> old.content, reviewed |-> old.reviewed, approved |-> who]
            BY <1>6, <3>1
        <3>3. LastVersion' = next
            BY <2>3, <3>2
        <3> QED
            BY <3>1, <3>3
    <2>5. LastVersion.status = "reviewed" /\ LastVersion.reviewed # who
        BY <1>6, <2>1
    <2> QED
        BY <1>1, <2>4, <2>5 DEF TakingTurns!Next, TakingTurns!Approve, who
<1>9. CASE editor[e].op = "regenerate"
    <2>1. PICK text \in Contents :
            new = [old EXCEPT !.status = "generated", !.content = text,
                              !.reviewed = Nobody, !.approved = Nobody]
        BY <1>1, <1>3, <1>9 DEF Created, Regenerated
    <2> HIDE DEF old, who
    <2>2. new \in VersionRow
        BY <1>2, <2>1 DEF VersionRow
    <2>3. LastVersion' = [number |-> old.number + 1, status |-> "generated",
                          content |-> text, reviewed |-> Nobody, approved |-> Nobody]
        BY <1>2, <1>5, <2>1, <2>2 DEF VersionRow
    <2>4. LastVersion' = [LastVersion EXCEPT !.number = @ + 1, !.status = "generated",
                                             !.content = text, !.reviewed = Nobody,
                                             !.approved = Nobody]
        <3> DEFINE next == [LastVersion EXCEPT !.number = @ + 1, !.status = "generated",
                                          !.content = text, !.reviewed = Nobody,
                                          !.approved = Nobody]
        <3>1. next = [LastVersion EXCEPT !.number = @ + 1, !.status = "generated",
                                          !.content = text, !.reviewed = Nobody,
                                          !.approved = Nobody]
            OBVIOUS
        <3> HIDE DEF next
        <3>2. next = [number |-> old.number + 1, status |-> "generated",
                     content |-> text, reviewed |-> Nobody, approved |-> Nobody]
            BY <1>6, <3>1
        <3>3. LastVersion' = next
            BY <2>3, <3>2
        <3> QED
            BY <3>1, <3>3
    <2> QED
        BY <2>4 DEF TakingTurns!Next, TakingTurns!Regenerate
<1> QED
    BY <1>1, <1>7, <1>8, <1>9 DEF EditorType, Ops

(* The other steps leave what the document says as it is.                  *)
LEMMA VersionsSimulation ==
    ASSUME TypeInv, ApprovalInv, InSequence, [VNext]_vvars
    PROVE  [TakingTurns!Next]_LastVersion
<1>1. ASSUME NEW e \in Editors, Create(e) PROVE TakingTurns!Next
    BY <1>1, CreateSimulation
<1>2. ASSUME NEW e \in Editors, Supersede(e) PROVE LastVersion' = LastVersion
    <2>1. Len(version) \in 1..Len(version)
        BY VersionsAssumption DEF TypeInv
    <2> QED
        BY <1>2, <2>1, SupersedeMarks DEF LastVersion
<1>3. CASE UNCHANGED version
    BY <1>3 DEF LastVersion
<1> QED
    BY <1>1, <1>2, <1>3 DEF VNext, Read, Log, BreakOff, vvars

(* Until two requests have overlapped, every change of what the document   *)
(* says is a review, an approval or a regeneration of what it said: a      *)
(* request acts on the document as it is, even after others broke off      *)
(* between any two of their transactions.                                  *)
THEOREM VersionsRefinement == VersionsSpec => VersionsAreOneDocument
<1> DEFINE Turns == ~overlapped => InSequence
<1>1. VInit => Turns /\ TakingTurns!Init
    <2> SUFFICES ASSUME VInit PROVE TakingTurns!Init
        BY InSequenceInit
    <2>1. PICK text \in Contents :
            version = <<[number |-> 1, status |-> "generated", content |-> text,
                         reviewed |-> Nobody, approved |-> Nobody, from |-> 0,
                         superseded |-> 0]>>
        BY DEF VInit
    <2>2. LastVersion = [number |-> 1, status |-> "generated", content |-> text,
                         reviewed |-> Nobody, approved |-> Nobody]
        BY <2>1 DEF LastVersion
    <2> QED
        BY <2>2 DEF TakingTurns!Init
<1>2. [VNext]_vvars /\ ~overlapped' => ~overlapped
    BY DEF VNext, Read, Create, Supersede, Log, BreakOff, vvars, notes
<1>3. VersionsInv /\ Turns /\ [VNext]_vvars => Turns'
    BY <1>2, InSequenceNext DEF VersionsInv
<1>4. VersionsInv /\ Turns /\ [VNext]_vvars
        => [overlapped' \/ UNCHANGED LastVersion \/ TakingTurns!Next]_version
    BY <1>2, VersionsSimulation DEF VersionsInv
<1> QED
    BY <1>1, <1>3, <1>4, VersionsInvariant, PTL DEF VersionsSpec, VersionsAreOneDocument
=============================================================================
