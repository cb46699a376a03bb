--------------------------- MODULE PublishingProofs ---------------------------
(***************************************************************************)
(* Proofs about Publishing and SourceDocuments, for every set of editions, *)
(* authors, builds and uploads: what is in a file that passed validation,  *)
(* what a caller downloads, and which document is worked on.               *)
(***************************************************************************)
EXTENDS CreatorFiles, FiniteSetTheorems, TLAPS

(***************************************************************************)
(* Packages: the inductive invariant.                                      *)
(***************************************************************************)

EditionRow == [publisher : Names \cup {NoName}, format : Formats, isbn : BOOLEAN]

PackageRow == [
    edition : Editions, dest : Destinations, who : Authors, titled : BOOLEAN,
    format : Formats, isbn : BOOLEAN, publisher : Names \cup {NoName}, ok : BOOLEAN]

BuildRow == [
    at : {"resting", "book", "author", "gate", "build", "log", "open", "send"},
    edition : Editions \cup {NoFile}, dest : Destinations,
    read : EditionRow \cup {NoFile}, titled : BOOLEAN, who : Authors \cup {NoFile},
    begun : PackageRow \cup {NoFile}, overwritten : BOOLEAN]

(* A build has what it has read. *)
HasRead(r) ==
    /\ request[r].at # "resting" =>
        request[r].edition \in Editions /\ request[r].read \in EditionRow
    /\ request[r].at \in {"gate", "build", "log", "open", "send"} => request[r].who \in Authors

(* The file of a build is its own and valid until another writes it; what  *)
(* it has begun to send is that file.                                      *)
OwnFile(r) ==
    ~request[r].overwritten =>
        /\ request[r].at \in {"log", "open", "send"} =>
            LET p == file[Name(r)]
            IN  p.edition = request[r].edition /\ p.who = request[r].who /\ p.ok
        /\ request[r].at = "send" => request[r].begun = file[Name(r)]

Fit(p) ==
    p.ok =>
        /\ p.dest = "kdp" =>
            /\ p.titled
            /\ \/ /\ p.publisher \in {p.who.name, p.who.display, p.who.publisher}
                  /\ p.publisher \notin Marketplaces
               \/ p.publisher = p.who.name /\ p.who.name \in Marketplaces
        /\ p.dest = "ingramspark" =>
            /\ p.format # NoFormat
            /\ p.format \in PrintFormats => p.isbn

PackagesTypeInv ==
    /\ edition \in [Editions -> EditionRow]
    /\ titled \subseteq Books
    /\ author \in [Books -> Authors]
    /\ approved \subseteq Books
    /\ file \in [FileNames -> PackageRow \cup {NoFile}]
    /\ request \in [Requests -> BuildRow]
    /\ edits \in 0..MaxEdits
    /\ \A r \in Requests : HasRead(r)

PackagesInv ==
    /\ PackagesTypeInv
    /\ \A n \in FileNames : file[n] # NoFile =>
        FileName(file[n].dest, file[n].format) = n /\ Fit(file[n])
    /\ \A r \in Requests : OwnFile(r)

(***************************************************************************)
(* What a build writes.                                                    *)
(***************************************************************************)

(* A package that passes its destination's validation is fit for it: the   *)
(* publisher that validate judges and the one that is shipped differ only  *)
(* when both the edition and the profile leave it out.                     *)
LEMMA PackageFits ==
    ASSUME PackagesTypeInv, NEW r \in Requests, request[r].at = "build"
    PROVE  /\ Package(r) \in PackageRow /\ Fit(Package(r))
           /\ Package(r).edition = request[r].edition /\ Package(r).who = request[r].who
           /\ FileName(Package(r).dest, Package(r).format) = Name(r)
           /\ Name(r) \in FileNames
<1>1. /\ request[r].edition \in Editions /\ request[r].dest \in Destinations
      /\ request[r].read \in EditionRow /\ request[r].who \in Authors
      /\ request[r].titled \in BOOLEAN
    BY DEF PackagesTypeInv, HasRead, BuildRow
<1> DEFINE e == request[r].edition
           dest == request[r].dest
           read == request[r].read
           hasTitle == request[r].titled
           who == request[r].who
           p == Package(r)
<1>2. /\ read.publisher \in Names \cup {NoName} /\ read.isbn \in BOOLEAN
      /\ read.format \in Formats
      /\ who.name \in Names /\ NoName \notin Names
      /\ who.display \in Names \cup {NoName} /\ who.publisher \in Names \cup {NoName}
    BY <1>1, PublishingAssumption DEF EditionRow
<1>3. p = [edition |-> e, dest |-> dest, who |-> who, titled |-> hasTitle,
           format |-> read.format, isbn |-> read.isbn,
           publisher |-> KdpShipped(read, who),
           ok |-> IF dest = "kdp" THEN KdpOk(read, hasTitle, who) ELSE IngramOk(read)]
    BY DEF Package
<1>4. /\ p.edition = e /\ p.dest = dest /\ p.who = who /\ p.titled = hasTitle
      /\ p.format = read.format /\ p.isbn = read.isbn /\ p.publisher = KdpShipped(read, who)
      /\ p.ok = IF dest = "kdp" THEN KdpOk(read, hasTitle, who) ELSE IngramOk(read)
    BY <1>3
<1>5. KdpShipped(read, who) \in Names \cup {NoName}
    BY <1>2 DEF KdpShipped, Or
<1>6. KdpOk(read, hasTitle, who) \in BOOLEAN /\ IngramOk(read) \in BOOLEAN
    BY <1>1, <1>2 DEF KdpOk, PublisherAllowed, IngramOk
<1>7. p \in PackageRow
    BY <1>1, <1>2, <1>3, <1>5, <1>6 DEF PackageRow
<1>8. KdpOk(read, hasTitle, who) =>
        /\ hasTitle
        /\ \/ /\ KdpShipped(read, who) \in {who.name, who.display, who.publisher}
              /\ KdpShipped(read, who) \notin Marketplaces
           \/ KdpShipped(read, who) = who.name /\ who.name \in Marketplaces
    BY <1>2 DEF KdpOk, PublisherAllowed, KdpJudged, KdpShipped, Or
<1>9. IngramOk(read) =>
        read.format # NoFormat /\ (read.format \in PrintFormats => read.isbn)
    BY DEF IngramOk
<1>10. Fit(p)
    <2>1. CASE dest = "kdp"
        BY <1>4, <1>8, <2>1 DEF Fit
    <2>2. CASE dest # "kdp"
        BY <1>4, <1>9, <2>2 DEF Fit
    <2> QED
        BY <2>1, <2>2
<1>11. FileName(p.dest, p.format) = Name(r) /\ Name(r) \in FileNames
    BY <1>1, <1>2, <1>4 DEF Name, FileNames
<1> QED
    BY <1>4, <1>7, <1>10, <1>11

(* Writing a file leaves the builds that were to serve it with another's.  *)
LEMMA BuiltOthers ==
    ASSUME NEW r \in Requests, NEW q \in Requests
    PROVE  /\ q = r => Built(r, "log")[q] = [request[r] EXCEPT !.at = "log"]
           /\ q # r => \/ /\ request[q].at \in {"log", "open", "send"} /\ Name(q) = Name(r)
                          /\ Built(r, "log")[q] = [request[q] EXCEPT !.overwritten = TRUE]
                       \/ /\ ~(request[q].at \in {"log", "open", "send"} /\ Name(q) = Name(r))
                          /\ Built(r, "log")[q] = request[q]
    BY DEF Built

(***************************************************************************)
(* Packages: the steps.                                                    *)
(***************************************************************************)

(* Nothing is built when the process starts.                               *)
LEMMA PackagesInit == PInit => PackagesInv
<1> SUFFICES ASSUME PInit PROVE PackagesInv
    OBVIOUS
<1>1. PackagesTypeInv
    <2>1. edition \in [Editions -> EditionRow] /\ author \in [Books -> Authors]
        BY DEF PInit, EditionRow
    <2>2. /\ titled \subseteq Books /\ approved \subseteq Books
          /\ file \in [FileNames -> PackageRow \cup {NoFile}]
        BY DEF PInit
    <2>3. request \in [Requests -> BuildRow]
        BY DEF PInit, Resting, BuildRow, Destinations
    <2>4. edits \in 0..MaxEdits
        BY PublishingAssumption DEF PInit
    <2>5. \A r \in Requests : HasRead(r)
        BY DEF PInit, Resting, HasRead
    <2> QED
        BY <2>1, <2>2, <2>3, <2>4, <2>5 DEF PackagesTypeInv
<1> QED
    BY <1>1 DEF PInit, Resting, PackagesInv, OwnFile

(* A step of one build that writes no file has only that build to answer for. *)
LEMMA PackagesQuietSteps ==
    ASSUME PackagesInv, UNCHANGED <<edition, titled, author, approved, file, edits>>,
           NEW r \in Requests, request' \in [Requests -> BuildRow],
           \A q \in Requests \ {r} : request'[q] = request[q],
           HasRead(r)', OwnFile(r)'
    PROVE  PackagesInv'
<1>1. ASSUME NEW q \in Requests PROVE HasRead(q)' /\ OwnFile(q)'
    BY DEF PackagesInv, PackagesTypeInv, HasRead, OwnFile, Name
<1> QED
    BY <1>1 DEF PackagesInv, PackagesTypeInv, Fit

(* A build writes its own file, and leaves those it overwrites marked.     *)
LEMMA PackagesBuild == ASSUME PackagesInv, NEW r \in Requests, Build(r) PROVE PackagesInv'
<1>1. /\ request[r].at = "build" /\ file' = [file EXCEPT ![Name(r)] = Package(r)]
      /\ request' = IF Package(r).ok THEN Built(r, "log")
                    ELSE [Built(r, "log") EXCEPT ![r] = Resting]
      /\ UNCHANGED <<edition, titled, author, approved, edits>>
    BY DEF Build, WriteZip
<1>2. /\ Package(r) \in PackageRow /\ Fit(Package(r))
      /\ Package(r).edition = request[r].edition /\ Package(r).who = request[r].who
      /\ FileName(Package(r).dest, Package(r).format) = Name(r)
      /\ Name(r) \in FileNames
    BY <1>1, PackageFits DEF PackagesInv
<1>3. /\ file \in [FileNames -> PackageRow \cup {NoFile}]
      /\ request \in [Requests -> BuildRow] /\ \A q \in Requests : HasRead(q) /\ OwnFile(q)
    BY DEF PackagesInv, PackagesTypeInv
<1>4. /\ file' \in [FileNames -> PackageRow \cup {NoFile}] /\ file'[Name(r)] = Package(r)
      /\ \A n \in FileNames \ {Name(r)} : file'[n] = file[n]
    BY <1>1, <1>2, <1>3
<1>5. ASSUME NEW q \in Requests
      PROVE  request'[q] \in BuildRow /\ HasRead(q)' /\ OwnFile(q)'
    <2>1. CASE q = r /\ Package(r).ok
        <3>1. request'[r] = [request[r] EXCEPT !.at = "log"]
            BY <1>1, <2>1, BuiltOthers
        <3>2. /\ request[r] \in BuildRow /\ request'[r] \in BuildRow
              /\ request'[r].at = "log" /\ request'[r].edition = request[r].edition
              /\ request'[r].dest = request[r].dest /\ request'[r].read = request[r].read
              /\ request'[r].who = request[r].who
            BY <1>3, <3>1 DEF BuildRow
        <3>3. Name(r)' = Name(r)
            BY <3>2 DEF Name
        <3>4. HasRead(r)'
            BY <1>1, <1>3, <3>2 DEF HasRead
        <3>5. OwnFile(r)'
            BY <1>2, <1>4, <2>1, <3>2, <3>3 DEF OwnFile
        <3> QED
            BY <2>1, <3>2, <3>4, <3>5
    <2>2. CASE q = r /\ ~Package(r).ok
        <3>1. request'[r] = Resting
            BY <1>1, <2>2 DEF Built
        <3>2. Resting \in BuildRow
            BY DEF Resting, BuildRow, Destinations
        <3> QED
            BY <2>2, <3>1, <3>2 DEF Resting, HasRead, OwnFile
    <2>3. CASE q # r
        <3>1. request'[q] = Built(r, "log")[q]
            BY <1>1, <2>3 DEF Built
        <3>2. /\ request[q] \in BuildRow /\ request'[q] \in BuildRow
              /\ request'[q].at = request[q].at /\ request'[q].edition = request[q].edition
              /\ request'[q].dest = request[q].dest /\ request'[q].read = request[q].read
              /\ request'[q].who = request[q].who /\ request'[q].begun = request[q].begun
            <4>1. request[q] \in BuildRow
                BY <1>3
            <4>2. \/ request'[q] = [request[q] EXCEPT !.overwritten = TRUE]
                  \/ request'[q] = request[q]
                BY <2>3, <3>1, BuiltOthers
            <4> QED
                BY <4>1, <4>2 DEF BuildRow
        <3>3. Name(q)' = Name(q)
            BY <3>2 DEF Name
        <3>4. HasRead(q)'
            BY <1>3, <3>2 DEF HasRead
        <3>5. OwnFile(q)'
            <4>1. CASE request[q].at \in {"log", "open", "send"} /\ Name(q) = Name(r)
                <5>1. request'[q] = [request[q] EXCEPT !.overwritten = TRUE]
                    BY <2>3, <3>1, <4>1, BuiltOthers
                <5>2. request'[q].overwritten
                    BY <1>3, <5>1 DEF BuildRow
                <5> QED
                    BY <5>2 DEF OwnFile
            <4>2. CASE request[q].at \in {"log", "open", "send"} /\ Name(q) # Name(r)
                <5>1. request'[q] = request[q]
                    BY <2>3, <3>1, <4>2, BuiltOthers
                <5>2. Name(q) \in FileNames
                    BY <1>3, <4>2 DEF HasRead, BuildRow, EditionRow, Name, FileNames
                <5>3. file'[Name(q)] = file[Name(q)]
                    BY <1>4, <4>2, <5>2
                <5> QED
                    BY <1>3, <3>3, <5>1, <5>3 DEF OwnFile
            <4>3. CASE request[q].at \notin {"log", "open", "send"}
                BY <3>2, <4>3 DEF OwnFile
            <4> QED
                BY <4>1, <4>2, <4>3
        <3> QED
            BY <3>2, <3>4, <3>5
    <2> QED
        BY <2>1, <2>2, <2>3
<1>6. request' \in [Requests -> BuildRow]
    <2>1. DOMAIN request' = Requests /\ request' = [q \in Requests |-> request'[q]]
        BY <1>1 DEF Built
    <2> QED
        BY <1>5, <2>1
<1>7. PackagesTypeInv'
    BY <1>1, <1>4, <1>5, <1>6 DEF PackagesInv, PackagesTypeInv
<1>8. ASSUME NEW n \in FileNames, file'[n] # NoFile
      PROVE  FileName(file'[n].dest, file'[n].format) = n /\ Fit(file'[n])
    BY <1>2, <1>4, <1>8 DEF PackagesInv
<1> QED
    BY <1>5, <1>7, <1>8 DEF PackagesInv, Fit

(* Every step keeps the invariant of the packages.                         *)
LEMMA PackagesNext == PackagesInv /\ [PNext]_pvars => PackagesInv'
<1> SUFFICES ASSUME PackagesInv, [PNext]_pvars PROVE PackagesInv'
    OBVIOUS
<1>1. /\ PackagesTypeInv /\ request \in [Requests -> BuildRow]
      /\ edition \in [Editions -> EditionRow] /\ author \in [Books -> Authors]
      /\ titled \subseteq Books /\ approved \subseteq Books
      /\ file \in [FileNames -> PackageRow \cup {NoFile}] /\ edits \in 0..MaxEdits
    BY DEF PackagesInv, PackagesTypeInv
<1>2. Resting \in BuildRow
    BY DEF Resting, BuildRow, Destinations
<1>3. CASE UpdateEdition \/ UpdateBook \/ UpdateAuthor \/ ChangeApproval
    <2>1. /\ UNCHANGED <<file, request>> /\ edits' \in 0..MaxEdits
          /\ edition' \in [Editions -> EditionRow] /\ author' \in [Books -> Authors]
          /\ titled' \subseteq Books /\ approved' \subseteq Books
        <3>1. UNCHANGED <<file, request>> /\ edits' \in 0..MaxEdits
            BY <1>1, <1>3, PublishingAssumption
               DEF UpdateEdition, UpdateBook, UpdateAuthor, ChangeApproval, Edit
        <3>2. edition' \in [Editions -> EditionRow]
            BY <1>1, <1>3 DEF UpdateEdition, UpdateBook, UpdateAuthor, ChangeApproval, EditionRow
        <3>3. author' \in [Books -> Authors]
            BY <1>1, <1>3 DEF UpdateEdition, UpdateBook, UpdateAuthor, ChangeApproval
        <3>4. titled' \subseteq Books /\ approved' \subseteq Books
            BY <1>1, <1>3 DEF UpdateEdition, UpdateBook, UpdateAuthor, ChangeApproval
        <3> QED
            BY <3>1, <3>2, <3>3, <3>4
    <2> QED
        BY <2>1 DEF PackagesInv, PackagesTypeInv, HasRead, OwnFile, Name, Fit
<1>4. ASSUME NEW r \in Requests, ReadEdition(r) PROVE PackagesInv'
    <2>1. PICK e \in Editions, dest \in Destinations :
            request' = [request EXCEPT ![r] = [Resting EXCEPT
                !.at = "book", !.edition = e, !.dest = dest, !.read = edition[e]]]
        BY <1>4 DEF ReadEdition
    <2>2. /\ request'[r] \in BuildRow /\ request'[r].at = "book"
          /\ request'[r].edition = e /\ request'[r].read = edition[e]
        BY <1>1, <2>1 DEF Resting, BuildRow
    <2>3. HasRead(r)' /\ OwnFile(r)'
        BY <1>1, <2>2 DEF HasRead, OwnFile
    <2>4. request' \in [Requests -> BuildRow]
        BY <1>1, <2>1, <2>2
    <2> QED
        BY <1>1, <1>4, <2>1, <2>3, <2>4, PackagesQuietSteps
           DEF ReadEdition
<1>5. ASSUME NEW r \in Requests, ReadBook(r) \/ ReadAuthor(r) \/ RequireApproved(r)
      PROVE  PackagesInv'
    <2>1. /\ request[r] \in BuildRow /\ HasRead(r) /\ request[r].at \in {"book", "author", "gate"}
          /\ request[r].edition \in Editions /\ request[r].read \in EditionRow
        BY <1>1, <1>5 DEF ReadBook, ReadAuthor, RequireApproved, PackagesTypeInv, HasRead
    <2>2. author[BookOf[request[r].edition]] \in Authors
        BY <1>1, <2>1 DEF Books
    <2>3. \E hasTitle \in BOOLEAN :
            \/ request'[r] = [request[r] EXCEPT !.at = "author", !.titled = hasTitle]
            \/ request'[r] = [request[r] EXCEPT
                    !.at = "gate", !.who = author[BookOf[request[r].edition]]]
            \/ request[r].at = "gate" /\ request'[r] = [request[r] EXCEPT !.at = "build"]
        <3>1. CASE ReadBook(r)
            <4>1. /\ (BookOf[request[r].edition] \in titled) \in BOOLEAN
                  /\ request'[r] = [request[r] EXCEPT
                        !.at = "author", !.titled = BookOf[request[r].edition] \in titled]
                BY <1>1, <3>1 DEF ReadBook
            <4> QED
                BY <4>1
        <3>2. CASE ReadAuthor(r)
            BY <1>1, <3>2 DEF ReadAuthor
        <3>3. CASE RequireApproved(r)
            BY <1>1, <3>3 DEF RequireApproved
        <3> QED
            BY <1>5, <3>1, <3>2, <3>3
    <2>4. /\ request'[r] \in BuildRow /\ request'[r].at \in {"author", "gate", "build"}
          /\ request'[r].edition = request[r].edition /\ request'[r].read = request[r].read
          /\ request'[r].at # "author" => request'[r].who \in Authors
        BY <2>1, <2>2, <2>3 DEF BuildRow, HasRead
    <2>5. HasRead(r)' /\ OwnFile(r)'
        BY <2>1, <2>4 DEF HasRead, OwnFile
    <2>6. /\ request' \in [Requests -> BuildRow]
          /\ \A q \in Requests \ {r} : request'[q] = request[q]
          /\ UNCHANGED <<edition, titled, author, approved, file, edits>>
        BY <1>1, <1>5, <2>4 DEF ReadBook, ReadAuthor, RequireApproved
    <2> QED
        BY <2>5, <2>6, PackagesQuietSteps
<1>6. ASSUME NEW r \in Requests, Build(r) PROVE PackagesInv'
    BY <1>6, PackagesBuild
<1>7. ASSUME NEW r \in Requests, LogBuilt(r) \/ OpenFile(r) PROVE PackagesInv'
    <2>1. /\ request[r] \in BuildRow /\ HasRead(r) /\ OwnFile(r)
          /\ request[r].at \in {"log", "open"}
          /\ request[r].edition \in Editions /\ request[r].who \in Authors
          /\ request[r].read \in EditionRow
        BY <1>1, <1>7 DEF LogBuilt, OpenFile, PackagesInv, PackagesTypeInv, HasRead
    <2>2. Name(r) \in FileNames /\ file[Name(r)] \in PackageRow \cup {NoFile}
        BY <1>1, <2>1 DEF Name, FileNames, BuildRow, EditionRow
    <2>3. CASE request'[r] = Resting
        BY <1>1, <1>2, <1>7, <2>3, PackagesQuietSteps
           DEF LogBuilt, OpenFile, HasRead, OwnFile, Resting
    <2>4. CASE request'[r] = [request[r] EXCEPT !.at = "open"]
        <3>1. /\ request'[r] \in BuildRow /\ request'[r].at = "open"
              /\ request'[r].edition = request[r].edition /\ request'[r].read = request[r].read
              /\ request'[r].who = request[r].who /\ request'[r].dest = request[r].dest
              /\ request'[r].overwritten = request[r].overwritten
            BY <2>1, <2>4 DEF BuildRow
        <3>2. Name(r)' = Name(r) /\ file' = file
            BY <1>7, <3>1 DEF Name, LogBuilt, OpenFile
        <3>3. HasRead(r)' /\ OwnFile(r)'
            BY <2>1, <3>1, <3>2 DEF HasRead, OwnFile
        <3> QED
            BY <1>1, <1>7, <3>1, <3>3, PackagesQuietSteps
               DEF LogBuilt, OpenFile
    <2>5. CASE request'[r] = [request[r] EXCEPT !.at = "send", !.begun = file[Name(r)]]
        <3>1. /\ request'[r] \in BuildRow /\ request'[r].at = "send"
              /\ request'[r].edition = request[r].edition /\ request'[r].read = request[r].read
              /\ request'[r].who = request[r].who /\ request'[r].dest = request[r].dest
              /\ request'[r].overwritten = request[r].overwritten
              /\ request'[r].begun = file[Name(r)]
            BY <2>1, <2>2, <2>5 DEF BuildRow
        <3>2. Name(r)' = Name(r) /\ file' = file
            BY <1>7, <3>1 DEF Name, LogBuilt, OpenFile
        <3>3. HasRead(r)' /\ OwnFile(r)'
            BY <2>1, <3>1, <3>2 DEF HasRead, OwnFile
        <3> QED
            BY <1>1, <1>7, <3>1, <3>3, PackagesQuietSteps
               DEF LogBuilt, OpenFile
    <2> QED
        BY <1>1, <1>7, <2>3, <2>4, <2>5 DEF LogBuilt, OpenFile
<1>8. ASSUME NEW r \in Requests, Sent(r) \/ Fail(r) PROVE PackagesInv'
    <2>1. request' = [request EXCEPT ![r] = Resting]
        BY <1>8 DEF Sent, Fail
    <2>2. HasRead(r)' /\ OwnFile(r)' /\ request' \in [Requests -> BuildRow]
        BY <1>1, <1>2, <2>1 DEF HasRead, OwnFile, Resting
    <2> QED
        BY <1>1, <1>8, <2>1, <2>2, PackagesQuietSteps DEF Sent, Fail
<1>9. CASE UNCHANGED pvars
    BY <1>9 DEF pvars, PackagesInv, PackagesTypeInv, HasRead, OwnFile, Name, Fit
<1> QED
    BY <1>3, <1>4, <1>5, <1>6, <1>7, <1>8, <1>9 DEF PNext

(* The packages' inductive invariant.                                      *)
THEOREM PackagesInvariant == PublishingSpec => []PackagesInv
    BY PackagesInit, PackagesNext, PTL DEF PublishingSpec

(***************************************************************************)
(* Packages: the theorems.                                                 *)
(***************************************************************************)

(* Files lie under their own name, and builds know what they are building. *)
THEOREM PackagesTypes == PublishingSpec => []PublishingTypeOK
<1>1. PackagesInv => PublishingTypeOK
    <2> SUFFICES ASSUME PackagesInv PROVE PublishingTypeOK
        OBVIOUS
    <2>1. \A r \in Requests :
            /\ request[r].at \in
                {"resting", "book", "author", "gate", "build", "log", "open", "send"}
            /\ request[r].at # "resting" => request[r].edition \in Editions
            /\ request[r].at \in {"gate", "build", "log", "open", "send"} => request[r].who \in Authors
        BY DEF PackagesInv, PackagesTypeInv, HasRead, BuildRow
    <2> QED
        BY <2>1 DEF PackagesInv, PackagesTypeInv, PublishingTypeOK, EditionRow
<1> QED
    BY <1>1, PackagesInvariant, PTL

(* Whoever downloads a package that no other build overwrote gets their    *)
(* own edition's, by the author they read, and one that passed validation. *)
THEOREM DownloadsAreOwnAndValid == PublishingSpec => []DownloadIsOwnAndValid
<1>1. PackagesInv => DownloadIsOwnAndValid
    BY DEF PackagesInv, OwnFile, DownloadIsOwnAndValid
<1> QED
    BY <1>1, PackagesInvariant, PTL

(* Every file that passed its destination's validation is fit for it.      *)
THEOREM PassedFilesAreFit == PublishingSpec => []PassedPackagesAreFit
<1>1. PackagesInv => PassedPackagesAreFit
    BY DEF PackagesInv, Fit, PassedPackagesAreFit
<1> QED
    BY <1>1, PackagesInvariant, PTL

(***************************************************************************)
(* Source documents: the inductive invariant.                              *)
(***************************************************************************)

DocumentRow == [version : Nat \ {0}, created : Nat \ {0}]

UploadRow == [at : {"waiting", "written", "read", "stamped"}, version : Nat, created : Nat]

Created == {d.created : d \in document}

UnderWay == {u \in Uploads : upload[u].at # "waiting"}

(* Uploads that hold the version they are going to give their document.    *)
Numbered == {u \in Uploads : upload[u].at \in {"read", "stamped"}}

DocumentsTypeInv ==
    /\ document \subseteq DocumentRow
    /\ IsFiniteSet(document) /\ IsFiniteSet(Created) /\ IsFiniteSet(UnderWay)
    /\ onDisk \in 0..MaxDocuments
    /\ upload \in [Uploads -> UploadRow]
    /\ clock \in Nat \ {0}
    /\ overlapped \in BOOLEAN

(* Every row, and every upload under way, has written its file.            *)
Counted ==
    /\ Cardinality(document) + Cardinality(UnderWay) <= onDisk
    /\ Cardinality(Created) = Cardinality(document)

(* A stamp is given once. *)
Stamped ==
    /\ \A d \in document : d.created < clock
    /\ \A d, e \in document : d.created = e.created => d = e
    /\ \A u \in Uploads : upload[u].at = "stamped" =>
        upload[u].created \in 1..(clock - 1) /\ upload[u].created \notin Created
    /\ \A u, w \in Uploads :
        upload[u].at = "stamped" /\ upload[w].at = "stamped"
            /\ upload[u].created = upload[w].created => u = w

(* Versions do not outgrow the number of rows, since rows are not deleted. *)
VersionsBounded ==
    /\ \A d \in document : d.version <= Cardinality(document)
    /\ \A u \in Numbered : upload[u].version \in 1..(Cardinality(document) + 1)

(* There is a newest document, and a highest version. *)
HasEnds ==
    document # {} =>
        /\ \E newest \in document : \A d \in document : d.created <= newest.created
        /\ \E top \in document : \A d \in document : d.version <= top.version

(* Uploads that take turns are stamped in the order of their versions.     *)
InTurn ==
    ~overlapped =>
        /\ \A u, w \in Numbered : u = w
        /\ \A u \in Numbered : \A d \in document : d.version < upload[u].version
        /\ \A u \in Numbered : upload[u].at = "stamped" =>
            \A d \in document : d.created < upload[u].created
        /\ \A d, e \in document : d.created < e.created => d.version < e.version

DocumentsInv ==
    DocumentsTypeInv /\ Counted /\ Stamped /\ VersionsBounded /\ HasEnds /\ InTurn

(***************************************************************************)
(* Source documents: the steps.                                            *)
(***************************************************************************)

(* The version that an upload reads is above all, by at most one.          *)
LEMMA NextVersionIsAbove ==
    ASSUME DocumentsTypeInv, VersionsBounded, HasEnds
    PROVE  /\ NextVersion \in 1..(Cardinality(document) + 1)
           /\ \A d \in document : d.version < NextVersion
<1>1. Cardinality(document) \in Nat /\ \A d \in document : d.version \in Nat \ {0}
    BY FS_CardinalityType DEF DocumentsTypeInv, DocumentRow
<1>2. CASE document = {}
    BY <1>1, <1>2 DEF NextVersion, Versions
<1>3. CASE document # {}
    <2>1. PICK top \in document : \A d \in document : d.version <= top.version
        BY <1>3 DEF HasEnds
    <2>2. \A v \in Versions : v \in Nat
        BY <1>1 DEF Versions
    <2>3. top.version \in Versions /\ \A v \in Versions : top.version >= v
        BY <1>1, <2>1 DEF Versions
    <2>4. /\ Max(Versions) \in Versions
          /\ \A v \in Versions : Max(Versions) >= v
        BY <2>3 DEF Max
    <2>5. PICK m \in document : Max(Versions) = m.version
        BY <2>4 DEF Versions
    <2>6. \A d \in document : d.version <= Max(Versions)
        BY <1>1, <2>2, <2>4 DEF Versions
    <2>7. NextVersion = Max(Versions) + 1
        BY <2>3 DEF NextVersion
    <2> QED
        BY <1>1, <2>5, <2>6, <2>7 DEF VersionsBounded
<1> QED
    BY <1>2, <1>3

(* A book begins without documents.                                        *)
LEMMA DocumentsInit == DInit => DocumentsInv
<1> SUFFICES ASSUME DInit PROVE DocumentsInv
    OBVIOUS
<1>1. document = {} /\ Created = {} /\ UnderWay = {} /\ Numbered = {}
    BY DEF DInit, Waiting, Created, UnderWay, Numbered
<1>2. Cardinality(document) = 0 /\ Cardinality(UnderWay) = 0 /\ Cardinality(Created) = 0
    BY <1>1, FS_EmptySet
<1>3. DocumentsTypeInv
    <2>1. upload \in [Uploads -> UploadRow]
        BY DEF DInit, Waiting, UploadRow
    <2>2. /\ IsFiniteSet(document) /\ IsFiniteSet(Created) /\ IsFiniteSet(UnderWay)
          /\ document \subseteq DocumentRow
        BY <1>1, FS_EmptySet
    <2>3. onDisk \in 0..MaxDocuments /\ clock \in Nat \ {0}
        BY DocumentsAssumption DEF DInit
    <2>4. overlapped \in BOOLEAN
        BY DEF DInit
    <2> QED
        BY <2>1, <2>2, <2>3, <2>4 DEF DocumentsTypeInv
<1>4. Counted
    BY <1>2 DEF DInit, Counted
<1>5. Stamped
    BY <1>1 DEF DInit, Waiting, Stamped
<1>6. VersionsBounded /\ HasEnds /\ InTurn
    BY <1>1 DEF VersionsBounded, HasEnds, InTurn
<1> QED
    BY <1>3, <1>4, <1>5, <1>6 DEF DocumentsInv

(* Steps that add no row: who is stamped, numbered and under way changes.  *)
LEMMA UploadSteps ==
    ASSUME DocumentsInv, NEW u \in Uploads,
           WriteFile(u) \/ ReadVersion(u) \/ Stamp(u) \/ LoseUpload(u)
    PROVE  DocumentsInv'
<1>1. /\ document' = document /\ upload \in [Uploads -> UploadRow]
      /\ clock \in Nat \ {0} /\ onDisk \in 0..MaxDocuments /\ overlapped \in BOOLEAN
      /\ MaxDocuments \in Nat /\ Cardinality(document) \in Nat
      /\ Cardinality(UnderWay) \in Nat /\ IsFiniteSet(UnderWay)
    BY DocumentsAssumption, FS_CardinalityType
       DEF DocumentsInv, DocumentsTypeInv, WriteFile, ReadVersion, Stamp, LoseUpload
<1>2. Created' = Created
    BY <1>1 DEF Created
<1>3. HasEnds'
    BY <1>1 DEF DocumentsInv, HasEnds
<1>4. CASE WriteFile(u)
    <2>1. /\ upload[u].at = "waiting" /\ onDisk < MaxDocuments /\ onDisk' = onDisk + 1
          /\ upload' = [upload EXCEPT ![u].at = "written"]
          /\ UNCHANGED <<document, clock, overlapped>>
        BY <1>4 DEF WriteFile
    <2>2. /\ upload' \in [Uploads -> UploadRow] /\ upload'[u].at = "written"
          /\ \A w \in Uploads \ {u} : upload'[w] = upload[w]
        BY <1>1, <2>1 DEF UploadRow
    <2>3. UnderWay' = UnderWay \cup {u} /\ Numbered' = Numbered
        BY <2>1, <2>2 DEF UnderWay, Numbered
    <2>4. /\ IsFiniteSet(UnderWay') /\ Cardinality(UnderWay') <= Cardinality(UnderWay) + 1
          /\ Cardinality(UnderWay') \in Nat
        <3>1. u \notin UnderWay
            BY <2>1 DEF UnderWay
        <3>2. IsFiniteSet(UnderWay') /\ Cardinality(UnderWay') = Cardinality(UnderWay) + 1
            BY <1>1, <2>3, <3>1, FS_AddElement
        <3> QED
            BY <1>1, <3>2
    <2>5. onDisk' \in 0..MaxDocuments
        BY <1>1, <2>1
    <2>6. DocumentsTypeInv'
        BY <1>2, <2>1, <2>2, <2>4, <2>5 DEF DocumentsInv, DocumentsTypeInv
    <2>7. Counted'
        BY <1>1, <1>2, <2>1, <2>4 DEF DocumentsInv, Counted
    <2>8. Stamped'
        BY <1>2, <2>1, <2>2 DEF DocumentsInv, Stamped
    <2>9. \A w \in Numbered' : w \in Numbered /\ upload'[w] = upload[w]
        BY <2>1, <2>2, <2>3 DEF Numbered
    <2>10. VersionsBounded' /\ InTurn'
        BY <2>1, <2>9 DEF DocumentsInv, VersionsBounded, InTurn
    <2> QED
        BY <1>3, <2>6, <2>7, <2>8, <2>10 DEF DocumentsInv
<1>5. CASE ReadVersion(u)
    <2>1. /\ upload[u].at = "written"
          /\ upload' = [upload EXCEPT ![u].at = "read", ![u].version = NextVersion]
          /\ overlapped' = (overlapped \/ \E v \in Uploads : upload[v].at \in {"read", "stamped"})
          /\ UNCHANGED <<document, onDisk, clock>>
        BY <1>5 DEF ReadVersion
    <2>2. /\ NextVersion \in 1..(Cardinality(document) + 1)
          /\ \A d \in document : d.version < NextVersion
        BY NextVersionIsAbove DEF DocumentsInv
    <2>3. /\ upload[u] \in UploadRow /\ NextVersion \in Nat
        BY <1>1, <2>2
    <2>4. /\ upload' \in [Uploads -> UploadRow] /\ upload'[u].at = "read"
          /\ upload'[u].version = NextVersion
          /\ \A w \in Uploads \ {u} : upload'[w] = upload[w]
        BY <1>1, <2>1, <2>3 DEF UploadRow
    <2>5. UnderWay' = UnderWay /\ Numbered' = Numbered \cup {u}
        BY <2>1, <2>4 DEF UnderWay, Numbered
    <2>6. DocumentsTypeInv'
        BY <1>2, <2>1, <2>4, <2>5 DEF DocumentsInv, DocumentsTypeInv
    <2>7. Counted'
        BY <1>2, <2>1, <2>5 DEF DocumentsInv, Counted
    <2>8. Stamped'
        BY <1>2, <2>1, <2>4 DEF DocumentsInv, Stamped
    <2>9. VersionsBounded'
        BY <2>1, <2>2, <2>4, <2>5 DEF DocumentsInv, VersionsBounded, Numbered
    <2>10. ASSUME ~overlapped' PROVE ~overlapped /\ Numbered = {}
        BY <2>1, <2>10 DEF Numbered
    <2>11. InTurn'
        BY <2>1, <2>2, <2>4, <2>5, <2>10 DEF DocumentsInv, InTurn
    <2> QED
        BY <1>3, <2>6, <2>7, <2>8, <2>9, <2>11 DEF DocumentsInv
<1>6. CASE Stamp(u)
    <2>1. /\ upload[u].at = "read" /\ clock' = clock + 1
          /\ upload' = [upload EXCEPT ![u].at = "stamped", ![u].created = clock]
          /\ UNCHANGED <<document, onDisk, overlapped>>
        BY <1>6 DEF Stamp
    <2>2. upload[u] \in UploadRow
        BY <1>1
    <2>3. /\ upload' \in [Uploads -> UploadRow] /\ upload'[u].at = "stamped"
          /\ upload'[u].version = upload[u].version /\ upload'[u].created = clock
          /\ \A w \in Uploads \ {u} : upload'[w] = upload[w]
        BY <1>1, <2>1, <2>2 DEF UploadRow
    <2>4. UnderWay' = UnderWay /\ Numbered' = Numbered /\ u \in Numbered
        BY <2>1, <2>3 DEF UnderWay, Numbered
    <2>5. DocumentsTypeInv'
        BY <1>1, <1>2, <2>1, <2>3, <2>4 DEF DocumentsInv, DocumentsTypeInv
    <2>6. Counted'
        BY <1>2, <2>1, <2>4 DEF DocumentsInv, Counted
    <2>7. \A d \in document : d.created \in Nat /\ d.created < clock
        BY DEF DocumentsInv, DocumentsTypeInv, DocumentRow, Stamped
    <2>8. clock \notin Created
        BY <1>1, <2>7 DEF Created
    <2>9. \A w \in Uploads : upload[w].at = "stamped" =>
            upload[w].created \in 1..(clock - 1) /\ upload[w].created # clock
        BY <1>1 DEF DocumentsInv, Stamped
    <2>10. Stamped'
        <3>1. \A d \in document' : d.created < clock'
            BY <1>1, <2>1, <2>7
        <3>2. \A w \in Uploads : upload'[w].at = "stamped" =>
                upload'[w].created \in 1..(clock' - 1) /\ upload'[w].created \notin Created'
            BY <1>1, <1>2, <2>1, <2>3, <2>8, <2>9 DEF DocumentsInv, Stamped
        <3>3. \A w, v \in Uploads :
                upload'[w].at = "stamped" /\ upload'[v].at = "stamped"
                    /\ upload'[w].created = upload'[v].created => w = v
            BY <2>3, <2>9 DEF DocumentsInv, Stamped
        <3> QED
            BY <2>1, <3>1, <3>2, <3>3 DEF DocumentsInv, Stamped
    <2>11. VersionsBounded'
        BY <2>1, <2>3, <2>4 DEF DocumentsInv, VersionsBounded, Numbered
    <2>12. InTurn'
        BY <2>1, <2>3, <2>4, <2>7 DEF DocumentsInv, InTurn, Numbered
    <2> QED
        BY <1>3, <2>5, <2>6, <2>10, <2>11, <2>12 DEF DocumentsInv
<1>7. CASE LoseUpload(u)
    <2>1. /\ upload[u].at # "waiting" /\ upload' = [upload EXCEPT ![u] = Waiting]
          /\ UNCHANGED <<document, onDisk, clock, overlapped>>
        BY <1>7 DEF LoseUpload
    <2>2. /\ upload' \in [Uploads -> UploadRow] /\ upload'[u].at = "waiting"
          /\ \A w \in Uploads \ {u} : upload'[w] = upload[w]
        BY <1>1, <2>1 DEF UploadRow, Waiting
    <2>3. UnderWay' = UnderWay \ {u} /\ Numbered' = Numbered \ {u} /\ u \in UnderWay
        BY <2>1, <2>2 DEF UnderWay, Numbered
    <2>4. IsFiniteSet(UnderWay') /\ Cardinality(UnderWay') = Cardinality(UnderWay) - 1
        BY <1>1, <2>3, FS_RemoveElement
    <2>5. DocumentsTypeInv'
        BY <1>2, <2>1, <2>2, <2>4 DEF DocumentsInv, DocumentsTypeInv
    <2>6. Counted'
        BY <1>1, <1>2, <2>1, <2>4 DEF DocumentsInv, Counted
    <2>7. Stamped'
        BY <1>2, <2>1, <2>2 DEF DocumentsInv, Stamped
    <2>8. \A w \in Numbered' : w \in Numbered /\ upload'[w] = upload[w]
        BY <2>2, <2>3 DEF Numbered
    <2>9. VersionsBounded' /\ InTurn'
        BY <2>1, <2>8 DEF DocumentsInv, VersionsBounded, InTurn
    <2> QED
        BY <1>3, <2>5, <2>6, <2>7, <2>9 DEF DocumentsInv
<1> QED
    BY <1>4, <1>5, <1>6, <1>7

(* A row is added under the stamp it was given, which no other row has.    *)
LEMMA CommitStep == ASSUME DocumentsInv, NEW u \in Uploads, CommitDocument(u) PROVE DocumentsInv'
<1> DEFINE row == [version |-> upload[u].version, created |-> upload[u].created]
<1>1. /\ upload[u].at = "stamped" /\ document' = document \cup {row}
      /\ upload' = [upload EXCEPT ![u] = Waiting]
      /\ UNCHANGED <<onDisk, clock, overlapped>>
    BY DEF CommitDocument
<1>2. /\ upload \in [Uploads -> UploadRow] /\ clock \in Nat \ {0}
      /\ onDisk \in 0..MaxDocuments /\ MaxDocuments \in Nat
      /\ document \subseteq DocumentRow
      /\ IsFiniteSet(document) /\ IsFiniteSet(UnderWay) /\ IsFiniteSet(Created)
      /\ Cardinality(document) \in Nat /\ Cardinality(UnderWay) \in Nat
    BY DocumentsAssumption, FS_CardinalityType DEF DocumentsInv, DocumentsTypeInv
<1>3. u \in Numbered /\ u \in UnderWay
    BY <1>1 DEF Numbered, UnderWay
<1>4. /\ row.version = upload[u].version /\ row.created = upload[u].created
      /\ row.version \in 1..(Cardinality(document) + 1) /\ row.created \in 1..(clock - 1)
      /\ row.created \notin Created /\ row \in DocumentRow
    <2>1. row.version = upload[u].version /\ row.created = upload[u].created
        OBVIOUS
    <2>2. row.version \in 1..(Cardinality(document) + 1) /\ row.created \in 1..(clock - 1)
        BY <1>1, <1>3, <2>1 DEF DocumentsInv, VersionsBounded, Stamped
    <2>3. row.created \notin Created
        BY <1>1, <2>1 DEF DocumentsInv, Stamped
    <2>4. upload[u].version \in Nat \ {0} /\ upload[u].created \in Nat \ {0}
        BY <1>2, <2>1, <2>2
    <2>5. row \in DocumentRow
        BY <2>4 DEF DocumentRow
    <2> QED
        BY <2>1, <2>2, <2>3, <2>5
<1> HIDE DEF row
<1>5. row \notin document /\ Created' = Created \cup {row.created}
    BY <1>1, <1>4 DEF Created
<1>6. /\ Cardinality(document') = Cardinality(document) + 1 /\ IsFiniteSet(document')
      /\ Cardinality(Created') = Cardinality(Created) + 1 /\ IsFiniteSet(Created')
    BY <1>1, <1>2, <1>4, <1>5, FS_AddElement
<1>7. /\ upload' \in [Uploads -> UploadRow] /\ upload'[u].at = "waiting"
      /\ \A w \in Uploads \ {u} : upload'[w] = upload[w]
    BY <1>1, <1>2 DEF UploadRow, Waiting
<1>8. UnderWay' = UnderWay \ {u} /\ Numbered' = Numbered \ {u}
    BY <1>7 DEF UnderWay, Numbered
<1>9. IsFiniteSet(UnderWay') /\ Cardinality(UnderWay') = Cardinality(UnderWay) - 1
    BY <1>2, <1>3, <1>8, FS_RemoveElement
<1>10. DocumentsTypeInv'
    BY <1>1, <1>2, <1>4, <1>6, <1>7, <1>9 DEF DocumentsInv, DocumentsTypeInv
<1>11. Counted'
    BY <1>1, <1>2, <1>6, <1>9 DEF DocumentsInv, Counted
<1>12. \A d \in document : /\ d.version \in Nat \ {0} /\ d.created \in Nat \ {0}
                           /\ d.created < clock /\ d.created # row.created
                           /\ d.version <= Cardinality(document)
    BY <1>2, <1>4 DEF DocumentsInv, DocumentRow, Stamped, VersionsBounded, Created
<1>13. Stamped'
    <2>1. \A d \in document' : d.created < clock'
        BY <1>1, <1>2, <1>4, <1>12
    <2>2. \A d, e \in document' : d.created = e.created => d = e
        BY <1>1, <1>12 DEF DocumentsInv, Stamped
    <2>3. \A w \in Uploads : upload'[w].at = "stamped" =>
            upload'[w].created \in 1..(clock' - 1) /\ upload'[w].created \notin Created'
        BY <1>1, <1>4, <1>5, <1>7 DEF DocumentsInv, Stamped
    <2>4. \A w, v \in Uploads :
            upload'[w].at = "stamped" /\ upload'[v].at = "stamped"
                /\ upload'[w].created = upload'[v].created => w = v
        BY <1>7 DEF DocumentsInv, Stamped
    <2> QED
        BY <2>1, <2>2, <2>3, <2>4 DEF Stamped
<1>14. VersionsBounded'
    <2>1. \A d \in document' : d.version <= Cardinality(document')
        BY <1>1, <1>2, <1>4, <1>6, <1>12
    <2>2. \A w \in Numbered' : upload'[w].version \in 1..(Cardinality(document') + 1)
        BY <1>2, <1>6, <1>7, <1>8 DEF DocumentsInv, VersionsBounded, Numbered
    <2> QED
        BY <2>1, <2>2 DEF VersionsBounded
<1>15. HasEnds'
    <2>1. CASE document = {}
        BY <1>1, <1>4, <2>1 DEF HasEnds, DocumentRow
    <2>2. CASE document # {}
        <3>1. PICK newest \in document : \A d \in document : d.created <= newest.created
            BY <2>2 DEF DocumentsInv, HasEnds
        <3>2. PICK top \in document : \A d \in document : d.version <= top.version
            BY <2>2 DEF DocumentsInv, HasEnds
        <3>3. row.created \in Nat /\ row.version \in Nat
            BY <1>2, <1>4
        <3>4. \E n \in document' : \A d \in document' : d.created <= n.created
            <4>1. CASE row.created <= newest.created
                BY <1>1, <1>12, <3>1, <4>1
            <4>2. CASE newest.created < row.created
                BY <1>1, <1>12, <3>1, <3>3, <4>2
            <4> QED
                BY <1>12, <3>3, <4>1, <4>2
        <3>5. \E t \in document' : \A d \in document' : d.version <= t.version
            <4>1. CASE row.version <= top.version
                BY <1>1, <1>12, <3>2, <4>1
            <4>2. CASE top.version < row.version
                BY <1>1, <1>12, <3>2, <3>3, <4>2
            <4> QED
                BY <1>12, <3>3, <4>1, <4>2
        <3> QED
            BY <3>4, <3>5 DEF HasEnds
    <2> QED
        BY <2>1, <2>2
<1>16. InTurn'
    <2> SUFFICES ASSUME ~overlapped PROVE InTurn'
        BY <1>1 DEF InTurn
    <2>1. Numbered' = {}
        BY <1>3, <1>8 DEF DocumentsInv, InTurn
    <2>2. \A d \in document : d.version < row.version /\ d.created < row.created
        BY <1>1, <1>3, <1>4 DEF DocumentsInv, InTurn
    <2>3. row.version \in Nat /\ row.created \in Nat
        BY <1>2, <1>4
    <2>4. \A d, e \in document' : d.created < e.created => d.version < e.version
        BY <1>1, <1>12, <2>2, <2>3 DEF DocumentsInv, InTurn
    <2> QED
        BY <2>1, <2>4 DEF InTurn
<1> QED
    BY <1>10, <1>11, <1>13, <1>14, <1>15, <1>16 DEF DocumentsInv

(* The documents' inductive invariant.                                     *)
THEOREM DocumentsInvariant == DocumentsSpec => []DocumentsInv
<1>1. DocumentsInv /\ [DNext]_dvars => DocumentsInv'
    <2> SUFFICES ASSUME DocumentsInv, [DNext]_dvars PROVE DocumentsInv'
        OBVIOUS
    <2>1. CASE UNCHANGED dvars
        BY <2>1 DEF dvars, DocumentsInv, DocumentsTypeInv, Counted, Stamped, VersionsBounded,
                    HasEnds, InTurn, Created, UnderWay, Numbered
    <2> QED
        BY <2>1, UploadSteps, CommitStep DEF DNext
<1> QED
    BY <1>1, DocumentsInit, PTL DEF DocumentsSpec

(***************************************************************************)
(* Source documents: the theorems.                                         *)
(***************************************************************************)

(* Every row has a file, no two rows share a stamp, and versions stay      *)
(* within the number of uploads, however many run at a time.               *)
THEOREM DocumentsTypes == DocumentsSpec => []DocumentsTypeOK
<1>1. DocumentsInv => DocumentsTypeOK
    <2> SUFFICES ASSUME DocumentsInv PROVE DocumentsTypeOK
        OBVIOUS
    <2>1. /\ Cardinality(document) \in Nat /\ Cardinality(UnderWay) \in Nat
          /\ onDisk \in 0..MaxDocuments /\ MaxDocuments \in Nat /\ clock \in Nat
        BY FS_CardinalityType, DocumentsAssumption DEF DocumentsInv, DocumentsTypeInv
    <2>2. Cardinality(document) <= MaxDocuments
        BY <2>1 DEF DocumentsInv, Counted
    <2>3. ASSUME NEW d \in document
          PROVE  d \in [version : 1..MaxDocuments, created : 1..(clock - 1)]
        <3>1. d \in DocumentRow /\ d.version <= Cardinality(document) /\ d.created < clock
            BY DEF DocumentsInv, DocumentsTypeInv, VersionsBounded, Stamped
        <3>2. d.version \in 1..MaxDocuments /\ d.created \in 1..(clock - 1)
            BY <2>1, <2>2, <3>1 DEF DocumentRow
        <3> QED
            BY <3>1, <3>2 DEF DocumentRow
    <2> QED
        BY <2>3 DEF DocumentsInv, DocumentsTypeInv, Counted, Created, UnderWay, DocumentsTypeOK
<1> QED
    BY <1>1, DocumentsInvariant, PTL

(* Unless two uploads overlapped, the document that is worked on has the   *)
(* highest version: the order of the stamps is that of the versions.       *)
THEOREM LatestHasHighestVersion == DocumentsSpec => []LatestIsHighestVersion
<1>1. DocumentsInv => LatestIsHighestVersion
    <2> SUFFICES ASSUME DocumentsInv, ~overlapped, document # {},
                        NEW d \in document \ {Latest}
                 PROVE  d.version < Latest.version
        BY DEF LatestIsHighestVersion
    <2>1. Latest \in document /\ \A other \in document : other.created <= Latest.created
        BY DEF DocumentsInv, HasEnds, Latest
    <2>2. d.created \in Nat /\ Latest.created \in Nat
        BY <2>1 DEF DocumentsInv, DocumentsTypeInv, DocumentRow
    <2>3. d.created # Latest.created
        BY <2>1 DEF DocumentsInv, Stamped
    <2> QED
        BY <2>1, <2>2, <2>3 DEF DocumentsInv, InTurn
<1> QED
    BY <1>1, DocumentsInvariant, PTL

(***************************************************************************)
(* Both directories.                                                       *)
(***************************************************************************)

(* The two together are each of them, whatever the other does: every file  *)
(* of either belongs to the row that says so.                              *)
THEOREM FilesTypes == Spec => PublishingSpec /\ DocumentsSpec /\ []TypeOK
<1>1. Init => PInit /\ DInit
    BY DEF Init
<1>2. [Next]_vars => [PNext]_pvars /\ [DNext]_dvars
    BY DEF Next, PackagesMove, DocumentsMove, vars
<1>3. PublishingTypeOK /\ DocumentsTypeOK => TypeOK
    BY DEF TypeOK
<1> QED
    BY <1>1, <1>2, <1>3, PackagesTypes, DocumentsTypes, PTL
       DEF Spec, PublishingSpec, DocumentsSpec
=============================================================================
