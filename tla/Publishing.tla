------------------------------ MODULE Publishing ------------------------------
(***************************************************************************)
(* Packages for KDP and IngramSpark (creator/publishing.py), built by a    *)
(* request that downloads the zip (creator/router.py) or by a job          *)
(* (creator/jobs.py).  Both read the edition, then its book, the book's    *)
(* author and its assets, each in a transaction of its own; building       *)
(* awaits nothing.                                                         *)
(*                                                                         *)
(* A package is reduced to what its destination checks: publisher, title,  *)
(* format and ISBN.  The texts and the checklists are left out, and so is  *)
(* the excerpt (see SourceDocuments).                                      *)
(***************************************************************************)
EXTENDS Integers

CONSTANTS
    Editions,
    BookOf,         \* the book of each edition
    Formats,        \* what edition.format may hold
    PrintFormats,   \* paperback, hardcover, print
    NoFormat,       \* an empty format
    Names,          \* names an author or a publisher field may have
    Marketplaces,   \* MARKETPLACE_NAMES
    Authors,        \* profiles an author may have: name, display, publisher
    NoName,         \* an empty name
    Requests,       \* builds that may run at the same time
    NoFile,
    MaxEdits        \* bound: changes of editions, books, profiles, approvals

ASSUME PublishingAssumption ==
    /\ Marketplaces \subseteq Names
    /\ NoName \notin Names
    /\ PrintFormats \subseteq Formats /\ NoFormat \in Formats \ PrintFormats
    /\ \A a \in Authors : a.name \in Names
                          /\ {a.display, a.publisher} \subseteq Names \cup {NoName}
    /\ MaxEdits \in Nat

Books == {BookOf[e] : e \in Editions}
Destinations == {"kdp", "ingramspark"}

VARIABLES
    edition,    \* publisher_field, format and whether there is an ISBN, by edition
    titled,     \* books whose final or working title is not empty
    author,     \* name and profile of the author, by book
    approved,   \* books whose required assets are approved
    file,       \* the zip files by name
    request,    \* what each build is doing
    edits       \* changes so far

pvars == <<edition, titled, author, approved, file, request, edits>>

(* The same name for every book, tenant and request. *)
FileName(dest, format) == <<dest, format>>
FileNames == {FileName(dest, format) : dest \in Destinations, format \in Formats}

Resting == [at |-> "resting", edition |-> NoFile, dest |-> "kdp", read |-> NoFile,
            titled |-> FALSE, who |-> NoFile, begun |-> NoFile, overwritten |-> FALSE]

PInit ==
    /\ edition \in [Editions -> [publisher : {NoName}, format : Formats, isbn : {FALSE}]]
    /\ titled = Books
    /\ author \in [Books -> Authors]
    /\ approved = Books
    /\ file = [n \in FileNames |-> NoFile]
    /\ request = [r \in Requests |-> Resting]
    /\ edits = 0

(***************************************************************************)
(* The adapters.                                                           *)
(***************************************************************************)

Or(name, other) == IF name = NoName THEN other ELSE name

AnyPublisher(publisher, who) == publisher # NoName

PublisherAllowed(publisher, who) ==
    /\ publisher \notin Marketplaces \cup {NoName}
    /\ publisher \in {who.name, who.display, who.publisher}

(* What validate judges, and what goes into metadata.json. *)
KdpJudged(read, who) == Or(read.publisher, Or(who.publisher, Or(who.display, who.name)))
KdpShipped(read, who) == Or(read.publisher, Or(who.publisher, who.name))

KdpOk(read, hasTitle, who) == PublisherAllowed(KdpJudged(read, who), who) /\ hasTitle

IngramOk(read) == (read.format \in PrintFormats => read.isbn) /\ read.format # NoFormat

Package(r) ==
    LET q == request[r]
    IN  [edition |-> q.edition, dest |-> q.dest, who |-> q.who, titled |-> q.titled,
         format |-> q.read.format, isbn |-> q.read.isbn,
         publisher |-> KdpShipped(q.read, q.who),
         ok |-> IF q.dest = "kdp" THEN KdpOk(q.read, q.titled, q.who) ELSE IngramOk(q.read)]

(***************************************************************************)
(* People change what packages are made of.                                *)
(***************************************************************************)

Edit ==
    /\ edits < MaxEdits /\ edits' = edits + 1
    /\ UNCHANGED <<file, request>>

UpdateEdition ==
    /\ Edit
    /\ \E e \in Editions, n \in Names \cup {NoName}, f \in Formats, b \in BOOLEAN :
        edition' = [edition EXCEPT ![e] = [publisher |-> n, format |-> f, isbn |-> b]]
    /\ UNCHANGED <<titled, author, approved>>

(* Titles are emptied or filled in; a final title replaces a working one.  *)
UpdateBook ==
    /\ Edit
    /\ \E b \in Books : titled' = IF b \in titled THEN titled \ {b} ELSE titled \cup {b}
    /\ UNCHANGED <<edition, author, approved>>

UpdateAuthor ==
    /\ Edit
    /\ \E b \in Books, a \in Authors : author' = [author EXCEPT ![b] = a]
    /\ UNCHANGED <<edition, titled, approved>>

(* An approval, or a new version of the description that lacks one. *)
ChangeApproval ==
    /\ Edit
    /\ \E b \in Books :
        approved' = IF b \in approved THEN approved \ {b} ELSE approved \cup {b}
    /\ UNCHANGED <<edition, titled, author>>

(***************************************************************************)
(* _package_response and execute_build_package.                            *)
(***************************************************************************)

ReadEdition(r) ==
    /\ request[r].at = "resting"
    /\ \E e \in Editions, dest \in Destinations :
        request' = [request EXCEPT ![r] = [Resting EXCEPT
            !.at = "book", !.edition = e, !.dest = dest, !.read = edition[e]]]
    /\ UNCHANGED <<edition, titled, author, approved, file, edits>>

ReadBook(r) ==
    /\ request[r].at = "book"
    /\ request' = [request EXCEPT ![r].at = "author",
                                  ![r].titled = BookOf[request[r].edition] \in titled]
    /\ UNCHANGED <<edition, titled, author, approved, file, edits>>

ReadAuthor(r) ==
    /\ request[r].at = "author"
    /\ request' = [request EXCEPT ![r].at = "gate",
                                  ![r].who = author[BookOf[request[r].edition]]]
    /\ UNCHANGED <<edition, titled, author, approved, file, edits>>

(* Without an approved description the build ends here, in Fail. *)
RequireApproved(r) ==
    /\ request[r].at = "gate" /\ BookOf[request[r].edition] \in approved
    /\ request' = [request EXCEPT ![r].at = "build"]
    /\ UNCHANGED <<edition, titled, author, approved, file, edits>>

Name(r) == FileName(request[r].dest, request[r].read.format)

(* Builds that have yet to serve the file are left with someone else's. *)
Built(r, at) ==
    [q \in Requests |->
        IF q = r THEN [request[q] EXCEPT !.at = at]
        ELSE IF request[q].at \in {"log", "open", "send"} /\ Name(q) = Name(r)
             THEN [request[q] EXCEPT !.overwritten = TRUE]
        ELSE request[q]]

WriteOnce(name, package) ==
    file' = IF file[name] = NoFile THEN [file EXCEPT ![name] = package] ELSE file

(* The file is written in place. *)
WriteZip(name, package) == file' = [file EXCEPT ![name] = package]

(* The zip is written whatever the validation says; only then does an      *)
(* invalid one end the build.                                              *)
Build(r) ==
    /\ request[r].at = "build"
    /\ WriteZip(Name(r), Package(r))
    /\ request' = IF Package(r).ok THEN Built(r, "log")
                  ELSE [Built(r, "log") EXCEPT ![r] = Resting]
    /\ UNCHANGED <<edition, titled, author, approved, edits>>

(* log_event commits "package_built".  A job ends there and keeps the path *)
(* as its result, a request serves the file: up to here they are the same. *)
LogBuilt(r) ==
    /\ request[r].at = "log"
    /\ \E next \in {Resting, [request[r] EXCEPT !.at = "open"]} :
        request' = [request EXCEPT ![r] = next]
    /\ UNCHANGED <<edition, titled, author, approved, file, edits>>

(* FileResponse opens the file by its name and sends it in pieces. *)
OpenFile(r) ==
    /\ request[r].at = "open"
    /\ request' = [request EXCEPT ![r].at = "send", ![r].begun = file[Name(r)]]
    /\ UNCHANGED <<edition, titled, author, approved, file, edits>>

Sent(r) ==
    /\ request[r].at = "send"
    /\ request' = [request EXCEPT ![r] = Resting]
    /\ UNCHANGED <<edition, titled, author, approved, file, edits>>

(* An error, or a client or process that goes away. *)
Fail(r) ==
    /\ request[r].at # "resting"
    /\ request' = [request EXCEPT ![r] = Resting]
    /\ UNCHANGED <<edition, titled, author, approved, file, edits>>

PNext ==
    \/ UpdateEdition \/ UpdateBook \/ UpdateAuthor \/ ChangeApproval
    \/ \E r \in Requests :
        \/ ReadEdition(r) \/ ReadBook(r) \/ ReadAuthor(r) \/ RequireApproved(r)
        \/ Build(r) \/ LogBuilt(r) \/ OpenFile(r) \/ Sent(r) \/ Fail(r)

PublishingSpec == PInit /\ [][PNext]_pvars

(***************************************************************************)
(* Properties.                                                             *)
(***************************************************************************)

(* Files hold packages under their own name, and a build past a read knows *)
(* the edition or the author it read.                                      *)
PublishingTypeOK ==
    /\ edition \in [Editions ->
            [publisher : Names \cup {NoName}, format : Formats, isbn : BOOLEAN]]
    /\ titled \subseteq Books
    /\ author \in [Books -> Authors]
    /\ approved \subseteq Books
    /\ \A n \in FileNames : file[n] # NoFile => FileName(file[n].dest, file[n].format) = n
    /\ \A r \in Requests :
        /\ request[r].at \in {"resting", "book", "author", "gate", "build", "log", "open", "send"}
        /\ request[r].at # "resting" => request[r].edition \in Editions
        /\ request[r].at \in {"gate", "build", "log", "open", "send"} => request[r].who \in Authors
    /\ edits \in 0..MaxEdits

(* A caller downloads, from its first byte to its last, the package it     *)
(* asked for, which passed its destination's validation, unless another    *)
(* build wrote the file of that name in between: the only way to get       *)
(* another book's package or an invalid one (creator/publishing.py:108).   *)
DownloadIsOwnAndValid ==
    \A r \in Requests : request[r].at = "send" /\ ~request[r].overwritten =>
        \A part \in {request[r].begun, file[Name(r)]} :
            /\ part.edition = request[r].edition /\ part.ok
            /\ part.who = request[r].who

(* What a package that passed says of itself is fit for its destination:   *)
(* KDP's has a title, and its publisher is a name of the author's and no   *)
(* marketplace, although validate and metadata.json pick it differently,   *)
(* unless the author's own name is a marketplace's; Ingram's has a format, *)
(* and its print editions an ISBN (creator/publishing.py:126, :140, :160,  *)
(* :210, :218).                                                            *)
PassedPackagesAreFit ==
    \A n \in FileNames : file[n] # NoFile =>
        LET p == file[n] IN p.ok =>
            /\ p.dest = "kdp" =>
                /\ p.titled
                /\ \/ /\ p.publisher \in {p.who.name, p.who.display, p.who.publisher}
                      /\ p.publisher \notin Marketplaces
                   \/ p.publisher = p.who.name /\ p.who.name \in Marketplaces
            /\ p.dest = "ingramspark" =>
                /\ p.format # NoFormat
                /\ p.format \in PrintFormats => p.isbn
=============================================================================
