------------------------------ MODULE DemoReset ------------------------------
(***************************************************************************)
(* The demo's rows: reset_demo (creator/service.py), seed_creatortrust     *)
(* (creator/seed.py) called by it and by the start of the process          *)
(* (lifespan in api.py), the binding of a Mind, and the jobs and requests  *)
(* that run beside them.  The ids of the seed are fixed; MindDB.author_id  *)
(* is unique; foreign keys are enforced, as PostgreSQL does.               *)
(*                                                                         *)
(* A book is its editions and excerpt as well: the seed inserts them and a *)
(* reset deletes them in one transaction.                                  *)
(***************************************************************************)
EXTENDS Integers, FiniteSets

CONSTANTS
    Resets,       \* POST /admin/demo-reset requests that may run at the same time
    Startup,      \* the seeding at the start of the process
    Users,        \* other requests, and the job worker
    Worker,       \* the job worker
    MaxDeletes,   \* bound: resets that get to delete
    MaxFaults,    \* bound: database operations of a reset that raise
    MaxRestarts   \* bound: starts of the process after the first

ASSUME DemoAssumption ==
    /\ Startup \notin Resets
    /\ MaxDeletes \in Nat /\ MaxFaults \in Nat /\ MaxRestarts \in Nat

Seeders == Resets \cup {Startup}

VARIABLES
    author,    \* the row SEED_AUTHOR_ID: "none", "seed", or "edited" since
    mind,      \* the author's row in minds: "none", SEED_MIND_ROW_ID or a bound one
    book,      \* the row SEED_BOOK_ID exists
    assets,    \* the generations of the book's assets: when their excerpt was read
    at,        \* where a seeder is
    reuse,     \* seed_creatortrust's argument reuse_author
    saw,       \* the rows the seed's transaction has found
    user,      \* what a user's operation is about to commit
    pending,   \* an earlier process may have left jobs for the author pending
    epoch,     \* history: deletes so far
    restored,  \* history: parts of the seed seen in place since the seeder deleted
    disrupted, \* history: a seeder failed while the book was missing, nothing restored it
    spanned,   \* history: a generation was running when a reset last deleted
    faults, restarts

rows == <<author, mind, book, assets>>
seeding == <<at, reuse, saw>>
bounds == <<faults, restarts>>
vars == <<rows, seeding, user, pending, epoch, restored, disrupted, spanned, bounds>>

Parts == {"author", "mind", "book"}

(* What of the seed is in place. *)
InPlace ==
    {p \in Parts :
        \/ p = "author" /\ author = "seed"
        \/ p = "mind" /\ mind # "none"
        \/ p = "book" /\ book}

(* Seeders between their delete and their commit of the rows. *)
Gap == {"check", "author", "create", "update", "rows", "commit"}

Idle == [op |-> "none", generation |-> 0, doc |-> "seed"]

(* A database the process may find when it starts. *)
Init ==
    /\ \/ author = "none" /\ mind = "none" /\ book = FALSE
       \/ author \in {"seed", "edited"} /\ mind = "seed" /\ book = TRUE
    /\ assets \in SUBSET (IF book THEN {0} ELSE {})
    /\ at = [s \in Seeders |-> IF s = Startup THEN "author" ELSE "idle"]
    /\ reuse = [s \in Seeders |-> FALSE]
    /\ saw = [s \in Seeders |-> {}]
    /\ user = [u \in Users |-> Idle]
    /\ pending = (author # "none")
    /\ epoch = 0
    /\ restored = [s \in Seeders |-> InPlace]
    /\ disrupted = FALSE /\ spanned = FALSE
    /\ faults = 0 /\ restarts = 0

(* History of a step: every seeder's record of what has been in place.     *)
Note == restored' = [s \in Seeders |-> restored[s] \cup InPlace']

Goto(s, label) == at' = [at EXCEPT ![s] = label]

Fails(s) ==
    /\ Goto(s, "failed")
    /\ disrupted' = (disrupted \/ (at[s] \in Gap /\ ~book))

(***************************************************************************)
(* reset_demo                                                              *)
(***************************************************************************)

StartReset(r) ==
    /\ at[Startup] = "ok"
    /\ at[r] \in {"idle", "ok", "failed"}
    /\ epoch < MaxDeletes
    /\ Goto(r, "delete")
    /\ UNCHANGED <<rows, reuse, saw, user, pending, epoch, restored, disrupted, spanned, bounds>>

DeleteThen(r, left) ==
    /\ at[r] = "delete"
    /\ epoch < MaxDeletes
    /\ book' = FALSE /\ mind' = "none" /\ assets' = left
    /\ epoch' = epoch + 1
    /\ Goto(r, "check")
    /\ restored' = [restored EXCEPT ![r] = {}]
    /\ spanned' = \E u \in Users : user[u].op = "generate"
    /\ UNCHANGED <<author, reuse, saw, user, pending, disrupted, bounds>>

DeleteButAssets(r) == DeleteThen(r, assets)

(* The one transaction of all deletes. *)
ResetDelete(r) == DeleteThen(r, {})

CheckAuthor(r) ==
    /\ at[r] = "check"
    /\ reuse' = [reuse EXCEPT ![r] = author # "none"]
    /\ Goto(r, "author")
    /\ UNCHANGED <<rows, saw, user, pending, epoch, restored, disrupted, spanned, bounds>>

(***************************************************************************)
(* seed_creatortrust                                                       *)
(***************************************************************************)

SeedOnlyOnce(s) ==
    /\ at[s] = "author"
    /\ Goto(s, IF author = "none" THEN "create" ELSE "audit")
    /\ UNCHANGED <<rows, reuse, saw, user, pending, epoch, restored, disrupted, spanned, bounds>>

SeedStart(s) ==
    /\ at[s] = "author"
    /\ Goto(s, IF author = "none" THEN "create" ELSE IF reuse[s] THEN "update" ELSE "rows")
    /\ UNCHANGED <<rows, reuse, saw, user, pending, epoch, restored, disrupted, spanned, bounds>>

CreateAuthor(s) ==
    /\ at[s] = "create"
    /\ IF author = "none"
         THEN author' = "seed" /\ Goto(s, "rows") /\ UNCHANGED disrupted
         ELSE Fails(s) /\ UNCHANGED author
    /\ UNCHANGED <<mind, book, assets, reuse, saw, user, pending, epoch, spanned, bounds>>
    /\ Note

UpdateAuthor(s) ==
    /\ at[s] = "update"
    /\ author' = "seed"
    /\ Goto(s, "rows")
    /\ UNCHANGED <<mind, book, assets, reuse, saw, user, pending, epoch, disrupted, spanned, bounds>>
    /\ Note

SeedRead(s) ==
    /\ at[s] = "rows"
    /\ saw' = [saw EXCEPT ![s] = {p \in {"mind", "book"} :
                                     IF p = "mind" THEN mind = "seed" ELSE book}]
    /\ Goto(s, "commit")
    /\ UNCHANGED <<rows, reuse, user, pending, epoch, restored, disrupted, spanned, bounds>>

(* A row that has come since the read, or a Mind bound under another id,   *)
(* violates a key: nothing of the transaction is kept.                     *)
Conflict(s) ==
    \/ "mind" \notin saw[s] /\ mind # "none"
    \/ "book" \notin saw[s] /\ book

SeedCommit(s) ==
    /\ at[s] = "commit" /\ ~Conflict(s)
    /\ mind' = IF "mind" \in saw[s] THEN mind ELSE "seed"
    /\ book' = (book \/ "book" \notin saw[s])
    /\ Goto(s, "audit")
    /\ disrupted' = (disrupted /\ ~(book' /\ mind' # "none"))
    /\ UNCHANGED <<author, assets, reuse, saw, user, pending, epoch, spanned, bounds>>
    /\ Note

ConflictIgnored(s) ==
    /\ at[s] = "commit" /\ Conflict(s)
    /\ Goto(s, "audit")
    /\ UNCHANGED <<rows, reuse, saw, user, pending, epoch, restored, disrupted, spanned, bounds>>

SeedConflict(s) ==
    /\ at[s] = "commit" /\ Conflict(s)
    /\ Fails(s)
    /\ UNCHANGED <<rows, reuse, saw, user, pending, epoch, restored, spanned, bounds>>

(* The event of a reset; the start of the process writes none. *)
Finish(s) ==
    /\ at[s] = "audit"
    /\ Goto(s, "ok")
    /\ UNCHANGED <<rows, reuse, saw, user, pending, epoch, restored, disrupted, spanned, bounds>>

(* A database operation raises; in the delete this includes an asset that  *)
(* is inserted between the deletes of assets and of books.                 *)
SeederFails(s) ==
    /\ faults < MaxFaults
    /\ at[s] \notin {"idle", "ok", "failed"}
    /\ faults' = faults + 1
    /\ Fails(s)
    /\ UNCHANGED <<rows, reuse, saw, user, pending, epoch, restored, spanned, restarts>>

(***************************************************************************)
(* Beside them                                                             *)
(***************************************************************************)

(* The worker is started before the seeding, requests are served after it. *)
Begin(u, op) ==
    /\ user[u].op = "none"
    /\ at[Startup] = "ok" \/ (u = Worker /\ pending)
    /\ user' = [user EXCEPT ![u] = op]
    /\ UNCHANGED <<rows, seeding, pending, epoch, restored, disrupted, spanned, bounds>>

End(u) ==
    /\ user' = [user EXCEPT ![u] = Idle]
    /\ UNCHANGED <<seeding, pending, epoch, disrupted, spanned, bounds>>

(* A generate_assets job, which the worker may run before the start of the *)
(* process is complete, has read the book, the author and an excerpt: the  *)
(* seed's, or one uploaded since the last reset.                           *)
ReadExcerpt(u, doc) ==
    /\ book
    /\ Begin(u, [op |-> "generate", generation |-> epoch, doc |-> doc])

(* Its assets refer to the book and the excerpt by foreign keys.           *)
PersistUnreferenced(u) ==
    /\ user[u].op = "generate"
    /\ assets' = assets \cup {user[u].generation}
    /\ End(u)
    /\ UNCHANGED <<author, mind, book, restored>>

PersistAssets(u) ==
    LET job == user[u] IN
    /\ job.op = "generate"
    /\ assets' = IF book /\ (job.doc = "seed" \/ job.generation = epoch)
                   THEN assets \cup {job.generation} ELSE assets
    /\ End(u)
    /\ UNCHANGED <<author, mind, book, restored>>

(* _bind_default_mind, by GET mind/status or a message job: no Mind found. *)
BindRead(u) ==
    /\ author # "none" /\ mind = "none"
    /\ Begin(u, [Idle EXCEPT !.op = "bind"])

BindInsert(u) ==
    /\ user[u].op = "bind"
    /\ mind' = IF mind = "none" THEN "bound" ELSE mind
    /\ End(u)
    /\ UNCHANGED <<author, book, assets>>
    /\ Note

SaveAuthor ==
    /\ at[Startup] = "ok" /\ author = "seed"
    /\ author' = "edited"
    /\ UNCHANGED <<mind, book, assets, seeding, user, pending, epoch, restored, disrupted, spanned, bounds>>

(* The process dies and starts again: requests and jobs in flight are gone. *)
Restart ==
    /\ restarts < MaxRestarts
    /\ restarts' = restarts + 1
    /\ at' = [s \in Seeders |-> IF s = Startup THEN "author" ELSE "idle"]
    /\ user' = [u \in Users |-> Idle]
    /\ pending' = (pending \/ at[Startup] = "ok")
    /\ restored' = [s \in Seeders |-> InPlace]
    /\ disrupted' = (disrupted \/ ~book)
    /\ UNCHANGED <<rows, reuse, saw, epoch, spanned, faults>>

Seed(s) ==
    \/ SeedStart(s) \/ CreateAuthor(s) \/ UpdateAuthor(s)
    \/ SeedRead(s) \/ SeedCommit(s) \/ SeedConflict(s)
    \/ Finish(s) \/ SeederFails(s)

Next ==
    \/ \E r \in Resets : StartReset(r) \/ ResetDelete(r) \/ CheckAuthor(r)
    \/ \E s \in Seeders : Seed(s)
    \/ \E u \in Users :
          \/ \E doc \in {"seed", "upload"} : ReadExcerpt(u, doc)
          \/ PersistAssets(u) \/ BindRead(u) \/ BindInsert(u)
    \/ SaveAuthor
    \/ Restart

Spec == Init /\ [][Next]_vars

(***************************************************************************)
(* Properties                                                              *)
(***************************************************************************)

TypeOK ==
    /\ author \in {"none", "seed", "edited"}
    /\ mind \in {"none", "seed", "bound"}
    /\ book \in BOOLEAN
    /\ author = "none" => mind = "none" /\ book = FALSE
    /\ ~book => assets = {}
    /\ assets \subseteq 0..epoch
    /\ at \in [Seeders -> Gap \cup {"idle", "delete", "audit", "ok", "failed"}]
    /\ reuse \in [Seeders -> BOOLEAN]
    /\ saw \in [Seeders -> SUBSET {"mind", "book"}]
    /\ user \in [Users -> [op : {"none", "generate", "bind"}, generation : 0..epoch,
                           doc : {"seed", "upload"}]]
    /\ epoch \in 0..MaxDeletes
    /\ restored \in [Seeders -> SUBSET Parts]
    /\ pending \in BOOLEAN /\ disrupted \in BOOLEAN /\ spanned \in BOOLEAN
    /\ faults \in 0..MaxFaults /\ restarts \in 0..MaxRestarts

(* A reset that answers ok has restored the demo: since its delete the     *)
(* profile, a Mind and the book have been in place, whatever other resets  *)
(* did meanwhile.  So has a start of the process, but for the profile.     *)
OkMeansRestored ==
    \A s \in Seeders :
        at[s] = "ok" => Parts \ (IF s = Startup THEN {"author"} ELSE {}) \subseteq restored[s]

(* The book is missing only while a reset or a start of the process is     *)
(* between its delete and its commit, or after one that failed there: two  *)
(* resets do not undo each other and both report success.                  *)
MissingHasACause ==
    ~book => disrupted \/ \E s \in Seeders : at[s] \in Gap

(* Assets whose excerpt was read before the last reset outlive it only if  *)
(* a generation was running when it deleted.                               *)
StaleAssetsHaveACause ==
    assets \subseteq {epoch} \/ spanned

(* "Idempotent seed for the demo author, book, editions, and excerpt"      *)
(* (creator/seed.py): without a fault, the start of the process seeds.     *)
SeedIsIdempotent ==
    faults = 0 => at[Startup] # "failed"

=============================================================================
