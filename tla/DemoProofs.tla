------------------------------ MODULE DemoProofs ------------------------------
(***************************************************************************)
(* Proofs about DemoReset: what a reset has achieved when it answers, and  *)
(* what a missing book or stale assets can come from, for every set of     *)
(* resets and requests and any number of deletes, failures and restarts.   *)
(***************************************************************************)
EXTENDS DemoReset, TLAPS

(***************************************************************************)
(* The inductive invariant.                                                *)
(***************************************************************************)

(* Who writes rows that refer to the author has seen the author, which no  *)
(* step deletes.                                                           *)
AuthorKnown ==
    /\ \A s \in Seeders : at[s] \in {"update", "rows", "commit"} => author # "none"
    /\ \A u \in Users : user[u].op = "bind" => author # "none"

(* A seeder's record misses nothing that has come since its delete.  A     *)
(* reset that found no author and later finds one need not write it: then  *)
(* somebody else has, since the delete.                                    *)
Recorded(s) ==
    /\ InPlace \ {"author"} \subseteq restored[s]
    /\ at[s] = "commit" => saw[s] \subseteq restored[s]
    /\ at[s] \in {"audit", "ok"} => {"mind", "book"} \subseteq restored[s]
    /\ s \in Resets =>
        /\ at[s] \in {"rows", "commit", "audit", "ok"} => "author" \in restored[s]
        /\ at[s] = "author" /\ ~reuse[s] /\ author # "none" => "author" \in restored[s]

(* A seeder that is going to insert the book. *)
WillInsert(s) == at[s] \in Gap /\ (at[s] = "commit" => "book" \notin saw[s])

BookIsAwaited == book \/ disrupted \/ \E s \in Seeders : WillInsert(s)

(* Unless a generation spanned the last delete, all that are under way     *)
(* have begun after it.                                                    *)
GenerationsAreFresh ==
    \/ spanned
    \/ /\ assets \subseteq {epoch}
       /\ \A u \in Users : user[u].op = "generate" => user[u].generation = epoch

DemoInv ==
    /\ TypeOK
    /\ AuthorKnown
    /\ \A s \in Seeders : Recorded(s)
    /\ BookIsAwaited
    /\ GenerationsAreFresh

(***************************************************************************)
(* Types.                                                                  *)
(***************************************************************************)

(* The databases the process may find when it starts.                      *)
LEMMA DemoInit == Init => DemoInv
<1> SUFFICES ASSUME Init PROVE DemoInv
    OBVIOUS
<1>1. TypeOK
    <2>1. /\ author \in {"none", "seed", "edited"} /\ mind \in {"none", "seed", "bound"}
          /\ book \in BOOLEAN /\ (author = "none" => mind = "none" /\ book = FALSE)
        BY DEF Init
    <2>2. (~book => assets = {}) /\ assets \subseteq 0..epoch
        BY DEF Init
    <2>3. /\ at \in [Seeders -> Gap \cup {"idle", "delete", "audit", "ok", "failed"}]
          /\ reuse \in [Seeders -> BOOLEAN]
          /\ saw \in [Seeders -> SUBSET {"mind", "book"}]
          /\ restored \in [Seeders -> SUBSET Parts]
        BY DEF Init, Gap, InPlace
    <2>4. user \in [Users -> [op : {"none", "generate", "bind"}, generation : 0..epoch,
                             doc : {"seed", "upload"}]]
        BY DEF Init, Idle
    <2>5. /\ epoch \in 0..MaxDeletes /\ faults \in 0..MaxFaults
          /\ restarts \in 0..MaxRestarts
        BY DemoAssumption DEF Init
    <2>6. pending \in BOOLEAN /\ disrupted \in BOOLEAN /\ spanned \in BOOLEAN
        BY DEF Init
    <2> QED
        BY <2>1, <2>2, <2>3, <2>4, <2>5, <2>6 DEF TypeOK
<1>2. AuthorKnown
    BY DEF Init, AuthorKnown, Idle
<1>3. ASSUME NEW s \in Seeders PROVE Recorded(s)
    BY <1>3, DemoAssumption DEF Init, Recorded, Seeders
<1>4. BookIsAwaited
    BY DEF Init, BookIsAwaited, WillInsert, Gap, Seeders
<1>5. GenerationsAreFresh
    BY DEF Init, GenerationsAreFresh, Idle
<1> QED
    BY <1>1, <1>2, <1>3, <1>4, <1>5 DEF DemoInv

(* Every step keeps the types, and the foreign keys between the rows.      *)
LEMMA TypeNext == TypeOK /\ AuthorKnown /\ [Next]_vars => TypeOK' /\ AuthorKnown'
<1> SUFFICES ASSUME TypeOK, AuthorKnown, [Next]_vars PROVE TypeOK' /\ AuthorKnown'
    OBVIOUS
<1> USE DEF TypeOK, AuthorKnown, Seeders, Gap, Goto, rows, seeding, bounds
<1>1. ASSUME NEW r \in Resets, StartReset(r) PROVE TypeOK' /\ AuthorKnown'
    BY <1>1 DEF StartReset
<1>2. ASSUME NEW r \in Resets, ResetDelete(r) PROVE TypeOK' /\ AuthorKnown'
    <2>1. /\ epoch' \in 0..MaxDeletes /\ 0..epoch \subseteq 0..epoch'
          /\ book' = FALSE /\ mind' = "none" /\ assets' = {}
          /\ at' = [at EXCEPT ![r] = "check"] /\ restored' = [restored EXCEPT ![r] = {}]
          /\ spanned' \in BOOLEAN
          /\ UNCHANGED <<author, reuse, saw, user, pending, disrupted, faults, restarts>>
        BY <1>2, DemoAssumption DEF ResetDelete, DeleteThen
    <2> QED
        BY <2>1
<1>3. ASSUME NEW r \in Resets, CheckAuthor(r) PROVE TypeOK' /\ AuthorKnown'
    BY <1>3 DEF CheckAuthor
<1>4. ASSUME NEW s \in Seeders, SeedStart(s) PROVE TypeOK' /\ AuthorKnown'
    BY <1>4 DEF SeedStart
<1>5. ASSUME NEW s \in Seeders, CreateAuthor(s) PROVE TypeOK' /\ AuthorKnown'
    BY <1>5 DEF CreateAuthor, Fails, Note, InPlace, Parts
<1>6. ASSUME NEW s \in Seeders, UpdateAuthor(s) PROVE TypeOK' /\ AuthorKnown'
    BY <1>6 DEF UpdateAuthor, Note, InPlace, Parts
<1>7. ASSUME NEW s \in Seeders, SeedRead(s) PROVE TypeOK' /\ AuthorKnown'
    BY <1>7 DEF SeedRead
<1>8. ASSUME NEW s \in Seeders, SeedCommit(s) PROVE TypeOK' /\ AuthorKnown'
    BY <1>8 DEF SeedCommit, Note, InPlace, Parts
<1>9. ASSUME NEW s \in Seeders, SeedConflict(s) PROVE TypeOK' /\ AuthorKnown'
    BY <1>9 DEF SeedConflict, Fails
<1>10. ASSUME NEW s \in Seeders, Finish(s) PROVE TypeOK' /\ AuthorKnown'
    BY <1>10 DEF Finish
<1>11. ASSUME NEW s \in Seeders, SeederFails(s) PROVE TypeOK' /\ AuthorKnown'
    BY <1>11, DemoAssumption DEF SeederFails, Fails
<1>12. ASSUME NEW u \in Users, NEW doc \in {"seed", "upload"}, ReadExcerpt(u, doc)
       PROVE  TypeOK' /\ AuthorKnown'
    BY <1>12, DemoAssumption DEF ReadExcerpt, Begin
<1>13. ASSUME NEW u \in Users, PersistAssets(u) PROVE TypeOK' /\ AuthorKnown'
    <2>1. /\ assets' \subseteq 0..epoch /\ (~book => assets' = {})
          /\ user' = [user EXCEPT ![u] = Idle]
          /\ UNCHANGED <<author, mind, book, seeding, restored, pending, epoch, disrupted,
                          spanned, bounds>>
        BY <1>13 DEF PersistAssets, End
    <2> QED
        BY <2>1, DemoAssumption DEF Idle
<1>14. ASSUME NEW u \in Users, BindRead(u) PROVE TypeOK' /\ AuthorKnown'
    BY <1>14 DEF BindRead, Begin, Idle
<1>15. ASSUME NEW u \in Users, BindInsert(u) PROVE TypeOK' /\ AuthorKnown'
    BY <1>15 DEF BindInsert, End, Idle, Note, InPlace, Parts
<1>16. CASE SaveAuthor
    BY <1>16 DEF SaveAuthor
<1>17. CASE Restart
    BY <1>17, DemoAssumption DEF Restart, Idle, InPlace, Parts
<1>18. CASE UNCHANGED vars
    BY <1>18 DEF vars
<1> HIDE DEF TypeOK, AuthorKnown, Seeders, Gap, Goto, rows, seeding, bounds
<1> QED
    BY <1>1, <1>2, <1>3, <1>4, <1>5, <1>6, <1>7, <1>8, <1>9, <1>10, <1>11, <1>12, <1>13,
       <1>14, <1>15, <1>16, <1>17, <1>18 DEF Next, Seed

(***************************************************************************)
(* What has been restored.                                                 *)
(***************************************************************************)

(* A step that notes what is in place keeps the records of the others.     *)
LEMMA NoteKeeps ==
    ASSUME TypeOK, Note, NEW s \in Seeders, Recorded(s),
           at'[s] = at[s], saw'[s] = saw[s], reuse'[s] = reuse[s],
           author = "none" => author' \in {"none", "seed"}
    PROVE  Recorded(s)'
<1>1. restored'[s] = restored[s] \cup InPlace'
    BY DEF Note
<1>2. author = "none" /\ author' # "none" => "author" \in InPlace'
    BY DEF InPlace, Parts
<1> QED
    BY <1>1, <1>2 DEF Recorded

(* A step that brings no row keeps the records of those that do not move.  *)
LEMMA RestKeeps ==
    ASSUME NEW s \in Seeders, Recorded(s), InPlace' \ {"author"} \subseteq InPlace,
           at'[s] = at[s], saw'[s] = saw[s], reuse'[s] = reuse[s],
           restored'[s] = restored[s], author' = author \/ author # "none"
    PROVE  Recorded(s)'
    BY DEF Recorded

(* No step makes a seeder forget, or go on to answer before the profile, a *)
(* Mind and the book have been in place.                                   *)
LEMMA RecordedNext ==
    TypeOK /\ AuthorKnown /\ (\A s \in Seeders : Recorded(s)) /\ [Next]_vars
        => (\A s \in Seeders : Recorded(s))'
<1> SUFFICES ASSUME TypeOK, AuthorKnown, \A s \in Seeders : Recorded(s), [Next]_vars,
                    NEW s \in Seeders
             PROVE  Recorded(s)'
    OBVIOUS
<1>0. Recorded(s) /\ at \in [Seeders -> Gap \cup {"idle", "delete", "audit", "ok", "failed"}]
      /\ reuse \in [Seeders -> BOOLEAN] /\ saw \in [Seeders -> SUBSET {"mind", "book"}]
      /\ restored \in [Seeders -> SUBSET Parts]
    BY DEF TypeOK
<1>1. UNCHANGED <<author, mind, book>> => InPlace' = InPlace
    BY DEF InPlace
<1>2. ASSUME NEW r \in Resets, StartReset(r) PROVE Recorded(s)'
    BY <1>0, <1>1, <1>2, RestKeeps DEF StartReset, Goto, rows, Recorded, Seeders
<1>3. ASSUME NEW r \in Resets, ResetDelete(r) PROVE Recorded(s)'
    <2>1. InPlace' \subseteq {"author"} /\ InPlace' \subseteq InPlace
        BY <1>3 DEF ResetDelete, DeleteThen, InPlace, Parts
    <2>2. CASE s = r
        BY <1>0, <1>3, <2>1, <2>2 DEF ResetDelete, DeleteThen, Goto, Recorded
    <2>3. CASE s # r
        BY <1>0, <1>3, <2>1, <2>3, RestKeeps DEF ResetDelete, DeleteThen, Goto, Seeders
    <2> QED
        BY <2>2, <2>3
<1>4. ASSUME NEW r \in Resets, CheckAuthor(r) PROVE Recorded(s)'
    BY <1>0, <1>1, <1>4 DEF CheckAuthor, Goto, rows, Recorded, Seeders
<1>5. ASSUME NEW q \in Seeders, SeedStart(q) PROVE Recorded(s)'
    BY <1>0, <1>1, <1>5 DEF SeedStart, Goto, rows, Recorded, Seeders
<1>6. ASSUME NEW q \in Seeders, CreateAuthor(q) PROVE Recorded(s)'
    <2>1. CASE s = q /\ author = "none"
        <3>1. "author" \in InPlace' /\ restored'[s] = restored[s] \cup InPlace'
            BY <1>6, <2>1 DEF CreateAuthor, Note, InPlace, Parts
        <3> QED
            BY <1>0, <1>6, <2>1, <3>1 DEF CreateAuthor, Goto, Recorded
    <2>2. CASE s = q /\ author # "none"
        BY <1>0, <1>1, <1>6, <2>2 DEF CreateAuthor, Fails, Goto, Note, Recorded
    <2>3. CASE s # q
        BY <1>0, <1>6, <2>3, NoteKeeps DEF CreateAuthor, Fails, Goto
    <2> QED
        BY <2>1, <2>2, <2>3
<1>7. ASSUME NEW q \in Seeders, UpdateAuthor(q) PROVE Recorded(s)'
    <2>1. CASE s = q
        <3>1. "author" \in InPlace' /\ restored'[s] = restored[s] \cup InPlace'
            BY <1>7 DEF UpdateAuthor, Note, InPlace, Parts
        <3> QED
            BY <1>0, <1>7, <2>1, <3>1 DEF UpdateAuthor, Goto, Recorded
    <2>2. CASE s # q
        BY <1>0, <1>7, <2>2, NoteKeeps DEF UpdateAuthor, Goto
    <2> QED
        BY <2>1, <2>2
<1>8. ASSUME NEW q \in Seeders, SeedRead(q) PROVE Recorded(s)'
    <2>1. saw'[q] \subseteq InPlace \ {"author"}
        BY <1>0, <1>8 DEF SeedRead, InPlace, Parts
    <2> QED
        BY <1>0, <1>1, <1>8, <2>1 DEF SeedRead, Goto, rows, Recorded
<1>9. ASSUME NEW q \in Seeders, SeedCommit(q) PROVE Recorded(s)'
    <2>1. CASE s = q
        <3>1. restored'[s] = restored[s] \cup InPlace'
            BY <1>9 DEF SeedCommit, Note
        <3>2. /\ "mind" \notin saw[s] => "mind" \in InPlace'
              /\ "book" \notin saw[s] => "book" \in InPlace'
            BY <1>9, <2>1 DEF SeedCommit, InPlace, Parts
        <3>3. {"mind", "book"} \subseteq restored'[s] /\ restored[s] \subseteq restored'[s]
            BY <1>0, <1>9, <2>1, <3>1, <3>2 DEF SeedCommit, Recorded
        <3> QED
            BY <1>0, <1>9, <2>1, <3>1, <3>3 DEF SeedCommit, Goto, Recorded
    <2>2. CASE s # q
        BY <1>0, <1>9, <2>2, NoteKeeps DEF SeedCommit, Goto
    <2> QED
        BY <2>1, <2>2
<1>10. ASSUME NEW q \in Seeders, SeedConflict(q) \/ Finish(q) \/ SeederFails(q)
       PROVE  Recorded(s)'
    BY <1>0, <1>1, <1>10 DEF SeedConflict, Finish, SeederFails, Fails, Goto, rows, Recorded
<1>11. ASSUME NEW u \in Users,
              \/ \E doc \in {"seed", "upload"} : ReadExcerpt(u, doc)
              \/ PersistAssets(u) \/ BindRead(u)
       PROVE  Recorded(s)'
    BY <1>0, <1>1, <1>11, RestKeeps DEF ReadExcerpt, PersistAssets, BindRead, Begin, End,
        rows, seeding
<1>12. ASSUME NEW u \in Users, BindInsert(u) PROVE Recorded(s)'
    BY <1>0, <1>12, NoteKeeps DEF BindInsert, End, seeding
<1>13. CASE SaveAuthor
    <2>1. InPlace' \ {"author"} \subseteq InPlace
        BY <1>13 DEF SaveAuthor, InPlace
    <2> QED
        BY <1>0, <1>13, <2>1, RestKeeps DEF SaveAuthor, seeding
<1>14. CASE Restart
    BY <1>0, <1>1, <1>14, DemoAssumption DEF Restart, Recorded, rows, Seeders
<1>15. CASE UNCHANGED vars
    BY <1>0, <1>1, <1>15, RestKeeps DEF vars, rows, seeding
<1> QED
    BY <1>2, <1>3, <1>4, <1>5, <1>6, <1>7, <1>8, <1>9, <1>10, <1>11, <1>12, <1>13, <1>14,
       <1>15 DEF Next, Seed

(***************************************************************************)
(* Where a missing book comes from.                                        *)
(***************************************************************************)

(* A step that keeps the book keeps somebody who inserts a missing one: a  *)
(* seeder that moves goes on to insert it, has inserted it or has failed.  *)
LEMMA AwaitedNext == TypeOK /\ BookIsAwaited /\ [Next]_vars => BookIsAwaited'
<1> SUFFICES ASSUME TypeOK, BookIsAwaited, [Next]_vars PROVE BookIsAwaited'
    OBVIOUS
<1>0. /\ at \in [Seeders -> Gap \cup {"idle", "delete", "audit", "ok", "failed"}]
      /\ saw \in [Seeders -> SUBSET {"mind", "book"}] /\ book \in BOOLEAN
    BY DEF TypeOK
<1>1. ASSUME NEW q \in Seeders, book' = book, disrupted' = disrupted,
             \A s \in Seeders \ {q} : at'[s] = at[s] /\ saw'[s] = saw[s],
             ~book /\ WillInsert(q) => WillInsert(q)' \/ disrupted'
      PROVE  BookIsAwaited'
    BY <1>1 DEF BookIsAwaited, WillInsert
<1>2. ASSUME NEW r \in Resets, StartReset(r) PROVE BookIsAwaited'
    <2>1. r \in Seeders /\ ~WillInsert(r)
        BY <1>2 DEF StartReset, WillInsert, Gap, Seeders
    <2> QED
        BY <1>0, <1>1, <1>2, <2>1 DEF StartReset, Goto, rows
<1>3. ASSUME NEW r \in Resets, ResetDelete(r) PROVE BookIsAwaited'
    <2>1. WillInsert(r)' /\ r \in Seeders
        BY <1>0, <1>3 DEF ResetDelete, DeleteThen, Goto, WillInsert, Gap, Seeders
    <2> QED
        BY <2>1 DEF BookIsAwaited
<1>4. ASSUME NEW r \in Resets, CheckAuthor(r) PROVE BookIsAwaited'
    <2>1. WillInsert(r)' /\ r \in Seeders
        BY <1>0, <1>4 DEF CheckAuthor, Goto, WillInsert, Gap, Seeders
    <2> QED
        BY <2>1 DEF BookIsAwaited
<1>5. ASSUME NEW q \in Seeders, SeedStart(q) \/ UpdateAuthor(q) PROVE BookIsAwaited'
    <2>1. WillInsert(q)'
        BY <1>0, <1>5 DEF SeedStart, UpdateAuthor, Goto, WillInsert, Gap
    <2> QED
        BY <2>1 DEF BookIsAwaited
<1>6. ASSUME NEW q \in Seeders, Fails(q), book' = book, saw' = saw PROVE BookIsAwaited'
    BY <1>0, <1>6 DEF Fails, Goto, BookIsAwaited, WillInsert, Gap
<1>7. ASSUME NEW q \in Seeders, CreateAuthor(q) PROVE BookIsAwaited'
    <2>1. CASE author = "none"
        <3>1. WillInsert(q)'
            BY <1>0, <1>7, <2>1 DEF CreateAuthor, Goto, WillInsert, Gap
        <3> QED
            BY <3>1 DEF BookIsAwaited
    <2>2. CASE author # "none"
        BY <1>6, <1>7, <2>2 DEF CreateAuthor
    <2> QED
        BY <2>1, <2>2
<1>8. ASSUME NEW q \in Seeders, SeedRead(q) PROVE BookIsAwaited'
    <2>1. ~book => WillInsert(q)'
        BY <1>0, <1>8 DEF SeedRead, Goto, WillInsert, Gap
    <2> QED
        BY <1>8, <2>1 DEF SeedRead, rows, BookIsAwaited
<1>9. ASSUME NEW q \in Seeders, SeedCommit(q) PROVE BookIsAwaited'
    <2>1. CASE "book" \in saw[q]
        <3>1. ~WillInsert(q) /\ book' = book
            BY <1>0, <1>9, <2>1 DEF SeedCommit, WillInsert
        <3>2. ~book' => disrupted' = disrupted
            BY <1>0, <1>9, <3>1 DEF SeedCommit, TypeOK
        <3>3. \A s \in Seeders : WillInsert(s) => WillInsert(s)'
            BY <1>0, <1>9, <3>1 DEF SeedCommit, Goto, WillInsert
        <3> QED
            BY <3>1, <3>2, <3>3 DEF BookIsAwaited
    <2>2. CASE "book" \notin saw[q]
        BY <1>9, <2>2 DEF SeedCommit, BookIsAwaited
    <2> QED
        BY <2>1, <2>2
<1>10. ASSUME NEW q \in Seeders, SeedConflict(q) \/ SeederFails(q) PROVE BookIsAwaited'
    BY <1>6, <1>10 DEF SeedConflict, SeederFails, rows
<1>11. ASSUME NEW q \in Seeders, Finish(q) PROVE BookIsAwaited'
    <2>1. ~WillInsert(q)
        BY <1>11 DEF Finish, WillInsert, Gap
    <2> QED
        BY <1>0, <1>1, <1>11, <2>1 DEF Finish, Goto, rows
<1>12. CASE \/ SaveAuthor \/ UNCHANGED vars
            \/ \E u \in Users : \/ \E doc \in {"seed", "upload"} : ReadExcerpt(u, doc)
                              \/ PersistAssets(u) \/ BindRead(u) \/ BindInsert(u)
    <2>1. UNCHANGED <<book, at, saw, disrupted>>
        BY <1>12 DEF SaveAuthor, ReadExcerpt, PersistAssets, BindRead, BindInsert, Begin, End,
            vars, rows, seeding
    <2> QED
        BY <2>1 DEF BookIsAwaited, WillInsert
<1>13. CASE Restart
    BY <1>13 DEF Restart, rows, BookIsAwaited
<1> QED
    BY <1>2, <1>3, <1>4, <1>5, <1>7, <1>8, <1>9, <1>10, <1>11, <1>12, <1>13 DEF Next, Seed

(***************************************************************************)
(* Which generations outlive a reset.                                      *)
(***************************************************************************)

(* Only a delete starts a new epoch, and it notes the generations that are *)
(* under way.                                                              *)
LEMMA FreshNext == TypeOK /\ GenerationsAreFresh /\ [Next]_vars => GenerationsAreFresh'
<1> SUFFICES ASSUME TypeOK, GenerationsAreFresh, [Next]_vars PROVE GenerationsAreFresh'
    OBVIOUS
<1>0. user \in [Users -> [op : {"none", "generate", "bind"}, generation : 0..epoch,
                         doc : {"seed", "upload"}]]
    BY DEF TypeOK
<1>1. ASSUME NEW r \in Resets, ResetDelete(r) PROVE GenerationsAreFresh'
    BY <1>1 DEF ResetDelete, DeleteThen, GenerationsAreFresh
<1>2. ASSUME NEW u \in Users, NEW doc \in {"seed", "upload"}, ReadExcerpt(u, doc)
      PROVE  GenerationsAreFresh'
    BY <1>0, <1>2 DEF ReadExcerpt, Begin, rows, GenerationsAreFresh
<1>3. ASSUME NEW u \in Users, PersistAssets(u) PROVE GenerationsAreFresh'
    BY <1>0, <1>3 DEF PersistAssets, End, Idle, GenerationsAreFresh
<1>4. ASSUME NEW u \in Users, BindRead(u) \/ BindInsert(u) PROVE GenerationsAreFresh'
    BY <1>0, <1>4 DEF BindRead, BindInsert, Begin, End, Idle, rows, GenerationsAreFresh
<1>5. CASE Restart
    BY <1>5 DEF Restart, Idle, rows, GenerationsAreFresh
<1>6. CASE \/ SaveAuthor \/ UNCHANGED vars \/ \E s \in Seeders : Seed(s)
           \/ \E r \in Resets : StartReset(r) \/ CheckAuthor(r)
    <2>1. UNCHANGED <<assets, user, epoch, spanned>>
        BY <1>6 DEF SaveAuthor, StartReset, CheckAuthor, Seed, SeedStart, CreateAuthor,
            UpdateAuthor, SeedRead, SeedCommit, SeedConflict, Finish, SeederFails, vars, rows
    <2> QED
        BY <2>1 DEF GenerationsAreFresh
<1> QED
    BY <1>1, <1>2, <1>3, <1>4, <1>5, <1>6 DEF Next

(***************************************************************************)
(* The theorems.                                                           *)
(***************************************************************************)

(* The types, what each seeder knows to have been in place, who is going   *)
(* to insert a missing book and when the generations began, together       *)
(* inductive (reset_demo and seed_creatortrust).                           *)
THEOREM DemoInvariant == Spec => []DemoInv
<1>1. DemoInv /\ [Next]_vars => DemoInv'
    BY TypeNext, RecordedNext, AwaitedNext, FreshNext DEF DemoInv
<1> QED
    BY <1>1, DemoInit, PTL DEF Spec

(* The rows keep their types, and refer to rows that exist.                *)
THEOREM DemoTypes == Spec => []TypeOK
    BY DemoInvariant, PTL DEF DemoInv

(* However resets, failures and restarts interleave, a reset that answers  *)
(* ok has had the profile, a Mind and the book in place since its delete.  *)
THEOREM ResetsRestore == Spec => []OkMeansRestored
<1>1. DemoInv => OkMeansRestored
    BY DEF DemoInv, Recorded, OkMeansRestored, Seeders, Parts
<1> QED
    BY <1>1, DemoInvariant, PTL

(* No interleaving of resets leaves the demo without its book but for one  *)
(* that is under way or has failed.                                        *)
THEOREM NoBookGoesMissing == Spec => []MissingHasACause
<1>1. DemoInv => MissingHasACause
    BY DEF DemoInv, BookIsAwaited, WillInsert, MissingHasACause
<1> QED
    BY <1>1, DemoInvariant, PTL

(* Assets made from an excerpt a reset has deleted come only from a        *)
(* generation that was running when it did.                                *)
THEOREM OldAssetsSpanReset == Spec => []StaleAssetsHaveACause
<1>1. DemoInv => StaleAssetsHaveACause
    BY DEF DemoInv, GenerationsAreFresh, StaleAssetsHaveACause
<1> QED
    BY <1>1, DemoInvariant, PTL
=============================================================================
