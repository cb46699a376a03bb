# Verification of CreatorTrust

CreatorTrust takes a manuscript excerpt of an author to marketing assets, has
every asset judged by a rule pack, lets people approve or reject it, and builds
publishing packages and launch campaigns from what was approved. It is a
FastAPI process (`thebe_core/`) over one SQL database, with a background worker
in the same event loop, and a React front end (`frontend/`).

This directory holds TLA+ models of the parts where order matters, the TLC runs
that check them on small instances, and proofs, checked by TLAPS, of the main
properties for every instance. Paths below are relative to the repository.

    tlc -workers 2 -config jobs.cfg MCJobs
    tlc -workers 2 -config governance.cfg MCGovernance
    tlc -workers 2 -config minds.cfg MCMinds
    tlc -workers 2 -config demo.cfg MCDemo
    tlc -workers 2 -config tenancy.cfg MCTenancy
    tlc -workers 2 -config records.cfg MCRecords
    tlc -workers 2 -config publishing.cfg MCPublishing
    tlapm JobsProofs.tla
    tlapm GovernanceProofs.tla
    tlapm TenancyProofs.tla
    tlapm MindsProofs.tla
    tlapm DemoProofs.tla
    tlapm RecordsProofs.tla
    tlapm DocVersionsProofs.tla
    tlapm PublishingProofs.tla

## The system

| Part | Code | State | Operations | What is hard | What makes it correct |
|---|---|---|---|---|---|
| Job queue and worker | `thebe_core/jobs.py`, `lifespan` in `api.py` | the `jobs` table, an `asyncio.Event`, the worker task | create, retry, select, claim, execute, complete, fail | the event is cleared after a select; a commit can fail or overlap another; shutdown cancels a running job | bounded starts; final results; every pending job is served; no job is stranded without a cause |
| Job handlers | `creator/jobs.py` | none of their own | `generate_assets`, `build_package`, `mind_message` | they run beside requests | those of what they call |
| Governance and approval | `creator/service.py`, `creator/router.py` | assets (governance and approval status), campaigns, packages | generate, revise, evaluate, approve, reject, package, campaign | each read and write is a transaction of its own, with awaits between | nothing is approved or goes out that was not cleared |
| Rules | `creator/predicates.py`, `verticals/creator_publishing/rules.yaml` | none | five predicates, a label | which edition counts; which failures are softened | block, review or allow as the pack says |
| Author, books, editions, documents | `creator/service.py`, `audit/service.py` | rows | create, update, upload | concurrent uploads take the same version number | the newest is well defined |
| Audit trail | `audit/service.py` | events | `log_event`, queries | written after the change, in a transaction of its own | no change without an event, unless something failed |
| Publishing adapters | `creator/publishing.py` | ZIP files with fixed names | validate, build | files are shared by all books and requests | what is shipped is what was validated |
| Minds client | `minds/client.py` | a conversation at an external service | send, poll for the reply | late replies, one conversation for all | a reply answers its question |
| Demo reset, mind binding | `creator/service.py`, `creator/seed.py` | rows | delete, seed, bind | several transactions; jobs survive | the seed is always restored |
| Policy engine | `policy/engine.py` | none | controls, evidence, conditions | five-state answers | agrees with its rules |
| Findings, tasks, evidence, document versions | `audit/service.py` | rows | transitions, supersession | several transactions | the transition tables | 
| Tenancy and keys | `auth/` | tenants, keys, memberships, a circuit breaker | create, revoke, resolve | slug races; the breaker counts bad tokens | a request sees one tenant, of which its subject is a member |
| Front end session, polling | `frontend/src/contexts`, `hooks`, `lib` | current tenant, token, cache | switch, load, poll | answers out of order, time limits | data shown belong to the tenant shown |

The interactions: requests and the worker share the database and nothing else,
but for the event, which a request sets after its commit. The worker's handlers
call the same service methods as the requests. There are no row locks and no
version columns; the database runs at its default isolation (READ COMMITTED on
PostgreSQL). Between two awaits no other coroutine runs, so a step of a model
is what lies between two awaits at which the outside can be observed.

Findings, tasks, evidence and document versions have service methods, but no
endpoint or job of this repository calls them; they are modelled as methods
that several callers may call at the same time.

## Modules

| Module | Models |
|---|---|
| `JobLifecycle` | what a client is promised about a job: an enqueue or a retry is worth a number of starts, `completed` is final |
| `Jobs` | `JobService` and `lifespan`: requests, worker, event, faults, restarts |
| `GovernanceRules` | the rule pack as pure operators |
| `AssetReview` | governance when every operation takes effect at once |
| `Governance` | the service methods as sequences of transactions by concurrent requests |
| `MindsChat` | turns of a chat with a Mind on one shared conversation, and their two callers |
| `DemoReset` | the demo's rows under resets, seeds, bindings, jobs and restarts |
| `Tenancy` | tenants, memberships and keys, whom a request acts for, the circuit breaker |
| `PolicyEngine` | the condition language and the state of a rule, as pure operators |
| `Assessment` | the rows and facts a rule's state depends on, as they change |
| `Records` | findings and tasks: transitions, and the update from a result |
| `DocumentReview` | a document when review, approval and regeneration take effect at once |
| `DocVersions` | review, approval and regeneration of one document, as sequences of transactions |
| `Publishing` | the two adapters, the package file and its download |
| `SourceDocuments` | uploads to one book and the choice of the latest |
| `AuditRecords` | `Assessment`, `Records` and `DocVersions` side by side in one audit service |
| `CreatorFiles` | `Publishing` and `SourceDocuments` side by side in one creator service |
| `JobsProofs`, `GovernanceProofs`, `TenancyProofs`, `MindsProofs`, `DemoProofs`, `DocVersionsProofs` | theorems about `Jobs`, `Governance`, `Tenancy`, `MindsChat`, `DemoReset` and `DocVersions` |
| `RecordsProofs` | theorems about `Records`, `PolicyEngine`, `Assessment` and `AuditRecords` |
| `PublishingProofs` | theorems about `Publishing`, `SourceDocuments` and `CreatorFiles` |
| `MCJobs`, `MCGovernance`, `MCMinds`, `MCDemo`, `MCTenancy`, `MCRecords`, `MCPublishing` | constants for TLC |

`Governance` EXTENDS `GovernanceRules` and refines `AssetReview`; `Jobs` refines
`JobLifecycle` and `DocVersions` refines `DocumentReview`; `Assessment` EXTENDS
`PolicyEngine`. `AuditRecords` composes `Assessment`, `Records` and
`DocVersions`, and `CreatorFiles` composes `Publishing` and `SourceDocuments`,
by interleaving. The parts share no variable, so in `MCRecords` and
`MCPublishing` a variable `part`, fixed in the initial state, lets one of them
move and the others stand still: a property is of one part, nothing is lost,
and the product of their states is not explored.

### Jobs

The rows are functions on job numbers (`status`, `retryCount`, `lastError`;
the order of the numbers is `created_at`), `event` is `_event`, `signals`
counts requests between commit and `_event.set()`, `reading[r]` is the job a
retry request has loaded as failed, and `pc`, `cur` and `count` are the
worker's place and locals.

`CreateJob`, then `Signal` or `RefreshRaises`, are `create_job`; `RetryRead`
and `RetryCommit` are the two halves of `retry_job`. `Select`, `ClearEvent`,
`Wake`, `WaitTimeout`, `Claim`, `HandlerReturns`, `HandlerRaises`, `Complete`,
`FailRead`, `FailCommit` are the worker's awaits in `run` and `_process_job`.
`CompleteRaises` and `IterationFails` are database errors: inside the `try` the
first is taken for a failure of the handler, outside it the second sends the
loop to sleep (`SleepEnds`). After the commit of a failure the status is read
from a row that the commit has expired: `FailCommit` either sets the event and
looks for the next job, or raises there and goes to sleep without setting it. `Restart` is a crash or a shutdown, whose
cancellation runs no failure handler, followed by a new process.

`attempts` is a history variable: the starts since the job was created or last
reset. A transaction whose read cannot be invalidated before its commit is one
step (claiming, since nobody else leaves `pending`; completing, since the
columns it writes do not depend on what it read); the others are two.

### Governance

One book. An asset has `gov` and `approval`; the author's profile and the
editions are what the rules see of them; `package` and `campaign` are the last
outputs. `evaluated` and `decided` are the audit trail as far as it concerns
assets, `cleared` a history variable: the assets ever labelled review or allow.
`req[r]` is a request: the step it is at and what it has read.

`evaluate_asset` is `StartEvaluate`, `ReadAuthor`, `ReadEditions` (the last
read and the engine, which awaits nothing), `StoreEvaluation`,
`RefreshEvaluation` (the refresh reads the row again, so a method may return a
label another request has stored), `LogEvaluation`. `approve_asset` is
`StartApprove` (it refuses a blocked asset and sends a pending one through the
evaluation), `Approve`, `LogDecision`; `reject_asset` is `Reject`,
`LogDecision`. A package request, or a package job, is `StartPackage` (it reads
the author), `RequireApproved` (the gate), `BuildPackage` or `RefusePackage`; a
campaign is `StartCampaign`, `CreateCampaign`. `PersistAssets` is the one
transaction in which a generation or a revision appears; it takes any set of
new assets, since a Mind may answer with any types. `SaveAuthor`,
`CreateEdition` and `UpdateEdition` are one transaction each. `RequestFails`
ends a request anywhere.

Choices worth knowing:

- Asset numbers are the order of `created_at`. An asset's text never changes,
  so its issues are a constant.
- SQLAlchemy writes the columns that were assigned. An update that does not
  depend on the row it loaded takes effect as a whole at its commit.
- An edition update takes any metadata of a set; updates of some fields only
  are among them.
- An adapter may accept or refuse any edition here; its validation is in
  `Publishing`.
- `evaluate_asset` writes its event and its evaluation row in two
  transactions; the second is not modelled, so they are one step.
- `reset_demo`, which deletes assets, is in `DemoReset`: in this model rows are
  never deleted.

### MindsChat

`history` and `bound` are the external service: the rows of the conversation
and the Mind its alias belongs to, at the start perhaps another one than the
turns'. `at[t]` is the place of a turn in `MindsClient.message`: `Ensure` or
`AliasTaken` (`ensure_conversation`), `Latest` or `LatestFails`
(`_latest_fingerprint`, which turns a `MindsApiError` into "no fingerprint"; a
broken connection ends the turn there, as everywhere else, in `RequestFails`),
`Post`, then the polls of `_wait_for_reply`: `TakeMessage`, `TakeAssets` or `TimeOut`.
`PostLost` delivers a message whose answer is lost. A turn of `message_mind`
passes errors on; one of `generate_asset_payloads` falls back to composing
assets when the error is a `MindsApiError` or a `ValueError` (`Fallback`), not
when the connection breaks (`"error"`). A Mind answers a message at most once,
at any time or never (`MindAnswers`).

A fingerprint is the position of its row. That is an assumption about the
service: fingerprints grow (the client compares them as text). The filters
for human rows, empty rows and the sender's own text are the `from` of a row.
`quiet` and `served` are history variables for the properties; `served[t]` are
the replies handed out before `t` asked for the fingerprint, whether it got one
or not.

### DemoReset

The tenant that holds the demo. `author`, `mind` and `book` are the rows with
the seed's fixed ids; a book stands for its editions and excerpt too. `assets`
holds, for each generation of assets, the number of resets (`epoch`) when its
excerpt was read. `reset_demo` is `StartReset`, `ResetDelete` (one
transaction), `CheckAuthor`, then `seed_creatortrust`: `SeedStart`,
`CreateAuthor` or `UpdateAuthor`, `SeedRead`, `SeedCommit` or `SeedConflict`,
then `Finish`, the audit event. The start of the process is a seeder that has
no delete before it; requests are served when it is done, but the worker runs
beside it. `PersistAssets` inserts only if the rows its foreign keys need are
there. `BindRead` and `BindInsert` are the two transactions of
`_bind_default_mind`. `Restart` loses what was in flight.

`restored`, `disrupted` and `spanned` are history variables: what of the seed
has been in place since a seeder's delete, whether a seeder failed while the
book was missing, whether a generation was running when a reset deleted.

### Tenancy

`slug`, `members` and `key` are the three tables. `call[c]` is a request in
flight and what it holds between its transactions. `AuthoriseBearer` and
`AuthoriseKey` are `RoleRequired(["admin"])`; what follows is one of the
endpoints: create or revoke a member or a key, or rename the tenant
(`CheckRename`, `Rename`, since the owner of the slug is read in a session of
its own). Creating a tenant is `CheckSlug`, `InsertTenant`,
`InsertMembership`. `Resolves` is `_context_from_bearer`: super admins act
only without a membership, and with one membership the header is not looked
at. The breaker is `failures`, `open` and `aged`; validating a token awaits
nothing, so `half_open` is a state within a step.

### PolicyEngine and Assessment

A context's attributes are a function from paths to values, `Absent` among
them. A rule pack is read from a file, so it has finitely many conditions
(`Conditions`, with the ones inside them) and each nests to some `Depth`. `Judge`
is one call of `_evaluate_dsl`, given the values of the condition's parts, and
`Evaluate` the recursion, as a function on `Conditions`; a set stands for
the children of `and` and `or`, whose order only matters to an exception.
`Verdict` is `_evaluate_control_rule`. `Assessment` lets facts, answers and
evidence change by the service's methods; evidence ages after a year. How rows
become a context is not in this repository. Comparing an absent value and a
value of another type raises in the code; the instance compares numbers with
numbers.

### Records and DocVersions

`row` holds findings and tasks in the order of creation, `trail` the committed
events of status changes. An update is `Update` (read and check against the
transition table), `LogEvent` (the event, in a session of its own) and `Commit`
(the row, by its key); others may write the row between any two, and `Break` may
end the request there. `Upsert` takes the snapshot and the result;
`OpenFinding`, `ResolveFinding` and `LeaveFinding` are one rule of the loop;
`Finish` and `Break` end it. Each rule is forgotten when it is done, since
nothing looks at it again.

A version's `number`, `status`, `reviewed`, `approved`, `from` and
`superseded` are its columns. Each of the three operations is `Read`,
`Create`, `Supersede`, `Log`, a transaction each; `BreakOff` stops between two.
`overlapped` remembers that two of them were under way at once, `brokenOff` that
one stopped before it marked the old version.
`DocumentReview` is what the versions promise while requests take turns: the
document is the last version (`LastVersion`).

### Publishing and SourceDocuments

`file` maps a name, which is a destination and a format, to the last package
written. `ReadEdition`, `ReadBook`, `ReadAuthor` and `RequireApproved` (the
assets, for the gate) are separate transactions; `Build` validates, writes the
file and only then looks at the result; `LogBuilt` ends a job, a request goes on
with `OpenFile` and `Sent`.
`overwritten` remembers that another build wrote the file after the request's
own. `UpdateEdition`, `UpdateBook`, `UpdateAuthor`, `ChangeApproval` happen at
any time. The schemas admit empty titles and formats, so a book may have no title
(`titled`) and an edition the format `NoFormat`; a file of that format has a name
too, and KDP takes it.

An upload is `WriteFile`, `ReadVersion`, `Stamp` (`created_at` is set when the
row object is made), `CommitDocument`. Two rows are never made at the same
microsecond; `latest_document` would not be determined between them.

## Runs

| Run | Instance | Shows |
|---|---|---|
| `jobs` | 3 jobs with limits 0, 1, 2; one retrier; 1 fault, 1 restart, 2 resets | types, start budget, stranded jobs, refinement of `JobLifecycle`, two liveness properties |
| `jobs_double_retry` | 1 job with limit 1; 2 retriers; no faults | `CompletedIsFinal` is violated |
| `governance` | 1 asset, 2 requests, 2 profiles, 2 kinds of edition, 1 edition, 2 failures | types, clearance of approvals and outputs, complete trail |
| `governance_serial` | 2 generations of a description, 1 request, up to 2 editions, 1 failure | refinement of `AssetReview`, order of the trail |
| `governance_blocked` | 1 asset, 2 requests | `BlockedIsNotApproved` is violated |
| `governance_rights` | 1 asset, 1 request | `UnknownRightsBlockPackaging` is violated |
| `minds` | 3 turns (2 messages, 1 generation), 2 open at a time, history of 3 rows, 1 failure, alias free or bound to either of 2 Minds | types, which reply a turn gets, whose Mind it is, and that every turn ends |
| `demo` | 2 resets, 3 deletes, 1 failure, 1 restart, the worker and a request | types, what an ok reset has achieved, causes of a missing book and of stale assets |
| `demo_seed` | 1 reset, 1 restart, no failure | `SeedIsIdempotent` is violated |
| `tenancy` | 2 tenants, 2 slugs, a user and a super admin, 1 key, 2 requests, 3 memberships, threshold 2 | types, slugs, whom a request acts for, whose rows change, keys, the breaker |
| `records` | 2 callers, 2 rows and 2 events, results of 2 rules; 2 editors, 2 actors, 4 versions; 3 rules over 2 facts, 2 controls, 1 piece of evidence | types, transitions and events, forks of a document, refinement of `DocumentReview` until requests overlap, verdicts that knowledge does not overturn |
| `publishing` | 2 editions of 2 books, paperback or without a format, 2 builds, 1 change; 3 uploads at a time, 4 documents | types, which package is downloaded, whether what passed is fit for its destination, which document is latest |

Bounds. Limits 0, 1 and 2 are the cases of the comparison after the increment:
below one start, exactly one, and a requeue. Three jobs give head-of-line
blocking and a job committed behind a newer one; two resets let a reset job be
reset again. Two requests are what a race needs; one asset with a risky claim,
judged under a profile with and without rights and an edition with and without
ISBN, is labelled block or review. Two generations, of which the second may be
labelled allow, and two editions are in the serial run, where currentness and
the choice of edition are compared with the abstract specification. The proofs
below lift the bounds.

For a reply to be taken by the wrong turn two turns must be open, and a third
must come after a reply that was handed out; a history window of 3 rows is
shorter than the six rows three turns write. Three deletes let a generation
that began before the first reset be compared with the last one, and two
resets interleave in all their steps. The records instance has two rows
because the races are of two callers on one row, and the update from a result
needs a second rule to stop before. Two events are two changes under way at
once, one of them stale when it is written, or a finding closed and then compared
with a rule that fails again; a gap in the trail needs one. Four versions are two forks; two
editors are a race. One change in `publishing` is enough for a package to
differ from what it was read from (another publisher, an ISBN, no format, no
title), and the two authors are the two cases in which the names picked at validation and at shipping differ. The
editions are paperbacks until that change; the proofs start from any format.

Deadlock is checked in the runs of `Jobs` and `Governance`: the worker always
has a step, and so has an idle request. The others end when their bounds (turns,
deletes, rows, versions, uploads) are used up, so they do not check it.

What the properties say that a reader may not expect:

- `QuietTurnsGetTheirReply`: a turn gets its own reply only if nothing was
  unanswered when it looked for the latest fingerprint, that look succeeded and
  nobody else posted before it ended. Outside of that the client may hand out a
  reply that belongs to another turn.
- `RepliesRepeatOnlyUnfiltered`: a turn whose request for the fingerprint was
  answered with an error has none, filters nothing and may be handed any row the
  Mind has ever written, one that was handed out before included; the run
  reaches that. No other turn gets such a reply.
- `TrailHasNoGaps`: an event may tell of a change that never happened, when the
  request ends before the row's commit; a change without its event is what must
  not be. Events are compared with rows as sets: two writers that leave a row
  in turn may both name the same old status.
- `OkMeansRestored`: what a reset restored was in place at some moment between
  its delete and its answer; another reset may have deleted it again.
- `OnlyStaleWritesBreakTheTable`: concurrent updates do break the transition
  table. They do so only when the caller that commits the new status writes over
  a change that came after its own read; the race is allowed, not caught. One
  update at a time keeps to the table.
- `FailuresAreTracked`: the finding a failing rule is compared with may be
  `resolved` or be closed by somebody else since it was read; then no finding is
  opened, as the code has it.
- `ForkHasACause`: two unsuperseded versions exist only after a race or a
  failure between the two transactions.
- `DownloadIsOwnAndValid`: the only way to a foreign or invalid package is a
  build that wrote the file in between.
- `LearningOverturnsNothing`: holds for rules that do not ask whether a path
  exists; `exists` on an absent path is false, not unknown.
- `EachTenantIsItsAdmins`: the slug, memberships and keys of a tenant change only
  by a request resolved for it, of somebody who is or was its admin, its key or
  a super admin, or by the last step of its creation. The admin's row or the key
  may have been revoked between the authorisation and the change. A key that
  expires is no change here.

Fairness. In `Jobs` only the worker is fair (`WF_vars(WorkerStep)`): asyncio schedules
every ready task, and each handler's external calls have time limits. Clients
need not come, and a request need not live to set the event after its commit,
so `PendingServed` rests on the worker's 5 s time limit alone: without
`WaitTimeout` the run finds the lost wake-up. Faults and restarts are bounded,
which is what "finitely many" in the liveness properties means.
`PendingSettles` says nothing after a fault or restart, because a stranded job
never settles; `OrphansAccounted` bounds how many there can be.

In `MindsChat` each turn is fair (`WF_vars(Progress(t))`): a coroutine is
scheduled, an HTTP request has a timeout, a sleep is at most 2 s, and the time
limit of the wait passes. `TimeOut` is therefore owed when the polls find
nothing. The Mind owes no answer and callers owe no turn; without `TimeOut`
the run finds the turn that waits for ever.

## Disagreements between the code and its texts

1. `retry_job` can take a completed job back to `pending` when two retries of
   a failed job overlap (`jobs_double_retry`).
2. `approve_asset` can approve an asset whose stored label is `block`, when a
   re-evaluation lands between its check and its commit (`governance_blocked`).
   The asset had been cleared before, which is what `ApprovedWasCleared` proves.
3. Rules are not evaluated when a package is built, so unknown rights declared
   after the approval do not block packaging, as `rules.yaml` says they do
   (`governance_rights`).
4. The demo's seed is not idempotent after a request has bound a Mind between
   a reset's delete and its seed: that reset and every later start of the
   process fail on the unique author of a Mind (`demo_seed`).

## Proofs

`JobsProofs` proves, for every set of jobs, all limits (negative ones too) and
any number of faults, restarts and resets within their bounds:

- `TypeCorrect`: types, and that the worker holds a job exactly in the steps
  of `_process_job`.
- `JobInvariant`, from which `StartsWithinBudget` follows. `RetryBudget` is not
  inductive: a start must know that a pending job has budget left, which is so
  because the failure handler has compared the count. `Accounting` relates
  `attempts` to `retryCount` in each status and to the worker's copy of it
  between its read and its commit. It does not assume that retries do not
  overlap: a reset of a job that is running sets both to 0.
- `OrphansAreAccountedFor`: every step leaves the stranded jobs as they are or
  fewer, but for a fault or restart, which adds at most the job in hand.
- `WorkerCanStep`: wherever the worker is, one of its guards holds; in `select`
  that is because jobs in the order of `created_at` have an oldest one.
- `WorkerComesBack`, `RunningJobsSettle`, `OldestIsServed`, under `WorkerRuns`,
  that the worker takes infinitely many steps: it returns to its loop from
  everywhere; a running job comes to a result, is given up or queued again while
  there is no fault or restart (by `OrphansAreAccountedFor` a running job
  is then the one in hand); and the oldest pending job is claimed, unless an older
  one becomes pending or a fault or restart comes first. The last is
  one round of `PendingServed`.
- `SerialInvariant` and `LifecycleRefinement`, under the assumption that there
  is at most one retry request at a time (`SerialRetries`). The assumption is
  needed: `jobs_double_retry` is the counterexample without it. The refinement
  maps the abstract `left[j]` to `Budget[j] - attempts[j]`.

`GovernanceProofs` proves, for every set of assets, texts, profiles, editions
and requests:

- `ReviewInvariant`: `ReviewInv` is `TypeOK`, the two clearance properties and
  `Clearance`, which says what a request in flight may rely on: one that is
  about to approve or to build holds a cleared asset, one that is about to
  look at its evaluation's answer holds block or a cleared asset. It is stable
  because assets, labels and clearances only come to be (`Growing`), so other
  requests cannot invalidate it (`OthersKeep`); the request that moves is
  treated step by step (`MoverClearance`).
- `ReviewTypes`, `ApprovalNeedsClearance`, `OutputsNeedClearance`: its consequences.
- `ReviewRefinement`: with at most one request at a time (`SerialRequests`),
  `Governance` implements `AssetReview`. `SerialReview` says that what the
  request has read is still so; each step is then an abstract step at its
  commit, or a stutter. `governance_blocked` is why the assumption is needed.

- `TrailMissesOnlyFailures`: the trail misses at most as many evaluations and
  decisions as requests have failed. Counting is the last step: `StepLogs` says
  that a request which stores an evaluation or a decision is next about to log
  it, and that what it was about to log it logs, so only a failure adds to the
  lost ones, and a request is never about to log both.
- `TrailTellsDecisions`: with `SerialRequests` and no failure the last decision
  event of an asset is the decision that stands. It needs to know that a request
  about to log an approval or a rejection holds an asset that is approved or
  rejected (`DecisionInHand`), and from `SerialReview` that new assets were
  drafts before.

`TenancyProofs` proves all that the run `tenancy` checks, for every set of
tenants, subjects, keys and requests:

- `TenancyInvariant`: the inductive invariant. `Table` says that a row's id is
  at most the number of rows its subject has in the tenant, which is why a new
  row never takes an id there already; `References` that rows and keys belong to
  tenants that exist; `CallOK` what a request has established by the time it
  writes. `Grows` is why that stays so: tenants, rows and the tenant of a key are
  never deleted, so who was once entitled to a tenant is entitled in the sense of
  the properties for good.
- `TenancyTypes`, `UniqueSlugs`, `OnlyAdminsAct`, `BreakerOpensLate`: its
  consequences. The breaker's count equals the failures since the last success.
- `TenantsAreSeparate` and `KeysNeverReborn`: the two action properties, from
  the invariant and one lemma about the tables each.

`MindsProofs` proves the four invariants and the liveness property of the run `minds`, for every set of
turns and Minds, history limit, number of open turns and failures:

- `ChatInvariant`: `ChatInv` is the types, `RepliesOfOwnMind` and, of each turn,
  three parts. `Fingerprinted`: rows handed out before the turn read its
  fingerprint are not above it, if it has one, and what it then takes is, which
  is `FingerprintsStopRepeats`; a turn that asked in vain has none. `OwnMind`: past `ensure_conversation` the alias is bound
  to the turn's Mind; no step binds it again. `Undisturbed`: while a turn is
  quiet no message but its own is unanswered, and every row after its
  fingerprint is its own. A reply being to the right question is not inductive
  without the last one, since the reply is chosen by position only.
- `QuietTurnsAnswered`, `OneMindPerAlias`: its consequences.
- `OpenTurnsCanProceed`: every open turn has a step whose guard holds; a poll
  that finds rows finds a first one.
- `EveryTurnEnds`: `TurnsEnd`, for every turn that is given infinitely many
  steps while it is open (`TurnRuns`): a turn only moves forward, and every step
  of its own moves it (`TurnMoves`), whatever fails or comes late.

`DemoProofs` proves the four invariants of the run `demo`, for every set of
resets, starts and users, and any number of deletes, failures and restarts:

- `DemoInvariant`: `Recorded` says what each seeder has had in place since its
  delete. The case that makes it more than bookkeeping: a reset that found no
  author and later finds one does not write it; then another seeder has, since
  the delete. `BookIsAwaited` names the seeder that is going to insert a missing
  book: one that reads after the last delete, or has read that there is none.
  `MissingHasACause` alone does not say which, and is not inductive: a seeder in
  the gap that saw a book before another's delete will not insert one.
  `GenerationsAreFresh` adds to the assets the generations under way.
- `ResetsRestore`, `NoBookGoesMissing`, `OldAssetsSpanReset`: its consequences.

`RecordsProofs`, for every number of rules, rows and callers:

- `RecordsInvariant`: every row has a status of its kind, and one that its
  events account for (`Reached`); so has the old status of every event and of
  every write under way, and a write that waits for its commit has its event in
  the trail. `TrailHasNoGaps` alone is not inductive: it does not say that the
  event of a pending commit is there, which is what the order of `LogEvent` and
  `Commit` gives. A write under way was allowed from the
  status it was checked against (not from the row's present one: that is what
  other writers change); a result under way knows a finding about each rule or
  none.
- `ChangesHaveEvents` follows from it: events are never taken back
  (`EventsKept`), so statuses once reached stay reached (`ReachedGrows`);
  `TableBrokenByStaleWrites` and
  `FailingRulesAreTracked` are the two action properties, from the invariant and
  the transition tables (`Tables`).

The same module, for every rule pack of finitely many conditions, and every set
of paths, controls and evidence:

- `EvaluateIsJudged`: the recursive evaluation is well defined, so that every
  condition has the value its parts give it. The provers have no induction over
  conditions; `Smallest` (a set of natural numbers that is not empty has a least
  member) stands for it: a condition of least depth that failed would have parts
  that do not.
- `ComparisonsSettle`, by the same argument: a condition without `exists` and
  `not_exists` at any depth keeps its value, once it is true or false, when more
  facts are known. `JudgeSettles` is the step, operator by operator: `and` and
  `or` pass over an unknown part only where another one decides.
- `VerdictsAreNotOverturned` is `LearningOverturnsNothing`, from it and the
  order in which `Verdict` looks at applicability, answer and check.
- `AssessmentTypes`: evidence only refers to controls that have a row.
- `AuditTypes`: `AuditRecords` implements each of its three parts, hence its
  `TypeOK`.

`DocVersionsProofs`, for every set of actors, contents and requests and any
number of versions:

- `VersionsInvariant`: `TypeInv` (a version comes after the one it was made
  from), `ApprovalInv` (an approval under way is of a reviewed version and by
  another actor; stable because a version's own columns never change, only
  `superseded`), `NewestIsCurrent` itself (inductive, as the successor's number
  is greater) and `Alone` (until requests overlapped or one broke off, at most one request is in its
  transactions, and the current versions are one, or the two it is replacing
  one by the other of).
- `ApprovalsRestOnReviews`, `NewestStaysCurrent`, `ForksAreRaces`: its consequences.
- `VersionsRefinement`: until two requests have overlapped, what the last
  version says changes only by a step of `DocumentReview`, wherever requests
  break off. `InSequence` says that versions are numbered in the order of their
  commits and that the last is never superseded, so it is what the next request
  reads even if two are current; creating a version is then the abstract step,
  and marking one never touches the last. Two requests that overlap both number
  their version after the same one, which is why the condition is needed.

`PublishingProofs`, for every set of editions, books, formats, names, authors,
builds and uploads:

- `PackagesInvariant`: a file lies under the name of its own destination and
  format; if it passed, what it ships is fit (`PackageFits`: title, format and
  ISBN are those the request read; the publisher that
  `validate` judges and the one that `metadata.json` gets differ only if edition
  and profile leave it out); and a build's file is its own until another build
  writes that name. `DownloadsAreOwnAndValid` and `PassedFilesAreFit` follow.
- `DocumentsInvariant`: rows and uploads under way are at most the files on
  disk, stamps are given once, a version is at most the number of rows (an
  upload's at most one more), and while uploads take turns the order of stamps
  is that of versions.
  `LatestHasHighestVersion` follows. The set of uploads may be infinite: that
  the documents are finitely many is part of the invariant.
- `FilesTypes`: `CreatorFiles` implements both of its parts, hence its `TypeOK`.

Assumptions on constants are those named `...Assumption` in the modules
(`JobsAssumption`, `GovernanceAssumption`, `TenancyAssumption`,
`ChatAssumption`, `DemoAssumption`, `RecordsAssumption`, `VersionsAssumption`,
`ConditionsAssumption`, `AssessmentAssumption`, `PublishingAssumption`,
`DocumentsAssumption`), which TLC evaluates in the runs.
They give the constants their types and say no more than the configuration and
the code do; `ConditionsAssumption` says that conditions are finite trees, and
`AssessmentAssumption` that rules use conditions of the pack, and those read
paths of the context. `SerialRetries` and `SerialRequests` are not among them: a theorem
that needs one says so.

Every safety invariant and action property of the passing runs is stated by a
theorem. On liveness: `WorkerRuns` and `TurnRuns` are what the weak fairness of
`FairSpec` comes to when the worker, or an open turn, always has an enabled step
(`FairWorkerRuns`, `FairTurnRuns`). The provers cannot derive ENABLED from an
action; `WorkerCanStep` and `OpenTurnsCanProceed` prove its guards, and TLC
checks `TurnsEnd` under `FairSpec` itself.

Only model-checked: `PendingServed` and `PendingSettles`. They need an induction
over the older jobs, the starts they have left and the faults to come, with a
temporal formula as its hypothesis, which these provers do not take;
`OldestIsServed` and `RunningJobsSettle` are the step that would be repeated.
The four runs that expect a violation state what the code does not keep.

## Not modelled

- The front end: which answer is shown depends on the order of React's effects
  and on the query library's cache, neither of which is in this repository.
- The demo in a second tenant. The seed's ids are fixed, so there the reset
  deletes the tenant's books and then fails on the author's primary key.
- The rate limiter, whose window is a library's; the identity provider's own
  protocol; the text of replies and assets, and how a reply is parsed.
- Encryption of context, queries, the timeline, obligations (rows that nothing
  reads), document templates, schemas and migrations, configuration, scripts.
- Isolation beyond what a single statement or commit needs: rows are not
  locked anywhere, and unique and foreign keys are as PostgreSQL enforces them.

## Plan

1. An abstract chat (a reply answers its question) that quiet turns implement,
   and an abstract reset that serial resets implement, each with its refinement
   proved.
2. A front end session, if its order of effects can be pinned down from `src/`.
