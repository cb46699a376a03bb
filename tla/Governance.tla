----------------------------- MODULE Governance -----------------------------
(***************************************************************************)
(* creator/service.py and creator/router.py on one book: generating,       *)
(* evaluating, approving and rejecting assets, saving the author's profile *)
(* and the editions, building packages and creating campaigns, by requests *)
(* that run at the same time.                                              *)
(*                                                                         *)
(* Each read or write of a service method is a transaction of its own with *)
(* an await after it, so a method is a sequence of steps and what it read  *)
(* may be stale when it writes.  A transaction that loads a row and writes *)
(* columns that do not depend on it is one step.  Steps whose reads are    *)
(* not used (get_book, the row of an asset whose text never changes) are   *)
(* part of the next.  A method that raises changes nothing further, so a   *)
(* refusal at a request's first read is no step.                           *)
(***************************************************************************)
EXTENDS GovernanceRules, Sequences, FiniteSets

CONSTANTS
    Assets,      \* the assets that may be generated, ordered by created_at
    Kind,        \* AssetDB.type
    Text,        \* the issues of AssetDB.content, in [Assets -> SUBSET Issues]
    Requests,    \* the requests (and package jobs) that may run at once
    Profiles,    \* the profiles the author saves
    Metadata,    \* the metadata editions are saved with
    MaxEditions, \* bound: editions of the book
    MaxFaults    \* bound: requests that end on an error or with the process

ASSUME GovernanceAssumption ==
    /\ Assets \subseteq Nat /\ IsFiniteSet(Assets)
    /\ Text \in [Assets -> SUBSET Issues]
    /\ Profiles \subseteq Authors /\ Metadata \subseteq Editions
    /\ MaxEditions \in Nat /\ MaxFaults \in Nat

VARIABLES
    gov,        \* AssetDB.governance_status, "absent" before the row exists
    approval,   \* AssetDB.approval_status
    author,     \* CustomerDB.name and context, as the rules see them
    editions,   \* the book's BookEditionDB rows in the order of created_at
    package,    \* the last package_built: its description, the rights it was built under
    campaign,   \* the assets of the last campaign's approved tasks
    evaluated,  \* the assets with an asset_evaluated event
    decided,    \* per asset its last decision event in the audit trail
    req,        \* per request where it is and what it has read
    cleared,    \* history: the assets that have ever been labelled review or allow
    faults

rows == <<gov, approval>>
setting == <<author, editions>>
outputs == <<package, campaign>>
trail == <<evaluated, decided>>
vars == <<rows, setting, outputs, trail, req, cleared, faults>>

NoAsset == -1
NoPackage == [asset |-> NoAsset, owned |-> TRUE]
EmptyProfile == [owned |-> FALSE, declared |-> FALSE, strict |-> FALSE, imprint |-> "none"]

Idle == [at |-> "idle", asset |-> NoAsset, approving |-> FALSE,
         author |-> EmptyProfile, label |-> "none", tied |-> {}]

Existing == {a \in Assets : gov[a] # "absent"}

(* current_assets and required_assets_approved: the newest row of a type. *)
IsCurrent(a) ==
    a \in Existing /\ \A b \in Existing : Kind[b] = Kind[a] => b <= a

Init ==
    /\ gov = [a \in Assets |-> "absent"]
    /\ approval = [a \in Assets |-> "draft"]
    /\ author \in Profiles
    /\ editions = <<>>
    /\ package = NoPackage
    /\ campaign = {}
    /\ evaluated = {}
    /\ decided = [a \in Assets |-> "draft"]
    /\ req = [r \in Requests |-> Idle]
    /\ cleared = {}
    /\ faults = 0

Goes(r, to) == req' = [req EXCEPT ![r] = to]
Moves(r, from, to) == req[r].at = from /\ Goes(r, [req[r] EXCEPT !.at = to])

(***************************************************************************)
(* Generation: persist_generated_assets, one transaction for all assets,   *)
(* called by the generate_assets job and by revise_asset.  A Mind's answer *)
(* may hold any types; the parent of a revision keeps its row.             *)
(***************************************************************************)
Persist(new, status, decision) ==
    /\ new # {} /\ new \cap Existing = {}
    /\ gov' = [a \in Assets |-> IF a \in new THEN status ELSE gov[a]]
    /\ approval' = [a \in Assets |-> IF a \in new THEN decision ELSE approval[a]]
    /\ UNCHANGED <<setting, outputs, trail, req, cleared, faults>>

PersistSwapped(new) == Persist(new, "draft", "pending")

PersistAssets(new) == Persist(new, "pending", "draft")

(***************************************************************************)
(* The profile and the editions: update_author, create_edition and         *)
(* update_edition.  None of them touches an asset.                         *)
(***************************************************************************)
SaveAuthor(r, profile) ==
    /\ req[r] = Idle
    /\ author' = profile
    /\ UNCHANGED <<rows, editions, outputs, trail, req, cleared, faults>>

CreateEdition(r, data) ==
    /\ req[r] = Idle
    /\ Len(editions) < MaxEditions
    /\ editions' = Append(editions, data)
    /\ UNCHANGED <<rows, author, outputs, trail, req, cleared, faults>>

UpdateEdition(r, e, data) ==
    /\ req[r] = Idle
    /\ editions' = [editions EXCEPT ![e] = data]
    /\ UNCHANGED <<rows, author, outputs, trail, req, cleared, faults>>

(***************************************************************************)
(* Evaluation, alone or inside approve_asset.                              *)
(***************************************************************************)
StartEvaluate(r, a) ==
    /\ req[r] = Idle
    /\ a \in Existing
    /\ Goes(r, [Idle EXCEPT !.at = "author", !.asset = a])
    /\ UNCHANGED <<rows, setting, outputs, trail, cleared, faults>>

ReadAuthor(r) ==
    /\ req[r].at = "author"
    /\ Goes(r, [req[r] EXCEPT !.at = "editions", !.author = author])
    /\ UNCHANGED <<rows, setting, outputs, trail, cleared, faults>>

(* The last read, and the engine's answer, which awaits nothing. *)
LabelWith(r, edition) ==
    /\ req[r].at = "editions"
    /\ Goes(r, [req[r] EXCEPT
          !.at = "store",
          !.author = EmptyProfile,
          !.label = Label(Text[req[r].asset], req[r].author, edition)])
    /\ UNCHANGED <<rows, setting, outputs, trail, cleared, faults>>

ReadNoEditions(r) == LabelWith(r, NoEdition)

ReadEditions(r) == LabelWith(r, Evaluated(editions))

(* Overwrites the label of whichever evaluation stored one before, and     *)
(* leaves the approval status as it is.                                    *)
StoreEvaluation(r) ==
    LET a == req[r].asset IN
    /\ Moves(r, "store", "refresh")
    /\ gov' = [gov EXCEPT ![a] = req[r].label]
    /\ cleared' = IF req[r].label = "block" THEN cleared ELSE cleared \cup {a}
    /\ UNCHANGED <<approval, setting, outputs, trail, faults>>

(* session.refresh after the commit: the row as it is by now. *)
RefreshEvaluation(r) ==
    /\ req[r].at = "refresh"
    /\ Goes(r, [req[r] EXCEPT !.at = "logEvaluation", !.label = gov[req[r].asset]])
    /\ UNCHANGED <<rows, setting, outputs, trail, cleared, faults>>

(* The audit event and the evaluation row; then approve_asset looks at the *)
(* label it was returned.                                                  *)
LogThenApprove(r, goesOn) ==
    /\ req[r].at = "logEvaluation"
    /\ evaluated' = evaluated \cup {req[r].asset}
    /\ Goes(r, IF req[r].approving /\ goesOn
               THEN [Idle EXCEPT !.at = "approve", !.asset = req[r].asset]
               ELSE Idle)
    /\ UNCHANGED <<rows, setting, outputs, decided, cleared, faults>>

LogEvaluationUnchecked(r) == LogThenApprove(r, TRUE)

LogEvaluation(r) == LogThenApprove(r, req[r].label # "block")

(***************************************************************************)
(* Decisions                                                               *)
(***************************************************************************)

(* approve_asset up to its checks: a blocked asset is refused, a pending   *)
(* one is evaluated first.                                                 *)
ApproveUnless(r, a, refused) ==
    /\ req[r] = Idle
    /\ a \in Existing
    /\ gov[a] \notin refused
    /\ Goes(r, [Idle EXCEPT !.asset = a,
                            !.at = IF gov[a] = "pending" THEN "author" ELSE "approve",
                            !.approving = gov[a] = "pending"])
    /\ UNCHANGED <<rows, setting, outputs, trail, cleared, faults>>

StartApproveUnchecked(r, a) == ApproveUnless(r, a, {})

StartApprove(r, a) == ApproveUnless(r, a, {"block"})

ApproveAnd(r, next) ==
    /\ req[r].at = "approve"
    /\ approval' = [approval EXCEPT ![req[r].asset] = "approved"]
    /\ Goes(r, next)
    /\ UNCHANGED <<gov, setting, outputs, trail, cleared, faults>>

ApproveSilently(r) == ApproveAnd(r, Idle)

(* The commit of approve_asset; the label is not read again. *)
Approve(r) == ApproveAnd(r, [req[r] EXCEPT !.at = "logApproval"])

RejectAnd(r, a, next) ==
    /\ req[r] = Idle
    /\ a \in Existing
    /\ approval' = [approval EXCEPT ![a] = "rejected"]
    /\ Goes(r, [Idle EXCEPT !.at = next, !.asset = a])
    /\ UNCHANGED <<gov, setting, outputs, trail, cleared, faults>>

RejectLoggedAsApproval(r, a) == RejectAnd(r, a, "logApproval")

Reject(r, a) == RejectAnd(r, a, "logRejection")

LogDecision(r) ==
    /\ req[r].at \in {"logApproval", "logRejection"}
    /\ decided' = [decided EXCEPT ![req[r].asset] =
           IF req[r].at = "logApproval" THEN "approved" ELSE "rejected"]
    /\ Goes(r, Idle)
    /\ UNCHANGED <<rows, setting, outputs, evaluated, cleared, faults>>

(***************************************************************************)
(* Packages: _package_response and execute_build_package.                  *)
(***************************************************************************)
StartPackage(r) ==
    /\ req[r] = Idle
    /\ editions # <<>>
    /\ Goes(r, [Idle EXCEPT !.at = "gate", !.author = author])
    /\ UNCHANGED <<rows, setting, outputs, trail, cleared, faults>>

Gate(r, open) ==
    LET passing == {a \in open : IsCurrent(a) /\ Kind[a] = "description"} IN
    /\ req[r].at = "gate"
    /\ \/ passing = {} /\ Goes(r, Idle)
       \/ \E a \in passing : Goes(r, [req[r] EXCEPT !.at = "build", !.asset = a])
    /\ UNCHANGED <<rows, setting, outputs, trail, cleared, faults>>

Unblocked == {a \in Assets : gov[a] # "block"}

RequireUnblocked(r) == Gate(r, Unblocked)

(* required_assets_approved on the rows list_assets returns: its newest    *)
(* description is approved and not blocked.                                *)
RequireApproved(r) == Gate(r, {a \in Unblocked : approval[a] = "approved"})

(* The adapter's files and the package_built event.  The rules are not     *)
(* evaluated again: the author's rights are as the request read them.      *)
BuildPackage(r) ==
    /\ req[r].at = "build"
    /\ package' = [asset |-> req[r].asset, owned |-> req[r].author.owned]
    /\ Goes(r, Idle)
    /\ UNCHANGED <<rows, setting, campaign, trail, cleared, faults>>

(* The adapter's own validation of the edition refuses. *)
RefusePackage(r) ==
    /\ req[r].at = "build"
    /\ Goes(r, Idle)
    /\ UNCHANGED <<rows, setting, outputs, trail, cleared, faults>>

(***************************************************************************)
(* Campaigns: create_campaign reads the current assets, then commits the   *)
(* campaign and its tasks together.                                        *)
(***************************************************************************)
StartCampaign(r) ==
    /\ req[r] = Idle
    /\ Goes(r, [Idle EXCEPT
          !.at = "launch",
          !.tied = {a \in Assets : IsCurrent(a) /\ approval[a] = "approved"}])
    /\ UNCHANGED <<rows, setting, outputs, trail, cleared, faults>>

CreateCampaign(r) ==
    /\ req[r].at = "launch"
    /\ campaign' = req[r].tied
    /\ Goes(r, Idle)
    /\ UNCHANGED <<rows, setting, package, trail, cleared, faults>>

(* An operation of the database raises in the middle of a request, or the  *)
(* process stops: what it has committed stays.                             *)
RequestFails(r) ==
    /\ req[r] # Idle
    /\ faults < MaxFaults
    /\ faults' = faults + 1
    /\ Goes(r, Idle)
    /\ UNCHANGED <<rows, setting, outputs, trail, cleared>>

RequestStep(r) ==
    \/ \E a \in Assets : StartEvaluate(r, a) \/ StartApprove(r, a) \/ Reject(r, a)
    \/ ReadAuthor(r) \/ ReadEditions(r) \/ StoreEvaluation(r)
    \/ RefreshEvaluation(r) \/ LogEvaluation(r)
    \/ Approve(r) \/ LogDecision(r)
    \/ StartPackage(r) \/ RequireApproved(r) \/ BuildPackage(r) \/ RefusePackage(r)
    \/ StartCampaign(r) \/ CreateCampaign(r)
    \/ RequestFails(r)

Saves(r) ==
    \/ \E profile \in Profiles : SaveAuthor(r, profile)
    \/ \E data \in Metadata : CreateEdition(r, data)
    \/ \E data \in Metadata, e \in DOMAIN editions : UpdateEdition(r, e, data)

Next ==
    \/ \E new \in SUBSET Assets : PersistAssets(new)
    \/ \E r \in Requests : Saves(r) \/ RequestStep(r)

Spec == Init /\ [][Next]_vars

(***************************************************************************)
(* Properties                                                              *)
(***************************************************************************)
Decisions == {"draft", "approved", "rejected"}
Steps == {"idle", "author", "editions", "store", "refresh", "logEvaluation",
          "approve", "logApproval", "logRejection", "gate", "build", "launch"}

RequestType == [
    at        : Steps,
    asset     : Assets \cup {NoAsset},
    approving : BOOLEAN,
    author    : Authors,
    label     : Labels \cup {"none"},
    tied      : SUBSET Assets]

(* The types of the state. *)
TypeOK ==
    /\ gov \in [Assets -> Labels \cup {"absent", "pending"}]
    /\ approval \in [Assets -> Decisions]
    /\ author \in Authors
    /\ editions \in Seq(Editions)
    /\ package \in [asset : Assets \cup {NoAsset}, owned : BOOLEAN]
    /\ campaign \in SUBSET Assets
    /\ evaluated \in SUBSET Assets
    /\ decided \in [Assets -> Decisions]
    /\ req \in [Requests -> RequestType]
    /\ cleared \in SUBSET Assets
    /\ faults \in 0..MaxFaults

(* However requests interleave, an approved asset has been evaluated and   *)
(* its label was review or allow at some time: approve_asset evaluates a   *)
(* pending asset and checks the answer.                                    *)
ApprovedWasCleared == \A a \in Assets : approval[a] = "approved" => a \in cleared

(* So has every asset a package went out on or a campaign task is tied to, *)
(* although both decide on rows that may have changed when they commit.    *)
OutputsWereCleared == campaign \cup ({package.asset} \ {NoAsset}) \subseteq cleared

(* Why: a request that is about to approve, to let a package out or to tie *)
(* tasks holds an asset that has been cleared, and no label becomes pending *)
(* again.                                                                  *)
OnAnAsset == Steps \ {"idle", "gate", "launch"}

RequestClearance(r) ==
    /\ req[r].at \in OnAnAsset => req[r].asset \in Existing
    /\ req[r].at = "store" => req[r].label \in Labels
    /\ req[r].at = "refresh" => gov[req[r].asset] \in Labels
    /\ req[r].at = "logEvaluation" =>
         /\ req[r].label \in Labels
         /\ req[r].label = "block" \/ req[r].asset \in cleared
    /\ req[r].at \in {"approve", "build"} => req[r].asset \in cleared
    /\ req[r].tied \subseteq cleared

Clearance ==
    /\ \A a \in Assets : gov[a] \in {"review", "allow"} => a \in cleared
    /\ \A r \in Requests : RequestClearance(r)

ReviewInv == TypeOK /\ Clearance /\ ApprovedWasCleared /\ OutputsWereCleared

(* Evaluations and decisions that the audit trail does not know and that   *)
(* no request is about to log.                                             *)
LostEvaluations ==
    {a \in Assets : /\ gov[a] \in Labels /\ a \notin evaluated
                    /\ \A r \in Requests :
                         req[r].at \in {"refresh", "logEvaluation"} => req[r].asset # a}

LostDecisions ==
    {a \in Assets : /\ approval[a] # "draft" /\ decided[a] = "draft"
                    /\ \A r \in Requests :
                         req[r].at \in {"logApproval", "logRejection"} => req[r].asset # a}

(* The audit trail, written after each commit in a transaction of its own, *)
(* misses an asset's evaluation or decision only where a request failed.   *)
TrailIsComplete == Cardinality(LostEvaluations) + Cardinality(LostDecisions) <= faults

(* With one request at a time, the last decision event of an asset is its  *)
(* approval status, unless a request has failed or is about to log it.     *)
TrailFollowsDecisions ==
    faults = 0 =>
        \A a \in Assets :
            \/ decided[a] = approval[a]
            \/ \E r \in Requests :
                 req[r].at \in {"logApproval", "logRejection"} /\ req[r].asset = a

(* With one request at a time, beside the job worker, every operation acts *)
(* as if it took effect at once.                                           *)
Atomic == INSTANCE AssetReview

AtomicReview == Atomic!Spec

(* approve_asset: "Blocked assets cannot be approved until they are        *)
(* revised".                                                               *)
BlockedIsNotApproved ==
    [][\A a \in Assets :
          approval[a] # "approved" /\ approval'[a] = "approved" => gov[a] # "block"]_vars

(* rules.yaml: "Unknown rights block packaging." *)
UnknownRightsBlockPackaging == package.owned
=============================================================================
