-------------------------- MODULE GovernanceProofs --------------------------
(***************************************************************************)
(* Theorems about Governance for every set of assets, texts, profiles and  *)
(* editions, and every number of requests and bound on faults.             *)
(***************************************************************************)
EXTENDS Governance, FiniteSetTheorems, TLAPS

(* The mapping of rule results always answers one of the three labels. *)
LEMMA LabelType ==
    ASSUME NEW issues, NEW profile, NEW edition
    PROVE  Label(issues, profile, edition) \in Labels
    BY DEF Label, Labels

(* The request's record keeps its type when its fields are given values of *)
(* theirs, in the combinations the steps use.                              *)
LEMMA RecordType ==
    \A x \in RequestType, at \in Steps :
        /\ [x EXCEPT !.at = at] \in RequestType
        /\ \A a \in Assets : [x EXCEPT !.at = at, !.asset = a] \in RequestType
        /\ \A a \in Assets, b \in BOOLEAN :
              [x EXCEPT !.asset = a, !.at = at, !.approving = b] \in RequestType
        /\ \A profile \in Authors :
              /\ [x EXCEPT !.at = at, !.author = profile] \in RequestType
              /\ \A label \in Labels :
                    [x EXCEPT !.at = at, !.author = profile, !.label = label] \in RequestType
        /\ \A label \in Labels : [x EXCEPT !.at = at, !.label = label] \in RequestType
        /\ \A set \in SUBSET Assets : [x EXCEPT !.at = at, !.tied = set] \in RequestType
    BY DEF RequestType

(* The steps by name. *)
LEMMA StepNames ==
    /\ {"idle", "author", "editions", "store", "refresh", "logEvaluation"} \subseteq Steps
    /\ {"approve", "logApproval", "logRejection", "gate", "build", "launch"} \subseteq Steps
    BY DEF Steps

(* An idle request, and the profile it has not read, have their types.     *)
LEMMA IdleType == EmptyProfile \in Authors /\ Idle \in RequestType
    BY DEF Idle, RequestType, Authors, EmptyProfile, Steps, NoAsset

(* Moving one request keeps the types of all. *)
LEMMA GoesType ==
    ASSUME req \in [Requests -> RequestType], NEW r \in Requests,
           NEW to \in RequestType, Goes(r, to)
    PROVE  req' \in [Requests -> RequestType]
    BY DEF Goes

(* The initial state has the types.                                        *)
LEMMA TypeInit == Init => TypeOK
<1> SUFFICES ASSUME Init PROVE TypeOK
    OBVIOUS
<1> USE GovernanceAssumption
<1>1. req \in [Requests -> RequestType]
    BY IdleType DEF Init
<1>2. author \in Authors /\ editions \in Seq(Editions)
    BY DEF Init
<1>3. package \in [asset : Assets \cup {NoAsset}, owned : BOOLEAN]
    BY DEF Init, NoPackage
<1>4. gov \in [Assets -> Labels \cup {"absent", "pending"}]
    BY DEF Init
<1> QED
    BY <1>1, <1>2, <1>3, <1>4 DEF Init, TypeOK, Decisions

(* What a request's next state is, for each step that moves one. *)
LEMMA RequestTypes ==
    ASSUME TypeOK, Clearance, NEW r \in Requests, RequestStep(r)
    PROVE  req' \in [Requests -> RequestType]
<1>0. /\ req \in [Requests -> RequestType] /\ req[r] \in RequestType
      /\ author \in Authors
      /\ gov \in [Assets -> Labels \cup {"absent", "pending"}]
    BY DEF TypeOK
<1>1. ASSUME NEW a \in Assets, StartEvaluate(r, a) \/ Reject(r, a)
      PROVE  req' \in [Requests -> RequestType]
    <2>1. /\ [Idle EXCEPT !.at = "author", !.asset = a] \in RequestType
          /\ [Idle EXCEPT !.at = "logRejection", !.asset = a] \in RequestType
        BY IdleType, RecordType, StepNames
    <2> QED
        BY <2>1, <1>0, <1>1, GoesType DEF StartEvaluate, Reject, RejectAnd
<1>2. ASSUME NEW a \in Assets, StartApprove(r, a)
      PROVE  req' \in [Requests -> RequestType]
    <2> DEFINE at == IF gov[a] = "pending" THEN "author" ELSE "approve"
               b == gov[a] = "pending"
    <2>1. at \in Steps /\ b \in BOOLEAN
        BY StepNames
    <2>2. Goes(r, [Idle EXCEPT !.asset = a, !.at = at, !.approving = b])
        BY <1>2 DEF StartApprove, ApproveUnless
    <2> HIDE DEF at, b
    <2>3. [Idle EXCEPT !.asset = a, !.at = at, !.approving = b] \in RequestType
        BY <2>1, IdleType, RecordType
    <2> QED
        BY <2>2, <2>3, <1>0, GoesType
<1>3. CASE ReadAuthor(r)
    <2>1. [req[r] EXCEPT !.at = "editions", !.author = author] \in RequestType
        BY <1>0, RecordType, StepNames
    <2> QED
        BY <2>1, <1>0, <1>3, GoesType DEF ReadAuthor
<1>4. CASE ReadEditions(r)
    <2> DEFINE label == Label(Text[req[r].asset], req[r].author, Evaluated(editions))
    <2>1. label \in Labels
        BY LabelType
    <2>2. Goes(r, [req[r] EXCEPT !.at = "store", !.author = EmptyProfile, !.label = label])
        BY <1>4 DEF ReadEditions, LabelWith
    <2> HIDE DEF label
    <2>3. [req[r] EXCEPT !.at = "store", !.author = EmptyProfile, !.label = label]
              \in RequestType
        BY <2>1, <1>0, IdleType, RecordType, StepNames
    <2> QED
        BY <2>2, <2>3, <1>0, GoesType
<1>5. CASE StoreEvaluation(r) \/ Approve(r)
    <2>1. /\ [req[r] EXCEPT !.at = "refresh"] \in RequestType
          /\ [req[r] EXCEPT !.at = "logApproval"] \in RequestType
        BY <1>0, RecordType, StepNames
    <2> QED
        BY <2>1, <1>0, <1>5, GoesType DEF StoreEvaluation, Moves, Approve, ApproveAnd
<1>6. CASE RefreshEvaluation(r)
    <2> DEFINE label == gov[req[r].asset]
    <2>1. label \in Labels
        BY <1>6 DEF RefreshEvaluation, Clearance, RequestClearance
    <2>2. Goes(r, [req[r] EXCEPT !.at = "logEvaluation", !.label = label])
        BY <1>6 DEF RefreshEvaluation
    <2> HIDE DEF label
    <2>3. [req[r] EXCEPT !.at = "logEvaluation", !.label = label] \in RequestType
        BY <2>1, <1>0, RecordType, StepNames
    <2> QED
        BY <2>2, <2>3, <1>0, GoesType
<1>7. CASE LogEvaluation(r)
    <2>1. req[r].asset \in Assets
        BY <1>7, StepNames DEF LogEvaluation, LogThenApprove, Clearance, RequestClearance, Existing, OnAnAsset
    <2>2. [Idle EXCEPT !.at = "approve", !.asset = req[r].asset] \in RequestType
        BY <2>1, IdleType, RecordType, StepNames
    <2> QED
        BY <2>2, <1>0, <1>7, GoesType, IdleType DEF LogEvaluation, LogThenApprove
<1>8. CASE \/ LogDecision(r) \/ BuildPackage(r) \/ RefusePackage(r)
           \/ CreateCampaign(r) \/ RequestFails(r)
    BY <1>0, <1>8, GoesType, IdleType
    DEF LogDecision, BuildPackage, RefusePackage, CreateCampaign, RequestFails
<1>9. CASE StartPackage(r)
    <2>1. [Idle EXCEPT !.at = "gate", !.author = author] \in RequestType
        BY <1>0, IdleType, RecordType, StepNames
    <2> QED
        BY <2>1, <1>0, <1>9, GoesType DEF StartPackage
<1>10. CASE RequireApproved(r)
    <2>1. \A a \in Assets : [req[r] EXCEPT !.at = "build", !.asset = a] \in RequestType
        BY <1>0, RecordType, StepNames
    <2> QED
        BY <2>1, <1>0, <1>10, GoesType, IdleType DEF RequireApproved, Gate, Unblocked
<1>11. CASE StartCampaign(r)
    <2> DEFINE set == {a \in Assets : IsCurrent(a) /\ approval[a] = "approved"}
    <2>1. Goes(r, [Idle EXCEPT !.at = "launch", !.tied = set]) /\ set \in SUBSET Assets
        BY <1>11 DEF StartCampaign
    <2> HIDE DEF set
    <2>2. [Idle EXCEPT !.at = "launch", !.tied = set] \in RequestType
        BY <2>1, IdleType, RecordType, StepNames
    <2> QED
        BY <2>1, <2>2, <1>0, GoesType
<1> QED
    BY <1>1, <1>2, <1>3, <1>4, <1>5, <1>6, <1>7, <1>8, <1>9, <1>10, <1>11 DEF RequestStep

(* Every step keeps the types; Clearance is needed because a label that is *)
(* about to be stored must be one of the three.                            *)
LEMMA TypeNext == TypeOK /\ Clearance /\ [Next]_vars => TypeOK'
<1> SUFFICES ASSUME TypeOK, Clearance, [Next]_vars PROVE TypeOK'
    OBVIOUS
<1> USE DEF rows, setting, outputs, trail
<1>1. ASSUME NEW new \in SUBSET Assets, PersistAssets(new) PROVE TypeOK'
    BY <1>1 DEF PersistAssets, Persist, TypeOK, Decisions
<1>2. ASSUME NEW r \in Requests, Saves(r) PROVE TypeOK'
    <2>1. author' \in Authors /\ editions' \in Seq(Editions)
        <3>1. author \in Authors /\ editions \in Seq(Editions)
            BY DEF TypeOK
        <3>2. ASSUME NEW profile \in Profiles, SaveAuthor(r, profile)
              PROVE  author' \in Authors /\ editions' = editions
            BY <3>2, GovernanceAssumption DEF SaveAuthor
        <3>3. ASSUME NEW data \in Metadata, CreateEdition(r, data)
              PROVE  author' = author /\ editions' \in Seq(Editions)
            BY <3>1, <3>3, GovernanceAssumption DEF CreateEdition
        <3>4. ASSUME NEW data \in Metadata, NEW e \in DOMAIN editions,
                     UpdateEdition(r, e, data)
              PROVE  author' = author /\ editions' \in Seq(Editions)
            <4>1. data \in Editions
                BY GovernanceAssumption
            <4>2. editions' = [editions EXCEPT ![e] = data] /\ author' = author
                BY <3>4 DEF UpdateEdition
            <4> QED
                BY <3>1, <4>1, <4>2
        <3> QED
            BY <1>2, <3>1, <3>2, <3>3, <3>4 DEF Saves
    <2>2. UNCHANGED <<rows, outputs, trail, req, cleared, faults>>
        BY <1>2 DEF Saves, SaveAuthor, CreateEdition, UpdateEdition
    <2> QED
        BY <2>1, <2>2 DEF TypeOK
<1>3. ASSUME NEW r \in Requests, RequestStep(r) PROVE TypeOK'
    <2>1. req' \in [Requests -> RequestType]
        BY <1>3, RequestTypes
    <2>2. req[r] \in RequestType
        BY DEF TypeOK
    <2>3. ASSUME NEW a \in Assets, StartEvaluate(r, a) \/ StartApprove(r, a) \/ Reject(r, a)
          PROVE  TypeOK'
        BY <2>1, <2>3
        DEF StartEvaluate, StartApprove, ApproveUnless, Reject, RejectAnd, TypeOK, Decisions
    <2>4. CASE \/ ReadAuthor(r) \/ ReadEditions(r) \/ RefreshEvaluation(r)
               \/ StartPackage(r) \/ RequireApproved(r) \/ RefusePackage(r) \/ StartCampaign(r)
        BY <2>1, <2>4
        DEF ReadAuthor, ReadEditions, LabelWith, RefreshEvaluation, StartPackage,
            RequireApproved, Gate, RefusePackage, StartCampaign, TypeOK
    <2>5. CASE StoreEvaluation(r)
        <3>1. /\ req[r].asset \in Assets
              /\ req[r].label \in Labels
            BY <2>5, StepNames
            DEF StoreEvaluation, Moves, Clearance, RequestClearance, OnAnAsset, Existing
        <3> QED
            BY <2>1, <2>5, <3>1 DEF StoreEvaluation, TypeOK
    <2>6. CASE LogEvaluation(r)
        <3>1. req[r].asset \in Assets
            BY <2>6, StepNames
            DEF LogEvaluation, LogThenApprove, Clearance, RequestClearance, OnAnAsset, Existing
        <3> QED
            BY <2>1, <2>6, <3>1 DEF LogEvaluation, LogThenApprove, TypeOK
    <2>7. CASE Approve(r)
        BY <2>1, <2>7 DEF Approve, ApproveAnd, TypeOK, Decisions
    <2>8. CASE LogDecision(r)
        BY <2>1, <2>8 DEF LogDecision, TypeOK, Decisions
    <2>9. CASE BuildPackage(r)
        BY <2>1, <2>2, <2>9 DEF BuildPackage, TypeOK, RequestType, Authors
    <2>10. CASE CreateCampaign(r)
        BY <2>1, <2>2, <2>10 DEF CreateCampaign, TypeOK, RequestType
    <2>11. CASE RequestFails(r)
        BY <2>1, <2>11, GovernanceAssumption DEF RequestFails, TypeOK
    <2> QED
        BY <1>3, <2>3, <2>4, <2>5, <2>6, <2>7, <2>8, <2>9, <2>10, <2>11 DEF RequestStep
<1>4. CASE UNCHANGED vars
    BY <1>4 DEF vars, TypeOK
<1> QED
    BY <1>1, <1>2, <1>3, <1>4 DEF Next

-----------------------------------------------------------------------------
(* Nothing is approved or goes out that was not cleared.                   *)

(* What the steps preserve beside the types. *)
ReviewedOutputs == Clearance /\ ApprovedWasCleared /\ OutputsWereCleared

(* Before any asset exists nothing is approved, packaged or tied.          *)
LEMMA ClearanceInit == Init => ReviewedOutputs
<1> SUFFICES ASSUME Init PROVE ReviewedOutputs
    OBVIOUS
<1>1. \A r \in Requests : RequestClearance(r)
    BY DEF Init, Idle, RequestClearance, OnAnAsset
<1>2. OutputsWereCleared
    BY DEF Init, OutputsWereCleared, NoPackage
<1> QED
    BY <1>1, <1>2 DEF Init, ReviewedOutputs, Clearance, ApprovedWasCleared

(* Assets and labels only come to be: what a request relies on about an    *)
(* asset stays true whatever the others do.                                *)
Growing ==
    /\ cleared \subseteq cleared'
    /\ Existing \subseteq Existing'
    /\ \A a \in Existing : gov[a] \in Labels => gov'[a] \in Labels

(* What a request knows of its asset stays true while rows only grow.      *)
LEMMA OthersKeep ==
    ASSUME Growing, NEW s \in Requests, req'[s] = req[s], RequestClearance(s)
    PROVE  RequestClearance(s)'
<1>1. req[s].at = "refresh" => req[s].asset \in Existing
    BY StepNames DEF RequestClearance, OnAnAsset
<1> QED
    BY <1>1 DEF Growing, RequestClearance

(* Rows only grow: assets stay, labels stay labels, cleared assets stay    *)
(* cleared.                                                                *)
LEMMA GrowingNext ==
    ASSUME TypeOK, Clearance, [Next]_vars
    PROVE  Growing
<1> USE DEF rows, Growing, Existing
<1>1. ASSUME NEW new \in SUBSET Assets, PersistAssets(new) PROVE Growing
    BY <1>1 DEF PersistAssets, Persist, TypeOK
<1>2. ASSUME NEW r \in Requests, StoreEvaluation(r) PROVE Growing
    <2>1. req[r].asset \in Assets /\ req[r].label \in Labels
        BY <1>2, StepNames
        DEF StoreEvaluation, Moves, Clearance, RequestClearance, OnAnAsset
    <2> QED
        BY <1>2, <2>1 DEF StoreEvaluation, TypeOK, Labels
<1>3. ASSUME UNCHANGED <<gov, cleared>> PROVE Growing
    BY <1>3
<1>4. ASSUME NEW r \in Requests, Saves(r) PROVE UNCHANGED <<gov, cleared>>
    BY <1>4 DEF Saves, SaveAuthor, CreateEdition, UpdateEdition
<1>5. ASSUME NEW r \in Requests, RequestStep(r), ~StoreEvaluation(r)
      PROVE  UNCHANGED <<gov, cleared>>
    BY <1>5
    DEF RequestStep, StartEvaluate, StartApprove, ApproveUnless, Reject, RejectAnd,
        ReadAuthor, ReadEditions, LabelWith, RefreshEvaluation, LogEvaluation,
        LogThenApprove, Approve, ApproveAnd, LogDecision, StartPackage, RequireApproved,
        Gate, BuildPackage, RefusePackage, StartCampaign, CreateCampaign, RequestFails
<1> QED
    BY <1>1, <1>2, <1>3, <1>4, <1>5 DEF Next, vars

(* The request that moves: one case per step. *)
LEMMA MoverClearance ==
    ASSUME TypeOK, ReviewedOutputs, NEW r \in Requests, RequestStep(r), Growing
    PROVE  RequestClearance(r)'
<1> USE DEF rows
<1>0. /\ req \in [Requests -> RequestType] /\ req[r] \in RequestType
      /\ gov \in [Assets -> Labels \cup {"absent", "pending"}]
      /\ RequestClearance(r)
    BY DEF TypeOK, ReviewedOutputs, Clearance
<1>1. ASSUME NEW to, Goes(r, to) PROVE req'[r] = to
    BY <1>0, <1>1 DEF Goes
<1>2. ASSUME req'[r] = Idle PROVE RequestClearance(r)'
    BY <1>2 DEF RequestClearance, Idle, OnAnAsset
<1>3. ASSUME NEW a \in Assets, StartEvaluate(r, a) \/ Reject(r, a)
      PROVE  RequestClearance(r)'
    <2>1. /\ a \in Existing
          /\ \/ req'[r] = [Idle EXCEPT !.at = "author", !.asset = a]
             \/ req'[r] = [Idle EXCEPT !.at = "logRejection", !.asset = a]
        BY <1>1, <1>3 DEF StartEvaluate, Reject, RejectAnd
    <2> QED
        BY <2>1 DEF RequestClearance, Idle, Growing
<1>4. ASSUME NEW a \in Assets, StartApprove(r, a) PROVE RequestClearance(r)'
    <2>1. a \in Existing /\ gov[a] \in {"pending", "review", "allow"}
        BY <1>0, <1>4 DEF StartApprove, ApproveUnless, Existing, Labels
    <2>2. req'[r] = [Idle EXCEPT !.asset = a,
                                 !.at = IF gov[a] = "pending" THEN "author" ELSE "approve",
                                 !.approving = gov[a] = "pending"]
        BY <1>1, <1>4 DEF StartApprove, ApproveUnless
    <2>3. CASE gov[a] = "pending"
        BY <2>1, <2>2, <2>3 DEF RequestClearance, Idle, Growing
    <2>4. CASE gov[a] # "pending"
        <3>1. a \in cleared
            BY <2>1, <2>4 DEF ReviewedOutputs, Clearance
        <3> QED
            BY <2>1, <2>2, <2>4, <3>1 DEF RequestClearance, Idle, Growing
    <2> QED
        BY <2>3, <2>4
<1>5. CASE ReadAuthor(r)
    <2>1. /\ req[r].at = "author"
          /\ req'[r] = [req[r] EXCEPT !.at = "editions", !.author = author]
        BY <1>1, <1>5 DEF ReadAuthor
    <2> QED
        BY <2>1, <1>0, StepNames DEF RequestClearance, RequestType, Growing, OnAnAsset
<1>6. CASE ReadEditions(r)
    <2> DEFINE label == Label(Text[req[r].asset], req[r].author, Evaluated(editions))
    <2>1. /\ req[r].at = "editions" /\ label \in Labels
          /\ req'[r] = [req[r] EXCEPT !.at = "store", !.author = EmptyProfile, !.label = label]
        BY <1>1, <1>6, LabelType DEF ReadEditions, LabelWith
    <2> HIDE DEF label
    <2> QED
        BY <2>1, <1>0, StepNames DEF RequestClearance, RequestType, Growing, OnAnAsset
<1>7. CASE StoreEvaluation(r)
    <2>1. /\ req[r].at = "store"
          /\ req'[r] = [req[r] EXCEPT !.at = "refresh"]
          /\ gov' = [gov EXCEPT ![req[r].asset] = req[r].label]
        BY <1>1, <1>7 DEF StoreEvaluation, Moves
    <2> QED
        BY <2>1, <1>0, StepNames
        DEF RequestClearance, RequestType, Growing, OnAnAsset, Existing
<1>8. CASE RefreshEvaluation(r)
    <2> DEFINE label == gov[req[r].asset]
    <2>1. /\ req[r].at = "refresh" /\ UNCHANGED <<gov, cleared>>
          /\ req'[r] = [req[r] EXCEPT !.at = "logEvaluation", !.label = label]
        BY <1>1, <1>8 DEF RefreshEvaluation
    <2>2. req[r].asset \in Existing /\ label \in Labels
        BY <2>1, <1>0, StepNames DEF RequestClearance, OnAnAsset
    <2>3. label = "block" \/ req[r].asset \in cleared
        BY <2>2 DEF ReviewedOutputs, Clearance, Labels, Existing
    <2> HIDE DEF label
    <2> QED
        BY <2>1, <2>2, <2>3, <1>0 DEF RequestClearance, RequestType, Growing
<1>9. CASE LogEvaluation(r)
    <2>1. req[r].at = "logEvaluation"
        BY <1>9 DEF LogEvaluation, LogThenApprove
    <2>2. \/ req'[r] = Idle
          \/ /\ req'[r] = [Idle EXCEPT !.at = "approve", !.asset = req[r].asset]
             /\ req[r].label # "block"
        BY <1>1, <1>9 DEF LogEvaluation, LogThenApprove
    <2>3. req[r].asset \in Existing
        BY <2>1, <1>0, StepNames DEF RequestClearance, OnAnAsset
    <2> QED
        BY <2>1, <2>2, <2>3, <1>0, <1>2 DEF RequestClearance, Idle, Growing
<1>10. CASE Approve(r)
    <2>1. /\ req[r].at = "approve"
          /\ req'[r] = [req[r] EXCEPT !.at = "logApproval"]
        BY <1>1, <1>10 DEF Approve, ApproveAnd
    <2> QED
        BY <2>1, <1>0, StepNames DEF RequestClearance, RequestType, Growing, OnAnAsset
<1>11. CASE \/ LogDecision(r) \/ BuildPackage(r) \/ RefusePackage(r)
            \/ CreateCampaign(r) \/ RequestFails(r)
    BY <1>1, <1>2, <1>11
    DEF LogDecision, BuildPackage, RefusePackage, CreateCampaign, RequestFails
<1>12. CASE StartPackage(r)
    <2>1. req'[r] = [Idle EXCEPT !.at = "gate", !.author = author]
        BY <1>1, <1>12 DEF StartPackage
    <2> QED
        BY <2>1 DEF RequestClearance, Idle, OnAnAsset
<1>13. CASE RequireApproved(r)
    <2>1. CASE req'[r] = Idle
        BY <2>1, <1>2
    <2>2. ASSUME NEW a \in Existing, approval[a] = "approved",
                 req'[r] = [req[r] EXCEPT !.at = "build", !.asset = a]
          PROVE  RequestClearance(r)'
        <3>1. a \in cleared
            BY <2>2 DEF ReviewedOutputs, ApprovedWasCleared, Existing
        <3> QED
            BY <2>2, <3>1, <1>0 DEF RequestClearance, RequestType, Growing
    <2> QED
        BY <2>1, <2>2, <1>1, <1>13 DEF RequireApproved, Gate, IsCurrent
<1>14. CASE StartCampaign(r)
    <2> DEFINE set == {a \in Assets : IsCurrent(a) /\ approval[a] = "approved"}
    <2>1. req'[r] = [Idle EXCEPT !.at = "launch", !.tied = set]
        BY <1>1, <1>14 DEF StartCampaign
    <2>2. set \subseteq cleared
        BY DEF ReviewedOutputs, ApprovedWasCleared
    <2> HIDE DEF set
    <2> QED
        BY <2>1, <2>2 DEF RequestClearance, Idle, OnAnAsset, Growing
<1> QED
    BY <1>3, <1>4, <1>5, <1>6, <1>7, <1>8, <1>9, <1>10, <1>11, <1>12, <1>13, <1>14
    DEF RequestStep

(* A step of one request leaves the others where they are. *)
LEMMA OnlyMover ==
    ASSUME TypeOK, NEW r \in Requests, RequestStep(r),
           NEW s \in Requests, s # r
    PROVE  req'[s] = req[s]
<1>1. ASSUME NEW to, Goes(r, to) PROVE req'[s] = req[s]
    BY <1>1 DEF Goes, TypeOK
<1> QED
    BY <1>1
    DEF RequestStep, StartEvaluate, StartApprove, ApproveUnless, Reject, RejectAnd,
        ReadAuthor, ReadEditions, LabelWith, StoreEvaluation, Moves, RefreshEvaluation,
        LogEvaluation, LogThenApprove, Approve, ApproveAnd, LogDecision, StartPackage,
        RequireApproved, Gate, BuildPackage, RefusePackage, StartCampaign,
        CreateCampaign, RequestFails

(* The rows and the outputs, per step that writes them. *)
LEMMA WritesAreCleared ==
    ASSUME TypeOK, ReviewedOutputs, NEW r \in Requests, RequestStep(r), Growing
    PROVE  /\ \A a \in Assets : gov'[a] \in {"review", "allow"} => a \in cleared'
           /\ ApprovedWasCleared'
           /\ OutputsWereCleared'
<1> USE DEF rows, outputs
<1>0. /\ gov \in [Assets -> Labels \cup {"absent", "pending"}]
      /\ approval \in [Assets -> Decisions]
      /\ RequestClearance(r)
      /\ \A a \in Assets : gov[a] \in {"review", "allow"} => a \in cleared
      /\ \A a \in Assets : approval[a] = "approved" => a \in cleared
      /\ campaign \cup ({package.asset} \ {NoAsset}) \subseteq cleared
    BY DEF TypeOK, ReviewedOutputs, Clearance, ApprovedWasCleared, OutputsWereCleared
<1>1. CASE StoreEvaluation(r)
    BY <1>0, <1>1
    DEF StoreEvaluation, Moves, RequestClearance, Growing, ApprovedWasCleared, OutputsWereCleared
<1>2. CASE Approve(r)
    <2>1. req[r].asset \in cleared
        BY <1>0, <1>2 DEF Approve, ApproveAnd, RequestClearance
    <2> QED
        BY <1>0, <1>2, <2>1 DEF Approve, ApproveAnd, ApprovedWasCleared, OutputsWereCleared
<1>3. ASSUME NEW a \in Assets, Reject(r, a)
      PROVE  /\ ApprovedWasCleared' /\ UNCHANGED <<gov, cleared, outputs>>
    BY <1>0, <1>3 DEF Reject, RejectAnd, ApprovedWasCleared
<1>4. CASE BuildPackage(r)
    <2>1. req[r].asset \in cleared
        BY <1>0, <1>4 DEF BuildPackage, RequestClearance
    <2> QED
        BY <1>0, <1>4, <2>1 DEF BuildPackage, ApprovedWasCleared, OutputsWereCleared
<1>5. CASE CreateCampaign(r)
    <2>1. req[r].tied \subseteq cleared
        BY <1>0 DEF RequestClearance
    <2> QED
        BY <1>0, <1>5, <2>1 DEF CreateCampaign, ApprovedWasCleared, OutputsWereCleared
<1>6. ASSUME UNCHANGED <<gov, cleared, outputs>>
      PROVE  /\ \A a \in Assets : gov'[a] \in {"review", "allow"} => a \in cleared'
             /\ OutputsWereCleared'
    BY <1>0, <1>6 DEF OutputsWereCleared
<1>7. ASSUME UNCHANGED <<approval, cleared>> PROVE ApprovedWasCleared'
    BY <1>0, <1>7 DEF ApprovedWasCleared
<1>8. ASSUME NEW a \in Assets, StartEvaluate(r, a) \/ StartApprove(r, a)
      PROVE  UNCHANGED <<gov, approval, cleared, outputs>>
    BY <1>8 DEF StartEvaluate, StartApprove, ApproveUnless
<1>9. CASE \/ ReadAuthor(r) \/ ReadEditions(r) \/ RefreshEvaluation(r)
           \/ LogEvaluation(r) \/ LogDecision(r) \/ StartPackage(r)
           \/ RequireApproved(r) \/ RefusePackage(r) \/ StartCampaign(r) \/ RequestFails(r)
    <2>1. UNCHANGED <<gov, approval, cleared, outputs>>
        BY <1>9
        DEF ReadAuthor, ReadEditions, LabelWith, RefreshEvaluation, LogEvaluation,
            LogThenApprove, LogDecision, StartPackage, RequireApproved, Gate,
            RefusePackage, StartCampaign, RequestFails
    <2> QED
        BY <2>1, <1>6, <1>7
<1> QED
    BY <1>1, <1>2, <1>3, <1>4, <1>5, <1>6, <1>7, <1>8, <1>9 DEF RequestStep

(* Every step keeps the clearance of what is approved or goes out.         *)
LEMMA ClearanceNext ==
    ASSUME TypeOK, ReviewedOutputs, [Next]_vars
    PROVE  ReviewedOutputs'
<1>0. Growing
    BY GrowingNext DEF ReviewedOutputs
<1>1. ASSUME req' = req, rows' = rows \/ \E new \in SUBSET Assets : PersistAssets(new),
             UNCHANGED <<outputs, cleared>>
      PROVE  ReviewedOutputs'
    <2>1. \A r \in Requests : RequestClearance(r)'
        BY <1>0, <1>1, OthersKeep DEF ReviewedOutputs, Clearance
    <2>2. \A a \in Assets :
              /\ gov'[a] \in {"review", "allow"} => gov[a] = gov'[a]
              /\ approval'[a] = "approved" => approval[a] = "approved"
        BY <1>1 DEF PersistAssets, Persist, rows
    <2> QED
        BY <1>1, <2>1, <2>2
        DEF ReviewedOutputs, Clearance, ApprovedWasCleared, OutputsWereCleared, outputs
<1>2. ASSUME NEW new \in SUBSET Assets, PersistAssets(new)
      PROVE  req' = req /\ UNCHANGED <<outputs, cleared>>
    BY <1>2 DEF PersistAssets, Persist
<1>3. ASSUME NEW r \in Requests, Saves(r)
      PROVE  req' = req /\ rows' = rows /\ UNCHANGED <<outputs, cleared>>
    BY <1>3 DEF Saves, SaveAuthor, CreateEdition, UpdateEdition, outputs
<1>4. ASSUME NEW r \in Requests, RequestStep(r)
      PROVE  ReviewedOutputs'
    <2>1. \A s \in Requests : RequestClearance(s)'
        BY <1>0, <1>4, OnlyMover, OthersKeep, MoverClearance DEF ReviewedOutputs, Clearance
    <2> QED
        BY <1>0, <1>4, <2>1, WritesAreCleared DEF ReviewedOutputs, Clearance
<1>5. CASE UNCHANGED vars
    BY <1>1, <1>5 DEF vars
<1> QED
    BY <1>1, <1>2, <1>3, <1>4, <1>5 DEF Next

(* The state keeps its types, nothing is approved and no package or        *)
(* campaign goes out that was not cleared, for any number of requests.     *)
THEOREM ReviewInvariant == Spec => []ReviewInv
<1>1. Init => ReviewInv
    BY TypeInit, ClearanceInit DEF ReviewInv, ReviewedOutputs
<1>2. ReviewInv /\ [Next]_vars => ReviewInv'
    BY TypeNext, ClearanceNext DEF ReviewInv, ReviewedOutputs
<1> QED
    BY <1>1, <1>2, PTL DEF Spec

(* The state keeps its types, for any number of requests and assets.       *)
THEOREM ReviewTypes == Spec => []TypeOK
    BY ReviewInvariant, PTL DEF ReviewInv

(* However evaluations, approvals and edits race, no asset is approved     *)
(* that was never labelled review or allow.                                *)
THEOREM ApprovalNeedsClearance == Spec => []ApprovedWasCleared
    BY ReviewInvariant, PTL DEF ReviewInv

(* The same for what a package goes out on and a campaign is tied to.      *)
THEOREM OutputsNeedClearance == Spec => []OutputsWereCleared
    BY ReviewInvariant, PTL DEF ReviewInv

-----------------------------------------------------------------------------
(* Every failure costs the audit trail at most one event.                  *)

(* The request is about to log the evaluation, or the decision, of asset a. *)
Logs(r, a) == req[r].at \in {"refresh", "logEvaluation"} /\ req[r].asset = a

LogsDecision(r, a) == req[r].at \in {"logApproval", "logRejection"} /\ req[r].asset = a

(* What the trail should know of an asset it knows or will be told.        *)
EvaluationKept(a) == gov[a] \in Labels => a \in evaluated \/ \E r \in Requests : Logs(r, a)

DecisionKept(a) ==
    approval[a] # "draft" => decided[a] # "draft" \/ \E r \in Requests : LogsDecision(r, a)

(* The request's step stores an evaluation, or a decision, only to log it, *)
(* logs what it was about to, and forgets no event.                        *)
EvaluationGoesOn(r, a) ==
    /\ gov'[a] \in Labels => gov[a] \in Labels \/ Logs(r, a)'
    /\ a \in evaluated => a \in evaluated'
    /\ Logs(r, a) => a \in evaluated' \/ Logs(r, a)'

DecisionGoesOn(r, a) ==
    /\ approval'[a] # "draft" => approval[a] # "draft" \/ LogsDecision(r, a)'
    /\ decided[a] # "draft" => decided'[a] # "draft"
    /\ LogsDecision(r, a) => decided'[a] # "draft" \/ LogsDecision(r, a)'

(* Every step but a failure does so.                                       *)
LEMMA StepLogs ==
    ASSUME ReviewInv, NEW r \in Requests, RequestStep(r), ~RequestFails(r), NEW a \in Assets
    PROVE  EvaluationGoesOn(r, a) /\ DecisionGoesOn(r, a) /\ faults' = faults
<1> USE DEF rows, trail, Logs, LogsDecision
<1>0. /\ req \in [Requests -> RequestType] /\ req[r] \in RequestType
      /\ gov \in [Assets -> Labels \cup {"absent", "pending"}]
      /\ approval \in [Assets -> Decisions] /\ decided \in [Assets -> Decisions]
    BY DEF ReviewInv, TypeOK
<1>1. ASSUME NEW to, Goes(r, to) PROVE req'[r] = to
    BY <1>0, <1>1 DEF Goes
<1>2. ASSUME UNCHANGED <<gov, evaluated>>, req[r].at \notin {"refresh", "logEvaluation"}
      PROVE  EvaluationGoesOn(r, a)
    BY <1>2 DEF EvaluationGoesOn
<1>3. ASSUME UNCHANGED <<approval, decided>>, req[r].at \notin {"logApproval", "logRejection"}
      PROVE  DecisionGoesOn(r, a)
    BY <1>3 DEF DecisionGoesOn
<1>4. ASSUME NEW b \in Assets, Reject(r, b)
      PROVE  EvaluationGoesOn(r, a) /\ DecisionGoesOn(r, a) /\ faults' = faults
    <2>1. /\ req[r].at = "idle" /\ UNCHANGED <<gov, evaluated, decided, faults>>
          /\ approval' = [approval EXCEPT ![b] = "rejected"]
        BY <1>4 DEF Reject, RejectAnd, Idle
    <2>2. req'[r] = [Idle EXCEPT !.at = "logRejection", !.asset = b]
        BY <1>1, <1>4 DEF Reject, RejectAnd
    <2>3. LogsDecision(r, b)'
        BY <2>2 DEF Idle
    <2>4. approval'[a] = approval[a] \/ b = a
        BY <1>0, <2>1
    <2>5. DecisionGoesOn(r, a)
        BY <2>1, <2>3, <2>4 DEF DecisionGoesOn
    <2> QED
        BY <1>2, <2>1, <2>5
<1>5. CASE StoreEvaluation(r)
    <2>1. /\ req[r].at = "store" /\ UNCHANGED <<approval, decided, evaluated, faults>>
          /\ gov' = [gov EXCEPT ![req[r].asset] = req[r].label]
        BY <1>5 DEF StoreEvaluation, Moves
    <2>2. req'[r] = [req[r] EXCEPT !.at = "refresh"]
        BY <1>1, <1>5 DEF StoreEvaluation, Moves
    <2>3. req'[r].at = "refresh" /\ req'[r].asset = req[r].asset
        BY <1>0, <2>2 DEF RequestType
    <2>4. gov'[a] = gov[a] \/ req[r].asset = a
        BY <1>0, <2>1
    <2>5. EvaluationGoesOn(r, a)
        BY <2>1, <2>3, <2>4 DEF EvaluationGoesOn
    <2> QED
        BY <1>3, <2>1, <2>5
<1>6. CASE RefreshEvaluation(r)
    <2>1. /\ req[r].at = "refresh"
          /\ UNCHANGED <<gov, approval, decided, evaluated, faults>>
        BY <1>6 DEF RefreshEvaluation
    <2>2. req'[r] = [req[r] EXCEPT !.at = "logEvaluation", !.label = gov[req[r].asset]]
        BY <1>1, <1>6 DEF RefreshEvaluation
    <2>3. req'[r].at = "logEvaluation" /\ req'[r].asset = req[r].asset
        BY <1>0, <2>2 DEF RequestType
    <2>4. EvaluationGoesOn(r, a)
        BY <2>1, <2>3 DEF EvaluationGoesOn
    <2> QED
        BY <1>3, <2>1, <2>4
<1>7. CASE LogEvaluation(r)
    <2>1. /\ req[r].at = "logEvaluation" /\ UNCHANGED <<gov, approval, decided, faults>>
          /\ evaluated' = evaluated \cup {req[r].asset}
        BY <1>7 DEF LogEvaluation, LogThenApprove
    <2>2. EvaluationGoesOn(r, a)
        BY <2>1 DEF EvaluationGoesOn
    <2> QED
        BY <1>3, <2>1, <2>2
<1>8. CASE Approve(r)
    <2>1. /\ req[r].at = "approve" /\ UNCHANGED <<gov, evaluated, decided, faults>>
          /\ approval' = [approval EXCEPT ![req[r].asset] = "approved"]
        BY <1>8 DEF Approve, ApproveAnd
    <2>2. req'[r] = [req[r] EXCEPT !.at = "logApproval"]
        BY <1>1, <1>8 DEF Approve, ApproveAnd
    <2>3. req'[r].at = "logApproval" /\ req'[r].asset = req[r].asset
        BY <1>0, <2>2 DEF RequestType
    <2>4. approval'[a] = approval[a] \/ req[r].asset = a
        BY <1>0, <2>1
    <2>5. DecisionGoesOn(r, a)
        BY <2>1, <2>3, <2>4 DEF DecisionGoesOn
    <2> QED
        BY <1>2, <2>1, <2>5
<1>9. CASE LogDecision(r)
    <2>1. /\ req[r].at \in {"logApproval", "logRejection"}
          /\ UNCHANGED <<gov, approval, evaluated, faults>>
          /\ decided' = [decided EXCEPT ![req[r].asset] =
                            IF req[r].at = "logApproval" THEN "approved" ELSE "rejected"]
        BY <1>9 DEF LogDecision
    <2>2. /\ decided[a] # "draft" => decided'[a] # "draft"
          /\ req[r].asset = a => decided'[a] # "draft"
        BY <1>0, <2>1
    <2>3. DecisionGoesOn(r, a)
        BY <2>1, <2>2 DEF DecisionGoesOn
    <2> QED
        BY <1>2, <2>1, <2>3
<1>10. CASE \/ \E b \in Assets : StartEvaluate(r, b) \/ StartApprove(r, b)
            \/ ReadAuthor(r) \/ ReadEditions(r) \/ StartPackage(r) \/ RequireApproved(r)
            \/ BuildPackage(r) \/ RefusePackage(r) \/ StartCampaign(r) \/ CreateCampaign(r)
    <2>1. UNCHANGED <<gov, approval, evaluated, decided, faults>>
        BY <1>10
        DEF StartEvaluate, StartApprove, ApproveUnless, ReadAuthor, ReadEditions, LabelWith,
            StartPackage, RequireApproved, Gate, BuildPackage, RefusePackage, StartCampaign,
            CreateCampaign
    <2>2. req[r].at \in {"idle", "author", "editions", "gate", "build", "launch"}
        <3>1. ASSUME req[r] = Idle PROVE req[r].at = "idle"
            BY <3>1 DEF Idle
        <3> QED
            BY <1>10, <3>1
            DEF StartEvaluate, StartApprove, ApproveUnless, ReadAuthor, ReadEditions, LabelWith,
                StartPackage, RequireApproved, Gate, BuildPackage, RefusePackage, StartCampaign,
                CreateCampaign
    <2> QED
        BY <1>2, <1>3, <2>1, <2>2
<1> QED
    BY <1>4, <1>5, <1>6, <1>7, <1>8, <1>9, <1>10 DEF RequestStep

(* A step of a request that does not fail loses no event.                  *)
LEMMA KeptByRequests ==
    ASSUME ReviewInv, NEW r \in Requests, RequestStep(r), ~RequestFails(r), NEW a \in Assets
    PROVE  /\ EvaluationKept(a) => EvaluationKept(a)'
           /\ DecisionKept(a) => DecisionKept(a)'
<1>1. EvaluationGoesOn(r, a) /\ DecisionGoesOn(r, a)
    BY StepLogs
<1>2. \A s \in Requests : s = r \/ req'[s] = req[s]
    BY OnlyMover DEF ReviewInv
<1>3. ASSUME EvaluationKept(a) PROVE EvaluationKept(a)'
    BY <1>1, <1>2, <1>3 DEF EvaluationKept, EvaluationGoesOn, Logs
<1>4. ASSUME DecisionKept(a) PROVE DecisionKept(a)'
    BY <1>1, <1>2, <1>4 DEF DecisionKept, DecisionGoesOn, LogsDecision
<1> QED
    BY <1>3, <1>4

(* A failing request loses the event it was about to log, and no other.    *)
LEMMA KeptByFailures ==
    ASSUME ReviewInv, NEW r \in Requests, RequestFails(r), NEW a \in Assets
    PROVE  /\ EvaluationKept(a) => EvaluationKept(a)' \/ Logs(r, a)
           /\ DecisionKept(a) => DecisionKept(a)' \/ LogsDecision(r, a)
<1>1. UNCHANGED <<gov, approval, evaluated, decided>>
    BY DEF RequestFails, rows, trail
<1>2. \A s \in Requests : s = r \/ req'[s] = req[s]
    BY OnlyMover DEF ReviewInv, RequestStep
<1>3. ASSUME EvaluationKept(a), ~Logs(r, a) PROVE EvaluationKept(a)'
    BY <1>1, <1>2, <1>3 DEF EvaluationKept, Logs
<1>4. ASSUME DecisionKept(a), ~LogsDecision(r, a) PROVE DecisionKept(a)'
    BY <1>1, <1>2, <1>4 DEF DecisionKept, LogsDecision
<1> QED
    BY <1>3, <1>4

(* Steps of the worker and of the forms lose no event.                     *)
LEMMA KeptByOthers ==
    ASSUME NEW a \in Assets,
           \/ \E new \in SUBSET Assets : PersistAssets(new)
           \/ \E r \in Requests : Saves(r)
           \/ UNCHANGED vars
    PROVE  /\ EvaluationKept(a) => EvaluationKept(a)'
           /\ DecisionKept(a) => DecisionKept(a)'
           /\ faults' = faults
<1>1. ASSUME NEW new \in SUBSET Assets, PersistAssets(new)
      PROVE  /\ UNCHANGED <<evaluated, decided, req, faults>>
             /\ gov'[a] \in Labels => gov[a] \in Labels
             /\ approval'[a] # "draft" => approval[a] # "draft"
    BY <1>1 DEF PersistAssets, Persist, trail, Labels
<1>2. ASSUME NEW r \in Requests, Saves(r) PROVE UNCHANGED <<rows, trail, req, faults>>
    BY <1>2 DEF Saves, SaveAuthor, CreateEdition, UpdateEdition
<1>3. /\ UNCHANGED <<evaluated, decided, req, faults>>
      /\ gov'[a] \in Labels => gov[a] \in Labels
      /\ approval'[a] # "draft" => approval[a] # "draft"
    BY <1>1, <1>2 DEF vars, rows, trail
<1> QED
    BY <1>3 DEF EvaluationKept, DecisionKept, Logs, LogsDecision

(* The assets with a lost event are those for which none is kept.          *)
LEMMA LostAreNotKept ==
    \A a : /\ a \in LostEvaluations <=> a \in Assets /\ ~EvaluationKept(a)
           /\ a \in LostDecisions <=> a \in Assets /\ ~DecisionKept(a)
    BY DEF LostEvaluations, LostDecisions, EvaluationKept, DecisionKept, Logs, LogsDecision

(* A failure loses at most one event, and no other step loses any.         *)
LEMMA OneEventPerFailure ==
    ASSUME ReviewInv, [Next]_vars
    PROVE  \/ /\ faults' = faults
              /\ LostEvaluations' \subseteq LostEvaluations
              /\ LostDecisions' \subseteq LostDecisions
           \/ /\ faults' = faults + 1
              /\ \E x : \/ /\ LostEvaluations' \subseteq LostEvaluations \cup {x}
                           /\ LostDecisions' \subseteq LostDecisions
                        \/ /\ LostEvaluations' \subseteq LostEvaluations
                           /\ LostDecisions' \subseteq LostDecisions \cup {x}
<1>1. \A a : /\ a \in LostEvaluations' <=> a \in Assets /\ ~EvaluationKept(a)'
             /\ a \in LostDecisions' <=> a \in Assets /\ ~DecisionKept(a)'
    BY DEF LostEvaluations, LostDecisions, EvaluationKept, DecisionKept, Logs, LogsDecision
<1>2. ASSUME \A a \in Assets : /\ EvaluationKept(a) => EvaluationKept(a)'
                               /\ DecisionKept(a) => DecisionKept(a)'
      PROVE  LostEvaluations' \subseteq LostEvaluations /\ LostDecisions' \subseteq LostDecisions
    BY <1>1, <1>2, LostAreNotKept
<1>3. CASE \/ \E new \in SUBSET Assets : PersistAssets(new)
           \/ \E r \in Requests : Saves(r)
           \/ UNCHANGED vars
    <2>1. faults' = faults
        BY <1>3 DEF PersistAssets, Persist, Saves, SaveAuthor, CreateEdition, UpdateEdition, vars
    <2>2. \A a \in Assets : /\ EvaluationKept(a) => EvaluationKept(a)'
                            /\ DecisionKept(a) => DecisionKept(a)'
        BY <1>3, KeptByOthers
    <2> QED
        BY <1>2, <2>1, <2>2
<1>4. ASSUME NEW r \in Requests, RequestStep(r), ~RequestFails(r)
      PROVE  /\ faults' = faults
             /\ LostEvaluations' \subseteq LostEvaluations
             /\ LostDecisions' \subseteq LostDecisions
    <2>1. faults' = faults
        BY <1>4
        DEF RequestStep, StartEvaluate, StartApprove, ApproveUnless, Reject, RejectAnd,
            ReadAuthor, ReadEditions, LabelWith, StoreEvaluation, RefreshEvaluation,
            LogEvaluation, LogThenApprove, Approve, ApproveAnd, LogDecision, StartPackage,
            RequireApproved, Gate, BuildPackage, RefusePackage, StartCampaign, CreateCampaign
    <2>2. \A a \in Assets : /\ EvaluationKept(a) => EvaluationKept(a)'
                            /\ DecisionKept(a) => DecisionKept(a)'
        BY <1>4, KeptByRequests
    <2> QED
        BY <1>2, <2>1, <2>2
<1>5. ASSUME NEW r \in Requests, RequestFails(r)
      PROVE  /\ faults' = faults + 1
             /\ \/ /\ LostEvaluations' \subseteq LostEvaluations \cup {req[r].asset}
                   /\ LostDecisions' \subseteq LostDecisions
                \/ /\ LostEvaluations' \subseteq LostEvaluations
                   /\ LostDecisions' \subseteq LostDecisions \cup {req[r].asset}
    <2>1. \A a \in Assets : /\ EvaluationKept(a) => EvaluationKept(a)' \/ Logs(r, a)
                            /\ DecisionKept(a) => DecisionKept(a)' \/ LogsDecision(r, a)
        BY <1>5, KeptByFailures
    <2>2. /\ LostEvaluations' \subseteq LostEvaluations \cup {a \in Assets : Logs(r, a)}
          /\ LostDecisions' \subseteq LostDecisions \cup {a \in Assets : LogsDecision(r, a)}
        BY <1>1, <2>1, LostAreNotKept
    <2>3. /\ \A a : Logs(r, a) \/ LogsDecision(r, a) => a = req[r].asset
          /\ \A a, b : ~(Logs(r, a) /\ LogsDecision(r, b))
        BY DEF Logs, LogsDecision
    <2>4. faults' = faults + 1
        BY <1>5 DEF RequestFails
    <2> QED
        BY <2>2, <2>3, <2>4
<1> QED
    BY <1>3, <1>4, <1>5 DEF Next

(* A set with at most one element more than another is larger by one at    *)
(* most.                                                                   *)
LEMMA OneMore ==
    ASSUME NEW S, IsFiniteSet(S), NEW T, NEW x, T \subseteq S \cup {x}
    PROVE  Cardinality(T) <= Cardinality(S) + 1
<1>1. /\ IsFiniteSet(S \cup {x})
      /\ Cardinality(S \cup {x}) = Cardinality(S) \/ Cardinality(S \cup {x}) = Cardinality(S) + 1
    BY FS_AddElement
<1>2. IsFiniteSet(T) /\ Cardinality(T) <= Cardinality(S \cup {x})
    BY <1>1, FS_Subset
<1>3. Cardinality(S) \in Nat /\ Cardinality(T) \in Nat
    BY <1>2, FS_CardinalityType
<1> QED
    BY <1>1, <1>2, <1>3

(* For any number of requests, the audit trail misses no more evaluations  *)
(* and decisions than requests have failed.                                *)
THEOREM TrailMissesOnlyFailures == Spec => []TrailIsComplete
<1>1. IsFiniteSet(LostEvaluations) /\ IsFiniteSet(LostDecisions)
    BY GovernanceAssumption, FS_Subset DEF LostEvaluations, LostDecisions
<1>2. Init => TrailIsComplete
    <2> SUFFICES ASSUME Init PROVE TrailIsComplete
        OBVIOUS
    <2>1. LostEvaluations = {} /\ LostDecisions = {} /\ faults = 0
        BY DEF Init, LostEvaluations, LostDecisions, Labels
    <2>2. Cardinality(LostEvaluations) = 0 /\ Cardinality(LostDecisions) = 0
        BY <2>1, FS_EmptySet
    <2> QED
        BY <2>1, <2>2 DEF TrailIsComplete
<1>3. ASSUME ReviewInv, TrailIsComplete, [Next]_vars PROVE TrailIsComplete'
    <2> DEFINE E == LostEvaluations
               D == LostDecisions
    <2>1. /\ IsFiniteSet(E) /\ IsFiniteSet(D) /\ IsFiniteSet(E') /\ IsFiniteSet(D')
          /\ Cardinality(E) + Cardinality(D) <= faults /\ faults \in Nat
        <3>1. IsFiniteSet(E') /\ IsFiniteSet(D')
            BY GovernanceAssumption, FS_Subset DEF LostEvaluations, LostDecisions
        <3>2. faults \in Nat
            BY <1>3, GovernanceAssumption DEF ReviewInv, TypeOK
        <3> QED
            BY <1>1, <1>3, <3>1, <3>2 DEF TrailIsComplete
    <2>2. \/ faults' = faults /\ E' \subseteq E /\ D' \subseteq D
          \/ /\ faults' = faults + 1
             /\ \E x : \/ E' \subseteq E \cup {x} /\ D' \subseteq D
                       \/ E' \subseteq E /\ D' \subseteq D \cup {x}
        BY <1>3, OneEventPerFailure
    <2>3. TrailIsComplete' = (Cardinality(E') + Cardinality(D') <= faults')
        BY DEF TrailIsComplete
    <2> HIDE DEF E, D
    <2>4. /\ Cardinality(E) \in Nat /\ Cardinality(D) \in Nat
          /\ Cardinality(E') \in Nat /\ Cardinality(D') \in Nat
        BY <2>1, FS_CardinalityType
    <2>5. /\ E' \subseteq E => Cardinality(E') <= Cardinality(E)
          /\ D' \subseteq D => Cardinality(D') <= Cardinality(D)
        BY <2>1, FS_Subset
    <2>6. ASSUME NEW x
          PROVE  /\ E' \subseteq E \cup {x} => Cardinality(E') <= Cardinality(E) + 1
                 /\ D' \subseteq D \cup {x} => Cardinality(D') <= Cardinality(D) + 1
        BY <2>1, OneMore
    <2>7. Cardinality(E') + Cardinality(D') <= faults'
        BY <2>1, <2>2, <2>4, <2>5, <2>6
    <2> QED
        BY <2>3, <2>7
<1> QED
    BY <1>2, <1>3, ReviewInvariant, PTL DEF Spec

-----------------------------------------------------------------------------
(* With one request at a time, every operation acts as if at once: what    *)
(* the request has read is still so, whatever the job worker generates.    *)

SerialRequests == \A r, s \in Requests : r = s

UpToDate(r) ==
    /\ req[r].at \in {"editions", "gate", "build"} => req[r].author = author
    /\ req[r].at = "store" =>
         req[r].label = Label(Text[req[r].asset], author, Evaluated(editions))
    /\ req[r].at = "logEvaluation" => req[r].label = gov[req[r].asset]
    /\ req[r].at = "approve" => gov[req[r].asset] \in {"review", "allow"}
    /\ req[r].at = "build" =>
         /\ Kind[req[r].asset] = "description"
         /\ approval[req[r].asset] = "approved" /\ gov[req[r].asset] # "block"
    /\ req[r].at = "launch" => \A a \in req[r].tied : approval[a] = "approved"

SerialReview ==
    /\ \A a \in Assets \ Existing : approval[a] = "draft"
    /\ \A r \in Requests : UpToDate(r)

(* An idle request has read nothing that could be stale.                   *)
LEMMA SerialReviewInit == Init => SerialReview
    BY DEF Init, SerialReview, UpToDate, Idle, Existing

(* A request that runs alone keeps up with the rows it has read.           *)
LEMMA MoverUpToDate ==
    ASSUME ReviewInv, SerialReview, NEW r \in Requests, RequestStep(r)
    PROVE  UpToDate(r)'
<1> USE DEF rows, setting
<1>0. /\ req \in [Requests -> RequestType] /\ req[r] \in RequestType
      /\ gov \in [Assets -> Labels \cup {"absent", "pending"}]
      /\ approval \in [Assets -> Decisions]
      /\ RequestClearance(r)
      /\ UpToDate(r)
    BY DEF ReviewInv, TypeOK, Clearance, SerialReview
<1>1. ASSUME NEW to, Goes(r, to) PROVE req'[r] = to
    BY <1>0, <1>1 DEF Goes
<1>2. ASSUME req'[r] = Idle PROVE UpToDate(r)'
    BY <1>2 DEF UpToDate, Idle
<1>3. ASSUME NEW a \in Assets, StartEvaluate(r, a) \/ Reject(r, a)
      PROVE  UpToDate(r)'
    <2>1. \/ req'[r] = [Idle EXCEPT !.at = "author", !.asset = a]
          \/ req'[r] = [Idle EXCEPT !.at = "logRejection", !.asset = a]
        BY <1>1, <1>3 DEF StartEvaluate, Reject, RejectAnd
    <2> QED
        BY <2>1 DEF UpToDate, Idle
<1>4. ASSUME NEW a \in Assets, StartApprove(r, a) PROVE UpToDate(r)'
    <2>1. gov[a] \in {"pending", "review", "allow"} /\ gov' = gov
        BY <1>0, <1>4 DEF StartApprove, ApproveUnless, Existing, Labels
    <2>2. req'[r] = [Idle EXCEPT !.asset = a,
                                 !.at = IF gov[a] = "pending" THEN "author" ELSE "approve",
                                 !.approving = gov[a] = "pending"]
        BY <1>1, <1>4 DEF StartApprove, ApproveUnless
    <2> QED
        BY <2>1, <2>2 DEF UpToDate, Idle
<1>5. CASE ReadAuthor(r)
    <2>1. /\ author' = author
          /\ req'[r] = [req[r] EXCEPT !.at = "editions", !.author = author]
        BY <1>1, <1>5 DEF ReadAuthor
    <2> QED
        BY <2>1, <1>0 DEF UpToDate, RequestType
<1>6. CASE ReadEditions(r)
    <2> DEFINE label == Label(Text[req[r].asset], author, Evaluated(editions))
    <2>1. req[r].author = author
        BY <1>0, <1>6 DEF ReadEditions, LabelWith, UpToDate
    <2>2. /\ UNCHANGED <<author, editions>>
          /\ req'[r] = [req[r] EXCEPT !.at = "store", !.author = EmptyProfile, !.label = label]
        BY <2>1, <1>1, <1>6 DEF ReadEditions, LabelWith
    <2>3. /\ req'[r].at = "store" /\ req'[r].asset = req[r].asset
          /\ req'[r].label = label
        BY <2>2, <1>0 DEF RequestType
    <2> QED
        BY <2>2, <2>3 DEF UpToDate
<1>7. CASE StoreEvaluation(r) \/ Approve(r)
    <2>1. req'[r].at \in {"refresh", "logApproval"}
        BY <1>0, <1>1, <1>7 DEF StoreEvaluation, Moves, Approve, ApproveAnd, RequestType
    <2> QED
        BY <2>1 DEF UpToDate
<1>8. CASE RefreshEvaluation(r)
    <2>1. /\ gov' = gov
          /\ req'[r] = [req[r] EXCEPT !.at = "logEvaluation", !.label = gov[req[r].asset]]
        BY <1>1, <1>8 DEF RefreshEvaluation
    <2> QED
        BY <2>1, <1>0 DEF UpToDate, RequestType
<1>9. CASE LogEvaluation(r)
    <2>1. /\ req[r].at = "logEvaluation" /\ gov' = gov
          /\ \/ req'[r] = Idle
             \/ /\ req'[r] = [Idle EXCEPT !.at = "approve", !.asset = req[r].asset]
                /\ req[r].label # "block"
        BY <1>1, <1>9 DEF LogEvaluation, LogThenApprove
    <2>2. req[r].label = gov[req[r].asset] /\ req[r].label \in Labels
        BY <2>1, <1>0 DEF UpToDate, RequestClearance
    <2> QED
        BY <2>1, <2>2, <1>2 DEF UpToDate, Idle, Labels
<1>10. CASE \/ LogDecision(r) \/ BuildPackage(r) \/ RefusePackage(r)
            \/ CreateCampaign(r) \/ RequestFails(r)
    BY <1>1, <1>2, <1>10
    DEF LogDecision, BuildPackage, RefusePackage, CreateCampaign, RequestFails
<1>11. CASE StartPackage(r)
    <2>1. /\ author' = author
          /\ req'[r] = [Idle EXCEPT !.at = "gate", !.author = author]
        BY <1>1, <1>11 DEF StartPackage
    <2> QED
        BY <2>1 DEF UpToDate, Idle
<1>12. CASE RequireApproved(r)
    <2>1. CASE req'[r] = Idle
        BY <2>1, <1>2
    <2>2. ASSUME NEW a \in Assets, approval[a] = "approved", gov[a] # "block",
                 Kind[a] = "description", req[r].author = author,
                 UNCHANGED <<gov, approval, author>>,
                 req'[r] = [req[r] EXCEPT !.at = "build", !.asset = a]
          PROVE  UpToDate(r)'
        BY <2>2, <1>0 DEF UpToDate, RequestType
    <2>3. req[r].author = author /\ UNCHANGED <<gov, approval, author>>
        BY <1>0, <1>12 DEF RequireApproved, Gate, UpToDate
    <2> QED
        BY <2>1, <2>2, <2>3, <1>1, <1>12 DEF RequireApproved, Gate, Unblocked
<1>13. CASE StartCampaign(r)
    <2> DEFINE set == {a \in Assets : IsCurrent(a) /\ approval[a] = "approved"}
    <2>1. /\ approval' = approval
          /\ req'[r] = [Idle EXCEPT !.at = "launch", !.tied = set]
        BY <1>1, <1>13 DEF StartCampaign
    <2>2. \A a \in set : approval[a] = "approved"
        OBVIOUS
    <2> HIDE DEF set
    <2> QED
        BY <2>1, <2>2 DEF UpToDate, Idle
<1> QED
    BY <1>3, <1>4, <1>5, <1>6, <1>7, <1>8, <1>9, <1>10, <1>11, <1>12, <1>13
    DEF RequestStep

(* The worker and the forms leave what a request has read as it is: new    *)
(* assets are not the ones in hand, and a form is a request of its own.    *)
LEMMA SerialReviewNext ==
    ASSUME SerialRequests, ReviewInv, SerialReview, [Next]_vars
    PROVE  SerialReview'
<1> USE DEF rows, setting
<1>0. /\ gov \in [Assets -> Labels \cup {"absent", "pending"}]
      /\ approval \in [Assets -> Decisions]
      /\ req \in [Requests -> RequestType]
      /\ \A r \in Requests : RequestClearance(r) /\ UpToDate(r)
      /\ \A a \in Assets \ Existing : approval[a] = "draft"
    BY DEF ReviewInv, TypeOK, Clearance, SerialReview
<1>1. ASSUME NEW new \in SUBSET Assets, PersistAssets(new) PROVE SerialReview'
    <2>1. /\ UNCHANGED <<author, editions, req>>
          /\ Existing \subseteq Existing'
          /\ \A a \in Existing : gov'[a] = gov[a] /\ approval'[a] = approval[a]
          /\ \A a \in Assets \ Existing : approval'[a] = "draft"
        BY <1>0, <1>1 DEF PersistAssets, Persist, Existing
    <2>2. ASSUME NEW r \in Requests PROVE UpToDate(r)'
        <3>1. req[r].at \in OnAnAsset => req[r].asset \in Existing
            BY <1>0 DEF RequestClearance
        <3>2. \A a \in req[r].tied : approval[a] = "approved" => a \in Existing
            BY <1>0 DEF RequestType
        <3> QED
            BY <1>0, <2>1, <3>1, <3>2, StepNames DEF UpToDate, OnAnAsset
    <2> QED
        BY <2>1, <2>2 DEF SerialReview
<1>2. ASSUME NEW r \in Requests, Saves(r) PROVE SerialReview'
    <2>1. req[r] = Idle /\ UNCHANGED <<gov, approval, req>>
        BY <1>2 DEF Saves, SaveAuthor, CreateEdition, UpdateEdition
    <2>2. ASSUME NEW s \in Requests PROVE UpToDate(s)'
        <3>1. req'[s] = Idle
            BY <2>1 DEF SerialRequests
        <3> QED
            BY <3>1 DEF UpToDate, Idle
    <2> QED
        BY <1>0, <2>1, <2>2 DEF SerialReview, Existing
<1>3. ASSUME NEW r \in Requests, RequestStep(r) PROVE SerialReview'
    <2>1. \A s \in Requests : UpToDate(s)'
        BY <1>3, MoverUpToDate DEF SerialRequests
    <2>2. ASSUME NEW a \in Assets \ Existing PROVE approval'[a] = approval[a]
        <3>1. req[r].at = "approve" => req[r].asset # a
            BY <1>0, <2>2, StepNames DEF RequestClearance, OnAnAsset
        <3>2. CASE Approve(r)
            BY <3>1, <3>2, <1>0 DEF Approve, ApproveAnd
        <3>3. ASSUME NEW b \in Assets, Reject(r, b) PROVE approval'[a] = approval[a]
            BY <3>3, <2>2, <1>0 DEF Reject, RejectAnd
        <3>4. ASSUME NEW b \in Assets, StartEvaluate(r, b) \/ StartApprove(r, b)
              PROVE  approval' = approval
            BY <3>4 DEF StartEvaluate, StartApprove, ApproveUnless
        <3>5. CASE \/ ReadAuthor(r) \/ ReadEditions(r) \/ StoreEvaluation(r)
                   \/ RefreshEvaluation(r) \/ LogEvaluation(r) \/ LogDecision(r)
                   \/ StartPackage(r) \/ RequireApproved(r) \/ BuildPackage(r)
                   \/ RefusePackage(r) \/ StartCampaign(r) \/ CreateCampaign(r)
                   \/ RequestFails(r)
            BY <3>5
            DEF ReadAuthor, ReadEditions, LabelWith, StoreEvaluation, RefreshEvaluation,
                LogEvaluation, LogThenApprove, LogDecision, StartPackage, RequireApproved,
                Gate, BuildPackage, RefusePackage, StartCampaign, CreateCampaign, RequestFails
        <3> QED
            BY <1>3, <3>2, <3>3, <3>4, <3>5 DEF RequestStep
    <2>3. Existing \subseteq Existing'
        BY GrowingNext, <1>3 DEF ReviewInv, Growing, Next
    <2> QED
        BY <1>0, <2>1, <2>2, <2>3 DEF SerialReview, Existing
<1>4. CASE UNCHANGED vars
    BY <1>4 DEF vars, SerialReview, UpToDate, Existing
<1> QED
    BY <1>1, <1>2, <1>3, <1>4 DEF Next

(* The decision a request is about to log is the asset's.                  *)
DecisionInHand(r) ==
    /\ req[r].at = "logApproval" => approval[req[r].asset] = "approved"
    /\ req[r].at = "logRejection" => approval[req[r].asset] = "rejected"

SerialTrail == TrailFollowsDecisions /\ \A r \in Requests : DecisionInHand(r)

(* A request that decides on an asset logs that decision next, and its     *)
(* other steps neither decide nor log one.                                 *)
LEMMA MoverDecides ==
    ASSUME ReviewInv, NEW r \in Requests, DecisionInHand(r), RequestStep(r), ~RequestFails(r)
    PROVE  /\ DecisionInHand(r)'
           /\ \A a \in Assets :
                \/ LogsDecision(r, a)'
                \/ decided'[a] = approval'[a]
                \/ /\ approval'[a] = approval[a] /\ decided'[a] = decided[a]
                   /\ ~LogsDecision(r, a)
<1> USE DEF rows, trail
<1> DEFINE Result == /\ DecisionInHand(r)'
                     /\ \A a \in Assets :
                          \/ LogsDecision(r, a)'
                          \/ decided'[a] = approval'[a]
                          \/ /\ approval'[a] = approval[a] /\ decided'[a] = decided[a]
                             /\ ~LogsDecision(r, a)
<1>0. /\ req \in [Requests -> RequestType] /\ req[r] \in RequestType
      /\ approval \in [Assets -> Decisions] /\ decided \in [Assets -> Decisions]
      /\ RequestClearance(r)
    BY DEF ReviewInv, TypeOK, Clearance
<1>1. ASSUME NEW to, Goes(r, to) PROVE req'[r] = to
    BY <1>0, <1>1 DEF Goes
<1>2. ASSUME req'[r].at \notin {"logApproval", "logRejection"}, UNCHANGED <<approval, decided>>,
             req[r].at \notin {"logApproval", "logRejection"}
      PROVE  Result
    BY <1>2 DEF DecisionInHand, LogsDecision
<1>3. ASSUME NEW b \in Assets, Reject(r, b) PROVE Result
    <2>1. /\ req[r].at = "idle" /\ decided' = decided
          /\ approval' = [approval EXCEPT ![b] = "rejected"]
        BY <1>3 DEF Reject, RejectAnd, Idle
    <2>2. req'[r] = [Idle EXCEPT !.at = "logRejection", !.asset = b]
        BY <1>1, <1>3 DEF Reject, RejectAnd
    <2>3. req'[r].at = "logRejection" /\ req'[r].asset = b
        BY <2>2 DEF Idle
    <2>4. approval'[b] = "rejected" /\ \A a \in Assets : a = b \/ approval'[a] = approval[a]
        BY <1>0, <2>1
    <2> QED
        BY <2>1, <2>3, <2>4 DEF DecisionInHand, LogsDecision
<1>4. CASE Approve(r)
    <2>1. /\ req[r].at = "approve" /\ decided' = decided
          /\ approval' = [approval EXCEPT ![req[r].asset] = "approved"]
        BY <1>4 DEF Approve, ApproveAnd
    <2>2. req'[r] = [req[r] EXCEPT !.at = "logApproval"]
        BY <1>1, <1>4 DEF Approve, ApproveAnd
    <2>3. req'[r].at = "logApproval" /\ req'[r].asset = req[r].asset
        BY <1>0, <2>2 DEF RequestType
    <2>4. req[r].asset \in Assets
        BY <1>0, <2>1, StepNames DEF RequestClearance, OnAnAsset, Existing
    <2>5. /\ approval'[req[r].asset] = "approved"
          /\ \A a \in Assets : a = req[r].asset \/ approval'[a] = approval[a]
        BY <1>0, <2>1, <2>4
    <2> QED
        BY <2>1, <2>3, <2>5 DEF DecisionInHand, LogsDecision
<1>5. CASE LogDecision(r)
    <2>1. /\ req[r].at \in {"logApproval", "logRejection"} /\ approval' = approval
          /\ decided' = [decided EXCEPT ![req[r].asset] =
                            IF req[r].at = "logApproval" THEN "approved" ELSE "rejected"]
        BY <1>5 DEF LogDecision
    <2>2. req'[r].at = "idle"
        BY <1>1, <1>5 DEF LogDecision, Idle
    <2>3. \A a \in Assets : IF a = req[r].asset THEN decided'[a] = approval'[a]
                                                ELSE decided'[a] = decided[a]
        BY <1>0, <2>1 DEF DecisionInHand
    <2> QED
        BY <2>1, <2>2, <2>3 DEF DecisionInHand, LogsDecision
<1>6. ASSUME NEW b \in Assets, StartEvaluate(r, b) \/ StartApprove(r, b) PROVE Result
    <2>1. req[r].at = "idle" /\ UNCHANGED <<approval, decided>>
        BY <1>6 DEF StartEvaluate, StartApprove, ApproveUnless, Idle
    <2>2. req'[r].at \in {"author", "approve"}
        BY <1>1, <1>6 DEF StartEvaluate, StartApprove, ApproveUnless, Idle
    <2> QED
        BY <1>2, <2>1, <2>2
<1>7. CASE ReadAuthor(r) \/ ReadEditions(r) \/ StoreEvaluation(r) \/ RefreshEvaluation(r)
    <2>1. /\ req[r].at \in {"author", "editions", "store", "refresh"}
          /\ UNCHANGED <<approval, decided>>
        BY <1>7 DEF ReadAuthor, ReadEditions, LabelWith, StoreEvaluation, Moves, RefreshEvaluation
    <2>2. req'[r].at \in {"editions", "store", "refresh", "logEvaluation"}
        BY <1>0, <1>1, <1>7
        DEF ReadAuthor, ReadEditions, LabelWith, StoreEvaluation, Moves, RefreshEvaluation,
            RequestType
    <2> QED
        BY <1>2, <2>1, <2>2
<1>8. CASE LogEvaluation(r)
    <2>1. req[r].at = "logEvaluation" /\ UNCHANGED <<approval, decided>>
        BY <1>8 DEF LogEvaluation, LogThenApprove
    <2>2. \/ req'[r] = [Idle EXCEPT !.at = "approve", !.asset = req[r].asset]
          \/ req'[r] = Idle
        BY <1>1, <1>8 DEF LogEvaluation, LogThenApprove
    <2>3. req'[r].at \in {"approve", "idle"}
        <3>1. Idle.at = "idle" /\ [Idle EXCEPT !.at = "approve", !.asset = req[r].asset].at = "approve"
            BY DEF Idle
        <3> QED
            BY <2>2, <3>1
    <2> QED
        BY <1>2, <2>1, <2>3
<1>9. CASE StartPackage(r) \/ StartCampaign(r)
    <2>1. req[r].at = "idle" /\ UNCHANGED <<approval, decided>>
        BY <1>9 DEF StartPackage, StartCampaign, Idle
    <2>2. req'[r].at \in {"gate", "launch"}
        BY <1>1, <1>9 DEF StartPackage, StartCampaign, Idle
    <2> QED
        BY <1>2, <2>1, <2>2
<1>10. CASE RequireApproved(r) \/ BuildPackage(r) \/ RefusePackage(r) \/ CreateCampaign(r)
    <2>1. req[r].at \in {"gate", "build", "launch"} /\ UNCHANGED <<approval, decided>>
        BY <1>10 DEF RequireApproved, Gate, BuildPackage, RefusePackage, CreateCampaign
    <2>2. \/ req'[r] = Idle
          \/ \E a \in Assets : req'[r] = [req[r] EXCEPT !.at = "build", !.asset = a]
        BY <1>1, <1>10
        DEF RequireApproved, Gate, Unblocked, BuildPackage, RefusePackage, CreateCampaign
    <2>3. req'[r].at \in {"idle", "build"}
        <3>1. Idle.at = "idle"
            BY DEF Idle
        <3>2. \A a \in Assets : [req[r] EXCEPT !.at = "build", !.asset = a].at = "build"
            BY <1>0 DEF RequestType
        <3> QED
            BY <2>2, <3>1, <3>2
    <2> QED
        BY <1>2, <2>1, <2>3
<1>11. Result
    BY <1>3, <1>4, <1>5, <1>6, <1>7, <1>8, <1>9, <1>10 DEF RequestStep
<1> QED
    BY <1>11

(* No request alone leaves a decision that its trail contradicts.          *)
LEMMA SerialTrailNext ==
    ASSUME SerialRequests, ReviewInv, SerialReview, SerialTrail, [Next]_vars
    PROVE  SerialTrail'
<1> USE DEF rows, trail
<1>1. ASSUME NEW r \in Requests, RequestStep(r), ~RequestFails(r) PROVE SerialTrail'
    <2>1. DecisionInHand(r) /\ \A s \in Requests : s = r
        BY DEF SerialTrail, SerialRequests
    <2>2. /\ DecisionInHand(r)'
          /\ \A a \in Assets :
               \/ LogsDecision(r, a)'
               \/ decided'[a] = approval'[a]
               \/ /\ approval'[a] = approval[a] /\ decided'[a] = decided[a]
                  /\ ~LogsDecision(r, a)
        BY <1>1, <2>1, MoverDecides
    <2>3. faults' = faults
        BY <1>1
        DEF RequestStep, StartEvaluate, StartApprove, ApproveUnless, Reject, RejectAnd,
            ReadAuthor, ReadEditions, LabelWith, StoreEvaluation, RefreshEvaluation,
            LogEvaluation, LogThenApprove, Approve, ApproveAnd, LogDecision, StartPackage,
            RequireApproved, Gate, BuildPackage, RefusePackage, StartCampaign, CreateCampaign
    <2>4. \A s \in Requests : DecisionInHand(s)'
        BY <2>1, <2>2
    <2>5. TrailFollowsDecisions'
        BY <2>1, <2>2, <2>3 DEF SerialTrail, TrailFollowsDecisions, LogsDecision
    <2> QED
        BY <2>4, <2>5 DEF SerialTrail
<1>2. ASSUME NEW r \in Requests, RequestFails(r) PROVE SerialTrail'
    <2>1. faults \in Nat /\ faults' = faults + 1
        BY <1>2, GovernanceAssumption DEF ReviewInv, TypeOK, RequestFails
    <2>2. faults' # 0
        BY <2>1
    <2>3. req'[r].at = "idle" /\ \A s \in Requests : s = r
        BY <1>2 DEF RequestFails, Goes, Idle, ReviewInv, TypeOK, SerialRequests
    <2>4. \A s \in Requests : DecisionInHand(s)'
        BY <2>3 DEF DecisionInHand
    <2> QED
        BY <2>2, <2>4 DEF SerialTrail, TrailFollowsDecisions
<1>3. ASSUME NEW new \in SUBSET Assets, PersistAssets(new) PROVE SerialTrail'
    <2>1. /\ UNCHANGED <<decided, req, faults>>
          /\ \A a \in Assets : approval'[a] = approval[a]
        BY <1>3 DEF PersistAssets, Persist, SerialReview, Existing, ReviewInv, TypeOK
    <2>2. \A r \in Requests : req[r].at \in OnAnAsset => req[r].asset \in Assets
        BY DEF ReviewInv, Clearance, RequestClearance, Existing
    <2>3. \A r \in Requests : DecisionInHand(r)'
        BY <2>1, <2>2, StepNames DEF SerialTrail, DecisionInHand, OnAnAsset
    <2> QED
        BY <2>1, <2>3 DEF SerialTrail, TrailFollowsDecisions
<1>4. ASSUME UNCHANGED <<approval, decided, req, faults>> PROVE SerialTrail'
    BY <1>4 DEF SerialTrail, TrailFollowsDecisions, DecisionInHand
<1>5. ASSUME NEW r \in Requests, Saves(r) PROVE UNCHANGED <<approval, decided, req, faults>>
    BY <1>5 DEF Saves, SaveAuthor, CreateEdition, UpdateEdition
<1> QED
    BY <1>1, <1>2, <1>3, <1>4, <1>5 DEF Next, vars

(* The rules AssetReview extends are the same rules. *)
LEMMA SameRules ==
    /\ Atomic!Authors = Authors /\ Atomic!Editions = Editions
    /\ \A issues, profile, edition :
          Atomic!Label(issues, profile, edition) = Label(issues, profile, edition)
    /\ \A some : Atomic!Evaluated(some) = Evaluated(some)
<1>1. Atomic!Authors = Authors /\ Atomic!Editions = Editions
    BY DEF Authors, Editions, Atomic!Authors, Atomic!Editions
<1>2. ASSUME NEW issues, NEW profile, NEW edition
      PROVE  Atomic!Label(issues, profile, edition) = Label(issues, profile, edition)
    <2>1. Atomic!Failed(issues, profile, edition) = Failed(issues, profile, edition)
        BY DEF Failed, PlatformOk, Publisher, IsbnMissing, Rules, Atomic!Failed,
            Atomic!PlatformOk, Atomic!Publisher, Atomic!IsbnMissing, Atomic!Rules
    <2>2. \A rule : Atomic!Softened(rule, edition) = Softened(rule, edition)
        BY DEF Softened, ReviewRules, IsbnMissing,
            Atomic!Softened, Atomic!ReviewRules, Atomic!IsbnMissing
    <2> QED
        BY <2>1, <2>2 DEF Label, Atomic!Label
<1>3. ASSUME NEW some PROVE Atomic!Evaluated(some) = Evaluated(some)
    BY DEF Evaluated, NoEdition, Atomic!Evaluated, Atomic!NoEdition
<1> QED
    BY <1>1, <1>2, <1>3

(* Each step is a step of AssetReview or leaves its state alone. *)
LEMMA ReviewSimulation ==
    ASSUME ReviewInv, SerialReview, [Next]_vars
    PROVE  [Atomic!Next]_(Atomic!vars)
<1> USE DEF rows, setting, outputs
<1>0. /\ gov \in [Assets -> Labels \cup {"absent", "pending"}]
      /\ approval \in [Assets -> Decisions]
      /\ author \in Authors /\ editions \in Seq(Editions)
      /\ \A r \in Requests : req[r] \in RequestType /\ RequestClearance(r) /\ UpToDate(r)
      /\ \A a \in Assets \ Existing : approval[a] = "draft"
    BY DEF ReviewInv, TypeOK, Clearance, SerialReview
<1>1. ASSUME UNCHANGED <<rows, setting, outputs>> PROVE UNCHANGED Atomic!vars
    BY <1>1 DEF Atomic!vars
<1>2. ASSUME NEW new \in SUBSET Assets, PersistAssets(new) PROVE Atomic!Generate(new)
    <2>1. approval' = approval
        <3>1. \A a \in Assets : approval'[a] = approval[a]
            BY <1>0, <1>2 DEF PersistAssets, Persist
        <3> QED
            BY <3>1, <1>0, <1>2 DEF PersistAssets, Persist
    <2> QED
        BY <1>2, <2>1 DEF PersistAssets, Persist, Existing, Atomic!Generate, Atomic!Existing
<1>3. ASSUME NEW r \in Requests, Saves(r) PROVE Atomic!Edit
    <2>1. UNCHANGED <<rows, outputs>>
        BY <1>3 DEF Saves, SaveAuthor, CreateEdition, UpdateEdition
    <2>2. author' \in Authors /\ editions' \in Seq(Editions)
        BY <1>3, TypeNext DEF ReviewInv, TypeOK, Next
    <2> QED
        BY <2>1, <2>2, SameRules DEF Atomic!Edit
<1>4. ASSUME NEW r \in Requests, StoreEvaluation(r), NEW a \in Assets, a = req[r].asset
      PROVE  Atomic!Evaluate(a)
    <2>1. /\ a \in Existing
          /\ req[r].label = Label(Text[a], author, Evaluated(editions))
        BY <1>0, <1>4, StepNames
        DEF StoreEvaluation, Moves, RequestClearance, UpToDate, OnAnAsset
    <2> QED
        BY <1>4, <2>1, SameRules DEF StoreEvaluation, Existing, Atomic!Evaluate, Atomic!Existing
<1>5. ASSUME NEW r \in Requests, Approve(r), NEW a \in Assets, a = req[r].asset
      PROVE  Atomic!Approve(a)
    BY <1>0, <1>5 DEF Approve, ApproveAnd, UpToDate, Atomic!Approve
<1>6. ASSUME NEW r \in Requests, NEW a \in Assets, Reject(r, a)
      PROVE  Atomic!Reject(a)
    BY <1>6 DEF Reject, RejectAnd, Existing, Atomic!Reject, Atomic!Existing
<1>7. ASSUME NEW r \in Requests, BuildPackage(r), NEW a \in Assets, a = req[r].asset
      PROVE  Atomic!Package(a)
    BY <1>0, <1>7
    DEF BuildPackage, UpToDate, Atomic!Package, Atomic!Approved
<1>8. ASSUME NEW r \in Requests, CreateCampaign(r)
      PROVE  \E tied \in SUBSET Assets : Atomic!Launch(tied)
    <2> DEFINE tied == req[r].tied
    <2>1. tied \in SUBSET Assets
        BY <1>0 DEF RequestType
    <2>2. \A a \in tied : approval[a] = "approved"
        BY <1>0, <1>8 DEF CreateCampaign, UpToDate
    <2>3. Atomic!Launch(tied)
        BY <1>8, <2>1, <2>2 DEF CreateCampaign, Atomic!Launch, Atomic!Approved
    <2> QED
        BY <2>1, <2>3
<1>9. ASSUME NEW r \in Requests,
             \/ \E a \in Assets : StartEvaluate(r, a) \/ StartApprove(r, a)
             \/ ReadAuthor(r) \/ ReadEditions(r) \/ RefreshEvaluation(r)
             \/ LogEvaluation(r) \/ LogDecision(r) \/ StartPackage(r)
             \/ RequireApproved(r) \/ RefusePackage(r) \/ StartCampaign(r) \/ RequestFails(r)
      PROVE  UNCHANGED <<rows, setting, outputs>>
    BY <1>9
    DEF StartEvaluate, StartApprove, ApproveUnless, ReadAuthor, ReadEditions, LabelWith,
        RefreshEvaluation, LogEvaluation, LogThenApprove, LogDecision, StartPackage,
        RequireApproved, Gate, RefusePackage, StartCampaign, RequestFails
<1>10. ASSUME NEW r \in Requests, StoreEvaluation(r) \/ Approve(r) \/ BuildPackage(r)
       PROVE  req[r].asset \in Assets
    BY <1>0, <1>10, StepNames
    DEF StoreEvaluation, Moves, Approve, ApproveAnd, BuildPackage, RequestClearance,
        OnAnAsset, Existing
<1>11. ASSUME \/ \E some \in SUBSET Assets : Atomic!Generate(some) \/ Atomic!Launch(some)
              \/ \E a \in Assets : \/ Atomic!Evaluate(a) \/ Atomic!Approve(a)
                                   \/ Atomic!Reject(a) \/ Atomic!Package(a)
              \/ Atomic!Edit
       PROVE  Atomic!Next
    BY <1>11 DEF Atomic!Next
<1>12. ASSUME NEW r \in Requests, RequestStep(r) PROVE [Atomic!Next]_(Atomic!vars)
    <2>1. CASE StoreEvaluation(r) \/ Approve(r) \/ BuildPackage(r)
        BY <2>1, <1>4, <1>5, <1>7, <1>10, <1>11
    <2>2. CASE CreateCampaign(r) \/ \E a \in Assets : Reject(r, a)
        BY <2>2, <1>6, <1>8, <1>11
    <2> QED
        BY <1>12, <2>1, <2>2, <1>1, <1>9 DEF RequestStep
<1>13. CASE UNCHANGED vars
    BY <1>13 DEF vars, Atomic!vars
<1> QED
    BY <1>2, <1>3, <1>11, <1>12, <1>13 DEF Next

(* With one request at a time, what evaluate_asset, the package gate and   *)
(* create_campaign have read is still so when they use it.                 *)
THEOREM SerialReviewInvariant == ASSUME SerialRequests PROVE Spec => []SerialReview
<1>1. ReviewInv /\ SerialReview /\ [Next]_vars => SerialReview'
    BY SerialReviewNext
<1> QED
    BY <1>1, SerialReviewInit, ReviewInvariant, PTL DEF Spec

(* With one request at a time and no failure, the audit trail's last       *)
(* decision on an asset is the decision that stands.                       *)
THEOREM TrailTellsDecisions == ASSUME SerialRequests PROVE Spec => []TrailFollowsDecisions
<1>1. Init => SerialTrail
    BY DEF Init, SerialTrail, TrailFollowsDecisions, DecisionInHand, Idle
<1>2. ReviewInv /\ SerialReview /\ SerialTrail /\ [Next]_vars => SerialTrail'
    BY SerialTrailNext
<1>3. SerialTrail => TrailFollowsDecisions
    BY DEF SerialTrail
<1> QED
    BY <1>1, <1>2, <1>3, ReviewInvariant, SerialReviewInvariant, PTL DEF Spec

(* With one request at a time the operations implement AssetReview: the    *)
(* module's AtomicReview property for every instance.                      *)
THEOREM ReviewRefinement == ASSUME SerialRequests PROVE Spec => AtomicReview
<1>1. Init => Atomic!Init
    BY GovernanceAssumption, SameRules DEF Init, Atomic!Init, NoPackage, Atomic!NoPackage, NoAsset
<1>2. ReviewInv /\ SerialReview /\ [Next]_vars => [Atomic!Next]_(Atomic!vars)
    BY ReviewSimulation
<1> QED
    BY <1>1, <1>2, ReviewInvariant, SerialReviewInvariant, PTL
    DEF Spec, AtomicReview, Atomic!Spec
=============================================================================
