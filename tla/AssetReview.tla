---------------------------- MODULE AssetReview ----------------------------
(***************************************************************************)
(* What governance promises when every operation takes effect at once: an  *)
(* evaluation answers for the profile and editions of its moment, only an  *)
(* asset whose label is review or allow is approved, a package goes out on *)
(* an approved description that is not blocked, and a campaign ties its    *)
(* tasks to approved assets.                                               *)
(***************************************************************************)
EXTENDS GovernanceRules, Sequences

CONSTANTS
    Assets,   \* the assets that may be generated
    Kind,     \* the type of each
    Text      \* the issues of its text, in [Assets -> SUBSET Issues]

VARIABLES
    gov,       \* governance status, "absent" before the asset exists
    approval,  \* approval status
    author, editions,
    package,   \* the last package: the description it went out on
    campaign   \* the assets of the last campaign's approved tasks

vars == <<gov, approval, author, editions, package, campaign>>

NoPackage == [asset |-> -1, owned |-> TRUE]

Existing == {a \in Assets : gov[a] # "absent"}
Approved == {a \in Assets : approval[a] = "approved"}

Init ==
    /\ gov = [a \in Assets |-> "absent"]
    /\ approval = [a \in Assets |-> "draft"]
    /\ author \in Authors
    /\ editions = <<>>
    /\ package = NoPackage
    /\ campaign = {}

Generate(new) ==
    /\ new \cap Existing = {}
    /\ gov' = [a \in Assets |-> IF a \in new THEN "pending" ELSE gov[a]]
    /\ UNCHANGED <<approval, author, editions, package, campaign>>

Edit ==
    /\ author' \in Authors
    /\ editions' \in Seq(Editions)
    /\ UNCHANGED <<gov, approval, package, campaign>>

Evaluate(a) ==
    /\ a \in Existing
    /\ gov' = [gov EXCEPT ![a] = Label(Text[a], author, Evaluated(editions))]
    /\ UNCHANGED <<approval, author, editions, package, campaign>>

Approve(a) ==
    /\ gov[a] \in {"review", "allow"}
    /\ approval' = [approval EXCEPT ![a] = "approved"]
    /\ UNCHANGED <<gov, author, editions, package, campaign>>

Reject(a) ==
    /\ a \in Existing
    /\ approval' = [approval EXCEPT ![a] = "rejected"]
    /\ UNCHANGED <<gov, author, editions, package, campaign>>

Package(a) ==
    /\ Kind[a] = "description"
    /\ a \in Approved
    /\ gov[a] # "block"
    /\ package' = [asset |-> a, owned |-> author.owned]
    /\ UNCHANGED <<gov, approval, author, editions, campaign>>

Launch(tied) ==
    /\ tied \subseteq Approved
    /\ campaign' = tied
    /\ UNCHANGED <<gov, approval, author, editions, package>>

Next ==
    \/ \E some \in SUBSET Assets : Generate(some) \/ Launch(some)
    \/ \E a \in Assets : Evaluate(a) \/ Approve(a) \/ Reject(a) \/ Package(a)
    \/ Edit

Spec == Init /\ [][Next]_vars
=============================================================================
