------------------------------- MODULE Tenancy -------------------------------
(***************************************************************************)
(* thebe_core/auth and the tenant, member and key endpoints of api.py: who *)
(* a request acts for, and how tenants, memberships and API keys come and  *)
(* go.  A request is resolved to a tenant and a role in one transaction    *)
(* and acts in a later one, so others run in between.                      *)
(*                                                                         *)
(* A tenant's name and status are not modelled: nothing reads them when a  *)
(* request is resolved.  An operator may do here what a viewer may.        *)
(***************************************************************************)
EXTENDS Integers, FiniteSets

CONSTANTS
    Tenants,      \* tenant ids, fresh ones included
    Slugs,
    Subjects,     \* people the identity provider knows
    SuperAdmins,  \* settings.SUPER_ADMIN_SUBJECTS
    Keys,         \* API key ids, which a caller chooses
    Calls,        \* requests to these endpoints that may run at the same time
    None,         \* no tenant, no slug, no hint
    MaxRows,      \* bound: memberships ever created
    Threshold     \* CircuitBreaker.failure_threshold

ASSUME TenancyAssumption ==
    /\ None \notin Tenants \cup Slugs \cup Subjects \cup Keys
    /\ Subjects \cap Keys = {}
    /\ SuperAdmins \subseteq Subjects
    /\ MaxRows \in Nat \ {0}
    /\ Threshold \in Nat \ {0}

Roles == {"viewer", "admin"}

VARIABLES
    slug,      \* TenantDB.slug by tenant; None before the row exists
    members,   \* rows of tenant_memberships; none is ever deleted
    key,       \* APIKeyDB by id; its tenant is None before the row exists,
               \* and it has ended when it is revoked or past expires_at
    call,      \* the requests in flight
    failures,  \* CircuitBreaker.failures, counted up to the threshold
    open,      \* CircuitBreaker.state = "open"
    aged,      \* recovery_timeout has passed since last_failure_time
    streak     \* history: validations that failed since one succeeded

tables == <<slug, members, key>>
breaker == <<failures, open, aged, streak>>
tvars == <<tables, call, breaker>>

Existing == {t \in Tenants : slug[t] # None}
Taken(s) == \E t \in Existing : slug[t] = s
Active(who) == {r \in members : r.subject = who /\ ~r.revoked}
AdminsOf(t) == {r \in members : r.tenant = t /\ r.role = "admin" /\ ~r.revoked}

Idle == [at |-> "idle", who |-> None, tenant |-> None, slug |-> None]
NoKey == [tenant |-> None, role |-> "viewer", ended |-> FALSE]

Set(c, at, who, t, s) ==
    call' = [call EXCEPT ![c] = [at |-> at, who |-> who, tenant |-> t, slug |-> s]]
Finished(c) == call' = [call EXCEPT ![c] = Idle]

(* One tenant and its first admin. *)
TInit ==
    /\ \E t \in Tenants, s \in Slugs, who \in Subjects :
        /\ slug = [u \in Tenants |-> IF u = t THEN s ELSE None]
        /\ members = {[id |-> 1, subject |-> who, tenant |-> t,
                       role |-> "admin", revoked |-> FALSE]}
    /\ key = [k \in Keys |-> NoKey]
    /\ call = [c \in Calls |-> Idle]
    /\ failures = 0 /\ open = FALSE /\ aged = FALSE /\ streak = 0

(***************************************************************************)
(* CircuitBreaker.call around the validation of a token.  It awaits        *)
(* nothing, so "half_open" is never seen by another request.  A token that *)
(* is wrong counts like a provider that is down.                           *)
(***************************************************************************)

(* While the breaker is open and fresh nothing is validated, or counted. *)
Validates == ~open \/ aged

AcceptedWithoutReset ==
    /\ Validates
    /\ failures' = failures /\ open' = FALSE /\ aged' = FALSE /\ streak' = 0

TokenAccepted ==
    /\ Validates
    /\ failures' = 0 /\ open' = FALSE /\ aged' = FALSE /\ streak' = 0

Counted(n) == IF n < Threshold THEN n + 1 ELSE n

TokenRefused ==
    /\ Validates
    /\ failures' = Counted(failures) /\ streak' = Counted(streak)
    /\ open' = (failures' >= Threshold)
    /\ aged' = FALSE
    /\ UNCHANGED <<tables, call>>

RecoveryTimeout ==
    /\ open /\ ~aged
    /\ aged' = TRUE
    /\ UNCHANGED <<tables, call, failures, open, streak>>

(* A request with a good token that changes no row: a page, or a 403. *)
Browse == TokenAccepted /\ UNCHANGED <<tables, call>>

(***************************************************************************)
(* Whom a request acts for.                                                *)
(***************************************************************************)

ResolvesByFirstRow(who, hint, t, role) ==
    LET rows == Active(who)
    IN  \/ /\ rows = {}
           /\ who \in SuperAdmins /\ hint \in Existing
           /\ t = hint /\ role = "admin"
        \/ \E r \in rows :
            /\ t = IF hint = None THEN r.tenant ELSE hint
            /\ role = r.role

(* The tenant and role X-Tenant-Id = hint gives `who`; with one membership *)
(* the header is not looked at.                                            *)
Resolves(who, hint, t, role) ==
    LET rows == Active(who)
    IN  \/ /\ rows = {}
           /\ who \in SuperAdmins /\ hint \in Existing
           /\ t = hint /\ role = "admin"
        \/ \E r \in rows :
            /\ Cardinality(rows) > 1 => r.tenant = hint
            /\ t = r.tenant /\ role = r.role

KeyResolves(k, t, role) ==
    key[k].tenant = t /\ key[k].role = role /\ ~key[k].ended

(* RoleRequired(["admin"]) with a bearer token, then with a key. *)
AuthoriseBearer(c) ==
    /\ call[c].at = "idle"
    /\ TokenAccepted
    /\ \E who \in Subjects, hint \in Tenants \cup {None}, t \in Tenants :
        /\ Resolves(who, hint, t, "admin")
        /\ Set(c, "act", who, t, None)
    /\ UNCHANGED tables

AuthoriseKey(c) ==
    /\ call[c].at = "idle"
    /\ \E k \in Keys, t \in Tenants :
        /\ KeyResolves(k, t, "admin")
        /\ Set(c, "act", k, t, None)
    /\ UNCHANGED <<tables, breaker>>

(***************************************************************************)
(* POST /tenants: check the slug, commit the tenant, commit its admin.     *)
(***************************************************************************)

CheckSlug(c) ==
    /\ call[c].at = "idle"
    /\ TokenAccepted
    /\ \E who \in Subjects, s \in Slugs :
        /\ ~Taken(s)
        /\ Set(c, "tenant", who, None, s)
    /\ UNCHANGED tables

InsertUnchecked(c) ==
    /\ call[c].at = "tenant"
    /\ \E t \in Tenants \ Existing :
        /\ slug' = [slug EXCEPT ![t] = call[c].slug]
        /\ Set(c, "membership", call[c].who, t, None)
    /\ UNCHANGED <<members, key, breaker>>

(* The column is unique: the second of two requests with one slug fails. *)
InsertTenant(c) ==
    /\ call[c].at = "tenant" /\ ~Taken(call[c].slug)
    /\ \E t \in Tenants \ Existing :
        /\ slug' = [slug EXCEPT ![t] = call[c].slug]
        /\ Set(c, "membership", call[c].who, t, None)
    /\ UNCHANGED <<members, key, breaker>>

(* The id is a uuid; here, which of the subject's rows in the tenant it is. *)
Row(who, t, role) ==
    [id |-> Cardinality({r \in members : r.subject = who /\ r.tenant = t}) + 1,
     subject |-> who, tenant |-> t, role |-> role, revoked |-> FALSE]

InsertMembership(c) ==
    /\ call[c].at = "membership" /\ Cardinality(members) < MaxRows
    /\ members' = members \cup {Row(call[c].who, call[c].tenant, "admin")}
    /\ Finished(c)
    /\ UNCHANGED <<slug, key, breaker>>

(***************************************************************************)
(* The /admin endpoints, after RoleRequired.                               *)
(***************************************************************************)

(* No look for a row the subject already has in this tenant. *)
CreateMember(c) ==
    /\ call[c].at = "act" /\ Cardinality(members) < MaxRows
    /\ \E who \in Subjects, role \in Roles :
        members' = members \cup {Row(who, call[c].tenant, role)}
    /\ Finished(c)
    /\ UNCHANGED <<slug, key, breaker>>

Deleted(r) == members \ {r}

Revoked(r) == (members \ {r}) \cup {[r EXCEPT !.revoked = TRUE]}

RevokeAnyMember(c) ==
    /\ call[c].at = "act"
    /\ \E r \in members : members' = Revoked(r)
    /\ Finished(c)
    /\ UNCHANGED <<slug, key, breaker>>

(* membership.tenant_id must be the caller's; the last admin may go too. *)
RevokeMember(c) ==
    /\ call[c].at = "act"
    /\ \E r \in members : r.tenant = call[c].tenant /\ members' = Revoked(r)
    /\ Finished(c)
    /\ UNCHANGED <<slug, key, breaker>>

MergeKey(c) ==
    /\ call[c].at = "act"
    /\ \E k \in Keys, role \in Roles :
        key' = [key EXCEPT ![k] = [NoKey EXCEPT !.tenant = call[c].tenant,
                                                !.role = role]]
    /\ Finished(c)
    /\ UNCHANGED <<slug, members, breaker>>

(* api_key_id is the primary key, over all tenants: a second insert fails. *)
CreateKey(c) ==
    /\ call[c].at = "act"
    /\ \E k \in Keys, role \in Roles :
        /\ key[k].tenant = None
        /\ key' = [key EXCEPT ![k] = [NoKey EXCEPT !.tenant = call[c].tenant,
                                                   !.role = role]]
    /\ Finished(c)
    /\ UNCHANGED <<slug, members, breaker>>

RevokeKey(c) ==
    /\ call[c].at = "act"
    /\ \E k \in Keys :
        /\ key[k].tenant = call[c].tenant
        /\ key' = [key EXCEPT ![k].ended = TRUE]
    /\ Finished(c)
    /\ UNCHANGED <<slug, members, breaker>>

KeyExpires(k) ==
    /\ key[k].tenant # None /\ ~key[k].ended
    /\ key' = [key EXCEPT ![k].ended = TRUE]
    /\ UNCHANGED <<slug, members, call, breaker>>

(* PATCH /admin/tenant reads the slug's owner in a session of its own ... *)
CheckRename(c) ==
    /\ call[c].at = "act"
    /\ \E s \in Slugs :
        /\ ~Taken(s)
        /\ Set(c, "rename", call[c].who, call[c].tenant, s)
    /\ UNCHANGED <<tables, breaker>>

(* ... and commits later, where the unique column decides. *)
Rename(c) ==
    /\ call[c].at = "rename" /\ ~Taken(call[c].slug)
    /\ slug' = [slug EXCEPT ![call[c].tenant] = call[c].slug]
    /\ Finished(c)
    /\ UNCHANGED <<members, key, breaker>>

(* The request ends early: a constraint, an error, a process that dies. *)
Abandon(c) ==
    /\ call[c].at # "idle"
    /\ Finished(c)
    /\ UNCHANGED <<tables, breaker>>

CallStep(c) ==
    \/ AuthoriseBearer(c) \/ AuthoriseKey(c)
    \/ CheckSlug(c) \/ InsertTenant(c) \/ InsertMembership(c)
    \/ CreateMember(c) \/ RevokeMember(c)
    \/ CreateKey(c) \/ RevokeKey(c)
    \/ CheckRename(c) \/ Rename(c) \/ Abandon(c)

TNext ==
    \/ Browse \/ TokenRefused \/ RecoveryTimeout
    \/ \E c \in Calls : CallStep(c)
    \/ \E k \in Keys : KeyExpires(k)

Spec == TInit /\ [][TNext]_tvars

(***************************************************************************)
(* Properties.                                                             *)
(***************************************************************************)

Stages == {"idle", "act", "tenant", "membership", "rename"}

(* Rows, keys, requests and the breaker's counters keep their shape, and   *)
(* membership ids stay unique.                                             *)
TypeOK ==
    /\ slug \in [Tenants -> Slugs \cup {None}]
    /\ members \subseteq [id : 1..MaxRows, subject : Subjects, tenant : Tenants,
                          role : Roles, revoked : BOOLEAN]
    /\ \A r1, r2 \in members :
        <<r1.id, r1.subject, r1.tenant>> = <<r2.id, r2.subject, r2.tenant>> => r1 = r2
    /\ key \in [Keys -> [tenant : Tenants \cup {None}, role : Roles,
                         ended : BOOLEAN]]
    /\ call \in [Calls -> [at : Stages, who : Subjects \cup Keys \cup {None},
                           tenant : Tenants \cup {None}, slug : Slugs \cup {None}]]
    /\ failures \in 0..Threshold /\ streak \in 0..Threshold
    /\ open \in BOOLEAN /\ aged \in BOOLEAN

(* Two tenants never share a slug, although both the creation and the      *)
(* rename look for it before they write (api.py:895, auth/service.py:236). *)
SlugsAreUnique ==
    \A t1, t2 \in Existing : slug[t1] = slug[t2] => t1 = t2

(* Whoever acts on a tenant is, or was, one of its admins, one of its keys *)
(* or a super admin, however many memberships the subject has, whichever   *)
(* tenant the header names and whatever was revoked since it was resolved  *)
(* (auth/service.py:90-126).                                               *)
Entitled(t) ==
    SuperAdmins \cup {r.subject : r \in {m \in members : m.tenant = t /\ m.role = "admin"}}
                \cup {k \in Keys : key[k].tenant = t}

OnlyItsAdminsAct ==
    \A c \in Calls : call[c].at \in {"act", "rename"} => call[c].who \in Entitled(call[c].tenant)

(* What belongs to a tenant that has had a member changes only by a        *)
(* request resolved for that tenant, of someone who is, or was, entitled   *)
(* to administer it, or by the last step of its creation; a key that       *)
(* expires is no change (auth/service.py:266, :298).                       *)
Of(t) == <<slug[t], {r \in members : r.tenant = t},
           {k \in Keys : key[k].tenant = t}>>

EachTenantIsItsAdmins ==
    [][\A t \in Tenants :
        {r \in members : r.tenant = t} # {} /\ Of(t)' # Of(t) =>
            \E c \in Calls :
                /\ call'[c] # call[c]
                /\ call[c].tenant = t
                /\ \/ call[c].who \in Entitled(t)
                   \/ call[c].at = "membership"]_tables

(* A key is never reborn: whoever asks for an id that exists, in whatever  *)
(* tenant, neither moves it nor makes it valid again (auth/service.py:206).    *)
KeysAreNotReborn ==
    [][\A k \in Keys : key[k].tenant # None =>
        /\ key'[k].tenant = key[k].tenant
        /\ key[k].ended => key'[k].ended]_key

(* The breaker refuses everyone only after Threshold validations failed    *)
(* with none that succeeded in between (auth/provider.py:37).              *)
OpenAfterFailuresInARow == open => streak >= Threshold
=============================================================================
