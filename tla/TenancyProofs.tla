---------------------------- MODULE TenancyProofs ----------------------------
(***************************************************************************)
(* Proofs about Tenancy: what its run shows on two tenants holds for every *)
(* set of tenants, subjects, keys and requests.                            *)
(***************************************************************************)
EXTENDS Tenancy, FiniteSetTheorems, TLAPS

(***************************************************************************)
(* The inductive invariant.                                                *)
(***************************************************************************)

RowType == [id : 1..MaxRows, subject : Subjects, tenant : Tenants,
            role : Roles, revoked : BOOLEAN]

KeyType == [tenant : Tenants \cup {None}, role : Roles, ended : BOOLEAN]

CallType == [at : Stages, who : Subjects \cup Keys \cup {None},
             tenant : Tenants \cup {None}, slug : Slugs \cup {None}]

RowsOf(M, who, t) == {r \in M : r.subject = who /\ r.tenant = t}

(* A row's id is at most the number of rows its subject has in the tenant: *)
(* this is why the next id is a new one.                                   *)
Table(M) ==
    /\ M \subseteq RowType
    /\ IsFiniteSet(M) /\ Cardinality(M) <= MaxRows
    /\ \A r1, r2 \in M :
        <<r1.id, r1.subject, r1.tenant>> = <<r2.id, r2.subject, r2.tenant>> => r1 = r2
    /\ \A r \in M : r.id <= Cardinality(RowsOf(M, r.subject, r.tenant))

(* What a request that is under way has established. *)
CallOK(c) ==
    /\ c.at \in {"act", "rename", "membership"} => c.tenant \in Existing
    /\ c.at \in {"tenant", "rename"} => c.slug \in Slugs
    /\ c.at \in {"tenant", "membership"} => c.who \in Subjects

(* No row refers to a tenant that does not exist. *)
References ==
    /\ \A r \in members : r.tenant \in Existing
    /\ \A k \in Keys : key[k].tenant # None => key[k].tenant \in Existing

Typed ==
    /\ slug \in [Tenants -> Slugs \cup {None}]
    /\ key \in [Keys -> KeyType]
    /\ call \in [Calls -> CallType]

BreakerInv ==
    /\ failures \in 0..Threshold /\ streak = failures
    /\ open \in BOOLEAN /\ aged \in BOOLEAN
    /\ open => failures >= Threshold

TenancyInv ==
    /\ Typed
    /\ Table(members)
    /\ References
    /\ \A c \in Calls : CallOK(call[c])
    /\ OnlyItsAdminsAct
    /\ SlugsAreUnique

(***************************************************************************)
(* The table of memberships.                                               *)
(***************************************************************************)

(* The rows of one subject in one tenant, in a bigger and in a smaller set. *)
LEMMA RowsOfFinite ==
    ASSUME NEW M, IsFiniteSet(M), NEW who, NEW t
    PROVE  /\ IsFiniteSet(RowsOf(M, who, t))
           /\ Cardinality(RowsOf(M, who, t)) \in Nat
           /\ Cardinality(RowsOf(M, who, t)) <= Cardinality(M)
<1>1. RowsOf(M, who, t) \in SUBSET M
    BY DEF RowsOf
<1> QED
    BY <1>1, FS_Subset, FS_CardinalityType

(* Adding a row with the next id keeps the table (create_membership).      *)
LEMMA AddRow ==
    ASSUME Table(members), Cardinality(members) < MaxRows,
           NEW who \in Subjects, NEW t \in Tenants, NEW role \in Roles
    PROVE  Table(members \cup {Row(who, t, role)})
<1> DEFINE r == Row(who, t, role)
           N == members \cup {r}
           n == Cardinality(RowsOf(members, who, t))
<1>1. /\ IsFiniteSet(members) /\ members \subseteq RowType
      /\ Cardinality(members) \in Nat /\ MaxRows \in Nat
    BY FS_CardinalityType, TenancyAssumption DEF Table
<1>2. n \in Nat /\ n <= Cardinality(members) /\ IsFiniteSet(RowsOf(members, who, t))
    BY <1>1, RowsOfFinite
<1>3. r = [id |-> n + 1, subject |-> who, tenant |-> t, role |-> role, revoked |-> FALSE]
    BY DEF Row, RowsOf
<1>4. n + 1 \in 1..MaxRows
    BY <1>1, <1>2
<1>5. r \in RowType
    BY <1>3, <1>4 DEF RowType
<1>6. \A q \in RowsOf(members, who, t) : q.id <= n
    BY DEF Table, RowsOf
<1>7. r \notin members
    <2>1. r \in members => r \in RowsOf(members, who, t)
        BY <1>3 DEF RowsOf
    <2>2. r.id = n + 1
        BY <1>3
    <2> QED
        BY <2>1, <2>2, <1>2, <1>6
<1>8. IsFiniteSet(N) /\ Cardinality(N) <= MaxRows
    <2>1. IsFiniteSet(N) /\ Cardinality(N) = Cardinality(members) + 1
        BY <1>1, <1>7, FS_AddElement
    <2> HIDE DEF N
    <2> QED
        BY <2>1, <1>1
<1>9. RowsOf(N, who, t) = RowsOf(members, who, t) \cup {r}
    BY <1>3 DEF RowsOf
<1>10. Cardinality(RowsOf(N, who, t)) = n + 1
    <2>1. r \notin RowsOf(members, who, t)
        BY <1>7 DEF RowsOf
    <2> QED
        BY <2>1, <1>2, <1>9, FS_AddElement
<1>11. \A s, u : s # who \/ u # t => RowsOf(N, s, u) = RowsOf(members, s, u)
    BY <1>3 DEF RowsOf
<1>12. ASSUME NEW q \in N PROVE q.id <= Cardinality(RowsOf(N, q.subject, q.tenant))
    <2>1. CASE q = r
        BY <2>1, <1>2, <1>3, <1>10
    <2>2. CASE q \in RowsOf(members, who, t)
        <3>1. q.subject = who /\ q.tenant = t /\ q \in members
            BY <2>2 DEF RowsOf
        <3>2. q.id \in Int /\ q.id <= n
            BY <3>1, <2>2, <1>1, <1>6 DEF RowType
        <3> QED
            BY <3>1, <3>2, <1>2, <1>10
    <2>3. CASE q \in members /\ (q.subject # who \/ q.tenant # t)
        <3>1. RowsOf(N, q.subject, q.tenant) = RowsOf(members, q.subject, q.tenant)
            BY <2>3, <1>11
        <3> QED
            BY <2>3, <3>1 DEF Table
    <2> QED
        BY <2>1, <2>2, <2>3 DEF RowsOf
<1>13. ASSUME NEW q1 \in N, NEW q2 \in N,
              <<q1.id, q1.subject, q1.tenant>> = <<q2.id, q2.subject, q2.tenant>>
       PROVE  q1 = q2
    <2>1. \A q \in members :
            ~(q.id = r.id /\ q.subject = r.subject /\ q.tenant = r.tenant)
        <3> SUFFICES ASSUME NEW q \in members, q.subject = who, q.tenant = t PROVE q.id # n + 1
            BY <1>3
        <3>1. q.id \in Int /\ q.id <= n
            BY <1>1, <1>6 DEF RowType, RowsOf
        <3> QED
            BY <3>1, <1>2
    <2> QED
        BY <2>1, <1>13 DEF Table
<1> QED
    BY <1>1, <1>5, <1>8, <1>12, <1>13 DEF Table

(* A row that is revoked stays where it is (revoke_membership).            *)
LEMMA RevokeRow ==
    ASSUME Table(members), NEW r \in members
    PROVE  Table(Revoked(r))
<1> DEFINE v == [r EXCEPT !.revoked = TRUE]
           N == Revoked(r)
<1>1. /\ IsFiniteSet(members) /\ members \subseteq RowType
      /\ Cardinality(members) \in Nat /\ MaxRows \in Nat
    BY FS_CardinalityType, TenancyAssumption DEF Table
<1>2. N = (members \ {r}) \cup {v}
    BY DEF Revoked
<1>3. /\ v \in RowType
      /\ v.id = r.id /\ v.subject = r.subject /\ v.tenant = r.tenant
    BY <1>1 DEF RowType
<1>4. v \notin members \ {r}
    BY <1>1, <1>3 DEF Table
<1>5. ASSUME NEW M, r \in M, IsFiniteSet(M), v \notin M \ {r}
      PROVE  /\ IsFiniteSet((M \ {r}) \cup {v})
             /\ Cardinality((M \ {r}) \cup {v}) = Cardinality(M)
    <2>1. /\ IsFiniteSet(M \ {r}) /\ Cardinality(M) \in Nat
          /\ Cardinality(M \ {r}) = Cardinality(M) - 1
        BY <1>5, FS_RemoveElement, FS_CardinalityType
    <2>2. /\ IsFiniteSet((M \ {r}) \cup {v})
          /\ Cardinality((M \ {r}) \cup {v}) = Cardinality(M \ {r}) + 1
        <3> DEFINE R == M \ {r}
        <3>1. IsFiniteSet(R) /\ v \notin R
            BY <1>5, <2>1
        <3> HIDE DEF R, v
        <3> QED
            BY <3>1, FS_AddElement DEF R
    <2> HIDE DEF v
    <2> QED
        BY <2>1, <2>2
<1>6. IsFiniteSet(N) /\ Cardinality(N) = Cardinality(members)
    BY <1>1, <1>2, <1>4, <1>5
<1>7. \A s, t : Cardinality(RowsOf(N, s, t)) = Cardinality(RowsOf(members, s, t))
    <2> SUFFICES ASSUME NEW s, NEW t
                 PROVE  Cardinality(RowsOf(N, s, t)) = Cardinality(RowsOf(members, s, t))
        OBVIOUS
    <2>1. CASE r.subject = s /\ r.tenant = t
        <3>1. RowsOf(N, s, t) = (RowsOf(members, s, t) \ {r}) \cup {v}
            BY <2>1, <1>2, <1>3 DEF RowsOf
        <3>2. r \in RowsOf(members, s, t) /\ v \notin RowsOf(members, s, t) \ {r}
            BY <2>1, <1>4 DEF RowsOf
        <3> QED
            BY <3>1, <3>2, <1>1, <1>5, RowsOfFinite
    <2>2. CASE ~(r.subject = s /\ r.tenant = t)
        BY <2>2, <1>2, <1>3 DEF RowsOf
    <2> QED
        BY <2>1, <2>2
<1>8. \A q \in N : q.id <= Cardinality(RowsOf(N, q.subject, q.tenant))
    <2>1. \A q \in members : q.id <= Cardinality(RowsOf(N, q.subject, q.tenant))
        <3> SUFFICES ASSUME NEW q \in members
                     PROVE  q.id <= Cardinality(RowsOf(N, q.subject, q.tenant))
            OBVIOUS
        <3> QED
            BY <1>7 DEF Table
    <2> HIDE DEF N, v
    <2> QED
        BY <2>1, <1>2, <1>3
<1>9. ASSUME NEW q1 \in N, NEW q2 \in N,
             <<q1.id, q1.subject, q1.tenant>> = <<q2.id, q2.subject, q2.tenant>>
      PROVE  q1 = q2
    BY <1>2, <1>3, <1>9 DEF Table
<1> QED
    BY <1>1, <1>2, <1>3, <1>6, <1>8, <1>9 DEF Table

(***************************************************************************)
(* The steps.                                                              *)
(***************************************************************************)

(* The initial tenant, its admin and a closed breaker.                     *)
LEMMA TenancyInit == TInit => TenancyInv /\ BreakerInv
<1> SUFFICES ASSUME TInit PROVE TenancyInv /\ BreakerInv
    OBVIOUS
<1>1. PICK t \in Tenants, s \in Slugs, who \in Subjects :
        /\ slug = [u \in Tenants |-> IF u = t THEN s ELSE None]
        /\ members = {[id |-> 1, subject |-> who, tenant |-> t,
                       role |-> "admin", revoked |-> FALSE]}
    BY DEF TInit
<1>2. Typed
    BY <1>1 DEF TInit, Typed, KeyType, CallType, NoKey, Idle, Roles, Stages
<1>3. Table(members)
    <2> DEFINE r == [id |-> 1, subject |-> who, tenant |-> t,
                     role |-> "admin", revoked |-> FALSE]
    <2>1. r \in RowType
        BY TenancyAssumption DEF RowType, Roles
    <2>2. RowsOf(members, who, t) = {r}
        BY <1>1 DEF RowsOf
    <2>3. IsFiniteSet({r}) /\ Cardinality({r}) = 1
        BY FS_Singleton
    <2>4. 1 <= MaxRows
        BY TenancyAssumption
    <2>5. members = {r} /\ r.id = 1 /\ r.subject = who /\ r.tenant = t
        BY <1>1
    <2> HIDE DEF r
    <2>6. \A q \in members : q.id <= Cardinality(RowsOf(members, q.subject, q.tenant))
        BY <2>2, <2>3, <2>5
    <2>7. members \subseteq RowType /\ IsFiniteSet(members) /\ Cardinality(members) <= MaxRows
        BY <2>1, <2>3, <2>4, <2>5
    <2> QED
        BY <2>5, <2>6, <2>7 DEF Table
<1>4. References
    BY <1>1, TenancyAssumption DEF TInit, References, Existing, NoKey
<1>5. (\A c \in Calls : CallOK(call[c])) /\ OnlyItsAdminsAct
    BY DEF TInit, CallOK, OnlyItsAdminsAct, Idle
<1>6. SlugsAreUnique
    BY <1>1 DEF SlugsAreUnique, Existing
<1>7. BreakerInv
    <2>1. failures \in 0..Threshold /\ streak = failures
        BY TenancyAssumption DEF TInit
    <2>2. open \in BOOLEAN /\ aged \in BOOLEAN /\ ~open
        BY Zenon DEF TInit
    <2> QED
        BY <2>1, <2>2, Zenon DEF BreakerInv
<1> QED
    BY <1>2, <1>3, <1>4, <1>5, <1>6, <1>7 DEF TenancyInv

(* A tenant that exists goes on existing, an entitled subject goes on      *)
(* having been entitled: what a request has established stays so.          *)
Growing ==
    /\ Existing \subseteq Existing'
    /\ \A t \in Tenants : Entitled(t) \subseteq Entitled(t)'

(* The request that moves, if any, has established what it needs.          *)
LEMMA CallsKeep ==
    ASSUME TenancyInv, Growing,
           NEW c \in Calls, NEW d, call' = [call EXCEPT ![c] = d],
           CallOK(d)',
           (d.at \in {"act", "rename"} => d.who \in Entitled(d.tenant))'
    PROVE  (\A e \in Calls : CallOK(call[e]))' /\ OnlyItsAdminsAct'
<1>1. call \in [Calls -> CallType]
    BY DEF TenancyInv, Typed
<1> SUFFICES ASSUME NEW e \in Calls
             PROVE  /\ CallOK(call[e])'
                    /\ (call[e].at \in {"act", "rename"}
                         => call[e].who \in Entitled(call[e].tenant))'
    BY DEF OnlyItsAdminsAct
<1>2. CASE e = c
    BY <1>1, <1>2
<1>3. CASE e # c
    <2>1. call'[e] = call[e]
        BY <1>1, <1>3
    <2>2. CallOK(call[e]) /\ (call[e].at \in {"act", "rename"} =>
            call[e].who \in Entitled(call[e].tenant) /\ call[e].tenant \in Tenants)
        BY DEF TenancyInv, OnlyItsAdminsAct, CallOK, Existing
    <2>3. CallOK(call[e])'
        BY <2>1, <2>2 DEF CallOK, Growing
    <2> QED
        BY <2>1, <2>2, <2>3 DEF Growing
<1> QED
    BY <1>2, <1>3

(* Every step keeps the shape of tenants, keys and requests.               *)
LEMMA TypedNext == TenancyInv /\ [TNext]_tvars => Typed'
<1> SUFFICES ASSUME TenancyInv, [TNext]_tvars PROVE Typed'
    OBVIOUS
<1>1. Typed /\ \A c \in Calls : CallOK(call[c])
    BY DEF TenancyInv
<1>2. \A c \in Calls : \A at \in Stages, who \in Subjects \cup Keys \cup {None},
            t \in Tenants \cup {None}, s \in Slugs \cup {None} :
            Set(c, at, who, t, s) => call' \in [Calls -> CallType]
    BY <1>1 DEF Typed, Set, CallType
<1>3. ASSUME NEW c \in Calls, Finished(c) PROVE call' \in [Calls -> CallType]
    BY <1>1, <1>3 DEF Typed, Finished, Idle, CallType, Stages
<1>4. ASSUME NEW c \in Calls PROVE call[c] \in CallType
    BY <1>1 DEF Typed
<1>5. ASSUME NEW c \in Calls, AuthoriseBearer(c) PROVE Typed'
    <2>1. call' \in [Calls -> CallType]
        BY <1>2, <1>5 DEF AuthoriseBearer, Stages
    <2> QED
        BY <1>1, <1>5, <2>1 DEF AuthoriseBearer, Typed, tables
<1>6. ASSUME NEW c \in Calls, AuthoriseKey(c) PROVE Typed'
    <2>1. call' \in [Calls -> CallType]
        BY <1>2, <1>6 DEF AuthoriseKey, Stages
    <2> QED
        BY <1>1, <1>6, <2>1 DEF AuthoriseKey, Typed, tables
<1>7. ASSUME NEW c \in Calls, CheckSlug(c) PROVE Typed'
    <2>1. call' \in [Calls -> CallType]
        BY <1>2, <1>7 DEF CheckSlug, Stages
    <2> QED
        BY <1>1, <1>7, <2>1 DEF CheckSlug, Typed, tables
<1>8. ASSUME NEW c \in Calls, CheckRename(c) PROVE Typed'
    <2>1. call' \in [Calls -> CallType]
        BY <1>2, <1>4, <1>8 DEF CheckRename, Stages, CallType
    <2> QED
        BY <1>1, <1>8, <2>1 DEF CheckRename, Typed, tables
<1>9. ASSUME NEW c \in Calls, InsertTenant(c) PROVE Typed'
    <2>1. call' \in [Calls -> CallType]
        BY <1>2, <1>4, <1>9 DEF InsertTenant, Stages, CallType
    <2>2. slug' \in [Tenants -> Slugs \cup {None}]
        BY <1>1, <1>9 DEF InsertTenant, Typed, CallOK
    <2> QED
        BY <1>1, <1>9, <2>1, <2>2 DEF InsertTenant, Typed
<1>10. ASSUME NEW c \in Calls, Rename(c) PROVE Typed'
    <2>1. call' \in [Calls -> CallType]
        BY <1>3, <1>10 DEF Rename
    <2>2. slug' \in [Tenants -> Slugs \cup {None}]
        BY <1>1, <1>10 DEF Rename, Typed, CallOK
    <2> QED
        BY <1>1, <1>10, <2>1, <2>2 DEF Rename, Typed
<1>11. ASSUME NEW c \in Calls, CreateKey(c) \/ RevokeKey(c) PROVE Typed'
    <2>1. call' \in [Calls -> CallType]
        BY <1>3, <1>11 DEF CreateKey, RevokeKey
    <2>2. CASE CreateKey(c)
        <3>1. key' \in [Keys -> KeyType]
            <4>1. PICK k \in Keys, role \in Roles :
                    key' = [key EXCEPT ![k] = [NoKey EXCEPT !.tenant = call[c].tenant,
                                                            !.role = role]]
                BY <2>2 DEF CreateKey
            <4>2. [NoKey EXCEPT !.tenant = call[c].tenant, !.role = role] \in KeyType
                BY <1>4 DEF NoKey, KeyType, CallType
            <4> QED
                BY <1>1, <4>1, <4>2 DEF Typed
        <3> QED
            BY <1>1, <2>1, <2>2, <3>1 DEF CreateKey, Typed
    <2>3. CASE RevokeKey(c)
        <3>1. key' \in [Keys -> KeyType]
            BY <1>1, <2>3 DEF RevokeKey, Typed, KeyType
        <3> QED
            BY <1>1, <2>1, <2>3, <3>1 DEF RevokeKey, Typed
    <2> QED
        BY <1>11, <2>2, <2>3
<1>12. ASSUME NEW k \in Keys, KeyExpires(k) PROVE Typed'
    BY <1>1, <1>12 DEF KeyExpires, Typed, KeyType
<1>13. ASSUME NEW c \in Calls,
              InsertMembership(c) \/ CreateMember(c) \/ RevokeMember(c) \/ Abandon(c)
       PROVE  Typed'
    BY <1>1, <1>3, <1>13
    DEF InsertMembership, CreateMember, RevokeMember, Abandon, tables, Typed
<1>14. CASE Browse \/ TokenRefused \/ RecoveryTimeout \/ UNCHANGED tvars
    BY <1>1, <1>14 DEF Browse, TokenRefused, RecoveryTimeout, tvars, tables, Typed
<1> QED
    BY <1>5, <1>6, <1>7, <1>8, <1>9, <1>10, <1>11, <1>12, <1>13, <1>14 DEF TNext, CallStep

(* Every step keeps the table of memberships.                              *)
LEMMA TableNext == TenancyInv /\ [TNext]_tvars => Table(members)'
<1> SUFFICES ASSUME TenancyInv, [TNext]_tvars PROVE Table(members')
    OBVIOUS
<1>1. Table(members) /\ Typed /\ \A c \in Calls : CallOK(call[c])
    BY DEF TenancyInv
<1>2. ASSUME NEW c \in Calls, call[c].at \in {"act", "membership"}
      PROVE  call[c].tenant \in Tenants
    BY <1>1, <1>2 DEF CallOK, Existing
<1>3. ASSUME NEW c \in Calls, InsertMembership(c) PROVE Table(members')
    <2>1. call[c].who \in Subjects /\ call[c].tenant \in Tenants /\ "admin" \in Roles
        BY <1>1, <1>2, <1>3 DEF InsertMembership, CallOK, Roles
    <2> QED
        BY <1>1, <1>3, <2>1, AddRow DEF InsertMembership
<1>4. ASSUME NEW c \in Calls, CreateMember(c) PROVE Table(members')
    <2>1. call[c].tenant \in Tenants
        BY <1>2, <1>4 DEF CreateMember
    <2> QED
        BY <1>1, <1>4, <2>1, AddRow DEF CreateMember
<1>5. ASSUME NEW c \in Calls, RevokeMember(c) PROVE Table(members')
    BY <1>1, <1>5, RevokeRow DEF RevokeMember
<1>6. CASE \/ Browse \/ TokenRefused \/ RecoveryTimeout \/ UNCHANGED tvars
           \/ \E k \in Keys : KeyExpires(k)
           \/ \E c \in Calls : \/ AuthoriseBearer(c) \/ AuthoriseKey(c) \/ CheckSlug(c)
                               \/ InsertTenant(c) \/ CreateKey(c) \/ RevokeKey(c)
                               \/ CheckRename(c) \/ Rename(c) \/ Abandon(c)
    <2>1. members' = members
        BY <1>6 DEF Browse, TokenRefused, RecoveryTimeout, tvars, tables, KeyExpires,
            AuthoriseBearer, AuthoriseKey, CheckSlug, InsertTenant, CreateKey, RevokeKey,
            CheckRename, Rename, Abandon
    <2> QED
        BY <1>1, <2>1
<1> QED
    BY <1>3, <1>4, <1>5, <1>6 DEF TNext, CallStep

(* A row keeps its subject, tenant and role, and is never deleted.         *)
RowsKept ==
    \A r \in members : \E q \in members' :
        q.subject = r.subject /\ q.tenant = r.tenant /\ q.role = r.role

(* Only a key that does not exist gets a tenant.                           *)
KeysKept == \A k \in Keys : key[k].tenant # None => key'[k].tenant = key[k].tenant

(* No step deletes a tenant, a row or a key (no endpoint does).            *)
LEMMA TablesGrow ==
    TenancyInv /\ [TNext]_tvars => /\ Existing \subseteq Existing'
                                  /\ RowsKept /\ KeysKept
<1> SUFFICES ASSUME TenancyInv, [TNext]_tvars
             PROVE  Existing \subseteq Existing' /\ RowsKept /\ KeysKept
    OBVIOUS
<1> DEFINE P == Existing \subseteq Existing' /\ RowsKept /\ KeysKept
<1>1. Typed /\ Table(members) /\ \A c \in Calls : CallOK(call[c])
    BY DEF TenancyInv
<1>2. UNCHANGED slug => Existing \subseteq Existing'
    BY DEF Existing
<1>3. UNCHANGED members => RowsKept
    BY DEF RowsKept
<1>4. UNCHANGED key => KeysKept
    BY DEF KeysKept
<1>5. ASSUME NEW c \in Calls, InsertTenant(c) \/ Rename(c) PROVE P
    <2>1. call[c].slug # None
        BY <1>1, <1>5, TenancyAssumption DEF CallOK, InsertTenant, Rename
    <2>2. CASE InsertTenant(c)
        <3>1. Existing \subseteq Existing'
            BY <1>1, <2>1, <2>2 DEF InsertTenant, Existing, Typed
        <3> QED
            BY <3>1, <2>2, <1>3, <1>4 DEF InsertTenant
    <2>3. CASE Rename(c)
        <3>1. Existing \subseteq Existing'
            BY <1>1, <2>1, <2>3 DEF Rename, Existing, Typed
        <3> QED
            BY <3>1, <2>3, <1>3, <1>4 DEF Rename
    <2> QED
        BY <1>5, <2>2, <2>3
<1>6. ASSUME NEW c \in Calls, InsertMembership(c) \/ CreateMember(c) PROVE P
    <2>1. members \subseteq members'
        BY <1>6 DEF InsertMembership, CreateMember
    <2> QED
        BY <1>2, <1>4, <1>6, <2>1 DEF InsertMembership, CreateMember, RowsKept
<1>7. ASSUME NEW c \in Calls, RevokeMember(c) PROVE P
    <2>1. PICK r \in members : members' = Revoked(r)
        BY <1>7 DEF RevokeMember
    <2>2. r \in RowType
        BY <1>1 DEF Table
    <2>3. RowsKept
        <3> DEFINE v == [r EXCEPT !.revoked = TRUE]
        <3>1. v.subject = r.subject /\ v.tenant = r.tenant /\ v.role = r.role
            BY <2>2 DEF RowType
        <3>2. members' = (members \ {r}) \cup {v}
            BY <2>1 DEF Revoked
        <3> HIDE DEF v
        <3> QED
            BY <3>1, <3>2 DEF RowsKept
    <2> QED
        BY <1>2, <1>4, <1>7, <2>3 DEF RevokeMember
<1>8. ASSUME NEW c \in Calls, CreateKey(c) PROVE P
    <2>1. KeysKept
        BY <1>1, <1>8 DEF CreateKey, KeysKept, Typed
    <2> QED
        BY <1>2, <1>3, <1>8, <2>1 DEF CreateKey
<1>9. ASSUME NEW c \in Calls, RevokeKey(c) PROVE P
    <2>1. KeysKept
        BY <1>1, <1>9 DEF RevokeKey, KeysKept, Typed, KeyType
    <2> QED
        BY <1>2, <1>3, <1>9, <2>1 DEF RevokeKey
<1>10. ASSUME NEW k \in Keys, KeyExpires(k) PROVE P
    <2>1. KeysKept
        BY <1>1, <1>10 DEF KeyExpires, KeysKept, Typed, KeyType
    <2> QED
        BY <1>2, <1>3, <1>10, <2>1 DEF KeyExpires
<1>11. CASE \/ Browse \/ TokenRefused \/ RecoveryTimeout \/ UNCHANGED tvars
            \/ \E c \in Calls : \/ AuthoriseBearer(c) \/ AuthoriseKey(c) \/ CheckSlug(c)
                                \/ CheckRename(c) \/ Abandon(c)
    <2>1. UNCHANGED tables
        BY <1>11 DEF Browse, TokenRefused, RecoveryTimeout, tvars,
            AuthoriseBearer, AuthoriseKey, CheckSlug, CheckRename, Abandon, tables
    <2> QED
        BY <2>1, <1>2, <1>3, <1>4 DEF tables
<1> QED
    BY <1>5, <1>6, <1>7, <1>8, <1>9, <1>10, <1>11 DEF TNext, CallStep

(* Who was once entitled to administer a tenant has always been.           *)
LEMMA Grows == TenancyInv /\ [TNext]_tvars => Growing
<1> SUFFICES ASSUME TenancyInv, [TNext]_tvars PROVE Growing
    OBVIOUS
<1>1. Existing \subseteq Existing' /\ RowsKept /\ KeysKept
    BY TablesGrow
<1>2. ASSUME NEW t \in Tenants, NEW who \in Entitled(t) PROVE who \in Entitled(t)'
    <2>1. CASE who \in SuperAdmins
        BY <2>1 DEF Entitled
    <2>2. CASE who \in {r.subject : r \in {m \in members : m.tenant = t /\ m.role = "admin"}}
        <3>1. PICK r \in members : r.tenant = t /\ r.role = "admin" /\ r.subject = who
            BY <2>2
        <3>2. PICK q \in members' : q.subject = who /\ q.tenant = t /\ q.role = "admin"
            BY <1>1, <3>1 DEF RowsKept
        <3> QED
            BY <3>2 DEF Entitled
    <2>3. CASE who \in {k \in Keys : key[k].tenant = t}
        BY <1>1, <2>3, TenancyAssumption DEF KeysKept, Entitled
    <2> QED
        BY <1>2, <2>1, <2>2, <2>3 DEF Entitled
<1> QED
    BY <1>1, <1>2 DEF Growing

(* Rows and keys are only made for a tenant that exists.                   *)
LEMMA ReferencesNext == TenancyInv /\ [TNext]_tvars => References'
<1> SUFFICES ASSUME TenancyInv, [TNext]_tvars PROVE References'
    OBVIOUS
<1>1. /\ Typed /\ Table(members) /\ References
      /\ \A c \in Calls : CallOK(call[c])
      /\ Existing \subseteq Existing'
    BY TablesGrow DEF TenancyInv
<1>2. ASSUME NEW c \in Calls, call[c].at \in {"act", "membership"}
      PROVE  call[c].tenant \in Existing /\ call[c].tenant \in Existing'
    BY <1>1, <1>2 DEF CallOK
<1>3. UNCHANGED members => \A r \in members' : r.tenant \in Existing'
    BY <1>1 DEF References
<1>4. UNCHANGED key => \A k \in Keys : key'[k].tenant # None => key'[k].tenant \in Existing'
    BY <1>1 DEF References
<1>5. ASSUME NEW c \in Calls, InsertMembership(c) \/ CreateMember(c) PROVE References'
    <2>1. call[c].tenant \in Existing'
        BY <1>2, <1>5 DEF InsertMembership, CreateMember
    <2>2. PICK who, role : members' = members \cup {Row(who, call[c].tenant, role)}
        BY <1>5 DEF InsertMembership, CreateMember
    <2>3. Row(who, call[c].tenant, role).tenant = call[c].tenant
        BY DEF Row
    <2> QED
        BY <1>1, <1>4, <1>5, <2>1, <2>2, <2>3 DEF InsertMembership, CreateMember, References
<1>6. ASSUME NEW c \in Calls, RevokeMember(c) PROVE References'
    <2>1. PICK r \in members : members' = Revoked(r)
        BY <1>6 DEF RevokeMember
    <2>2. r \in RowType
        BY <1>1 DEF Table
    <2>3. \A q \in members' : q.tenant \in Existing'
        <3> DEFINE v == [r EXCEPT !.revoked = TRUE]
        <3>1. v.tenant = r.tenant
            BY <2>2 DEF RowType
        <3>2. members' = (members \ {r}) \cup {v}
            BY <2>1 DEF Revoked
        <3> HIDE DEF v
        <3> QED
            BY <1>1, <3>1, <3>2 DEF References
    <2> QED
        BY <1>4, <1>6, <2>3 DEF RevokeMember, References
<1>7. ASSUME NEW c \in Calls, CreateKey(c) PROVE References'
    <2>1. PICK k \in Keys, role \in Roles :
            key' = [key EXCEPT ![k] = [NoKey EXCEPT !.tenant = call[c].tenant,
                                                    !.role = role]]
        BY <1>7 DEF CreateKey
    <2>2. call[c].tenant \in Existing'
        BY <1>2, <1>7 DEF CreateKey
    <2> QED
        BY <1>1, <1>3, <1>7, <2>1, <2>2 DEF CreateKey, References, Typed, NoKey
<1>8. ASSUME NEW c \in Calls, RevokeKey(c) PROVE References'
    BY <1>1, <1>3, <1>8 DEF RevokeKey, References, Typed, KeyType
<1>9. ASSUME NEW k \in Keys, KeyExpires(k) PROVE References'
    BY <1>1, <1>3, <1>9 DEF KeyExpires, References, Typed, KeyType
<1>10. CASE \/ Browse \/ TokenRefused \/ RecoveryTimeout \/ UNCHANGED tvars
            \/ \E c \in Calls : \/ AuthoriseBearer(c) \/ AuthoriseKey(c) \/ CheckSlug(c)
                                \/ InsertTenant(c) \/ CheckRename(c) \/ Rename(c) \/ Abandon(c)
    <2>1. UNCHANGED <<members, key>>
        BY <1>10 DEF Browse, TokenRefused, RecoveryTimeout, tvars, AuthoriseBearer,
            AuthoriseKey, CheckSlug, InsertTenant, CheckRename, Rename, Abandon, tables
    <2> QED
        BY <2>1, <1>3, <1>4 DEF References
<1> QED
    BY <1>5, <1>6, <1>7, <1>8, <1>9, <1>10 DEF TNext, CallStep

(* What a request has established stays so, and it moves on only when it   *)
(* has established what the next step needs.                               *)
LEMMA CallsNext ==
    TenancyInv /\ [TNext]_tvars =>
        (\A c \in Calls : CallOK(call[c]))' /\ OnlyItsAdminsAct'
<1> SUFFICES ASSUME TenancyInv, [TNext]_tvars
             PROVE  (\A c \in Calls : CallOK(call[c]))' /\ OnlyItsAdminsAct'
    OBVIOUS
<1> DEFINE P == (\A c \in Calls : CallOK(call[c]))' /\ OnlyItsAdminsAct'
<1>1. /\ Typed /\ References /\ Table(members) /\ OnlyItsAdminsAct
      /\ \A c \in Calls : CallOK(call[c])
    BY DEF TenancyInv
<1>2. Growing
    BY Grows
<1>3. ASSUME NEW c \in Calls, Finished(c) PROVE P
    <2>1. CallOK(Idle)' /\ (Idle.at \in {"act", "rename"} => Idle.who \in Entitled(Idle.tenant))'
        BY DEF CallOK, Idle
    <2> QED
        BY <1>2, <1>3, <2>1, CallsKeep DEF Finished
<1>4. ASSUME NEW c \in Calls, AuthoriseBearer(c) PROVE P
    <2>1. PICK who \in Subjects, hint \in Tenants \cup {None}, t \in Tenants :
            Resolves(who, hint, t, "admin") /\ Set(c, "act", who, t, None)
        BY <1>4 DEF AuthoriseBearer
    <2>2. t \in Existing /\ who \in Entitled(t)
        <3>1. CASE who \in SuperAdmins /\ hint \in Existing /\ t = hint
            BY <3>1 DEF Entitled
        <3>2. CASE \E r \in Active(who) : t = r.tenant /\ r.role = "admin"
            BY <1>1, <3>2 DEF Active, Entitled, References
        <3> QED
            BY <2>1, <3>1, <3>2 DEF Resolves
    <2> DEFINE d == [at |-> "act", who |-> who, tenant |-> t, slug |-> None]
    <2>3. CallOK(d)' /\ (d.at \in {"act", "rename"} => d.who \in Entitled(d.tenant))'
        BY <1>2, <2>2 DEF CallOK, Growing
    <2>4. call' = [call EXCEPT ![c] = d]
        BY <2>1 DEF Set
    <2> HIDE DEF d
    <2> QED
        BY <1>2, <2>3, <2>4, CallsKeep
<1>5. ASSUME NEW c \in Calls, AuthoriseKey(c) PROVE P
    <2>1. PICK k \in Keys, t \in Tenants :
            KeyResolves(k, t, "admin") /\ Set(c, "act", k, t, None)
        BY <1>5 DEF AuthoriseKey
    <2>2. t \in Existing /\ k \in Entitled(t)
        BY <1>1, <2>1, TenancyAssumption DEF KeyResolves, Entitled, References
    <2> DEFINE d == [at |-> "act", who |-> k, tenant |-> t, slug |-> None]
    <2>3. CallOK(d)' /\ (d.at \in {"act", "rename"} => d.who \in Entitled(d.tenant))'
        BY <1>2, <2>2 DEF CallOK, Growing
    <2>4. call' = [call EXCEPT ![c] = d]
        BY <2>1 DEF Set
    <2> HIDE DEF d
    <2> QED
        BY <1>2, <2>3, <2>4, CallsKeep
<1>6. ASSUME NEW c \in Calls, CheckSlug(c) PROVE P
    <2>1. PICK who \in Subjects, s \in Slugs : Set(c, "tenant", who, None, s)
        BY <1>6 DEF CheckSlug
    <2> DEFINE d == [at |-> "tenant", who |-> who, tenant |-> None, slug |-> s]
    <2>2. CallOK(d)' /\ (d.at \in {"act", "rename"} => d.who \in Entitled(d.tenant))'
        BY DEF CallOK
    <2>3. call' = [call EXCEPT ![c] = d]
        BY <2>1 DEF Set
    <2> HIDE DEF d
    <2> QED
        BY <1>2, <2>2, <2>3, CallsKeep
<1>7. ASSUME NEW c \in Calls, InsertTenant(c) PROVE P
    <2>1. PICK t \in Tenants \ Existing :
            /\ slug' = [slug EXCEPT ![t] = call[c].slug]
            /\ Set(c, "membership", call[c].who, t, None)
        BY <1>7 DEF InsertTenant
    <2>2. PICK who \in Subjects : who = call[c].who
        BY <1>1, <1>7 DEF InsertTenant, CallOK
    <2>3. t \in Existing'
        BY <1>1, <1>7, <2>1, TenancyAssumption DEF InsertTenant, CallOK, Existing, Typed
    <2> DEFINE d == [at |-> "membership", who |-> who, tenant |-> t, slug |-> None]
    <2>4. CallOK(d)' /\ (d.at \in {"act", "rename"} => d.who \in Entitled(d.tenant))'
        BY <2>3 DEF CallOK
    <2>5. call' = [call EXCEPT ![c] = d]
        BY <2>1, <2>2 DEF Set
    <2> HIDE DEF d
    <2> QED
        BY <1>2, <2>4, <2>5, CallsKeep
<1>8. ASSUME NEW c \in Calls, CheckRename(c) PROVE P
    <2>1. PICK s \in Slugs : Set(c, "rename", call[c].who, call[c].tenant, s)
        BY <1>8 DEF CheckRename
    <2>2. PICK t, who : t = call[c].tenant /\ who = call[c].who
        OBVIOUS
    <2>3. t \in Existing /\ t \in Tenants /\ who \in Entitled(t)
        BY <1>1, <1>8, <2>2 DEF CheckRename, CallOK, OnlyItsAdminsAct, Existing
    <2> DEFINE d == [at |-> "rename", who |-> who, tenant |-> t, slug |-> s]
    <2>4. CallOK(d)' /\ (d.at \in {"act", "rename"} => d.who \in Entitled(d.tenant))'
        BY <1>2, <2>3 DEF CallOK, Growing
    <2>5. call' = [call EXCEPT ![c] = d]
        BY <2>1, <2>2 DEF Set
    <2> HIDE DEF d
    <2> QED
        BY <1>2, <2>4, <2>5, CallsKeep
<1>9. ASSUME NEW c \in Calls,
             \/ InsertMembership(c) \/ CreateMember(c) \/ RevokeMember(c) \/ CreateKey(c)
             \/ RevokeKey(c) \/ Rename(c) \/ Abandon(c)
      PROVE  P
    BY <1>3, <1>9 DEF InsertMembership, CreateMember, RevokeMember, CreateKey, RevokeKey,
        Rename, Abandon
<1>10. CASE \/ Browse \/ TokenRefused \/ RecoveryTimeout \/ UNCHANGED tvars
            \/ \E k \in Keys : KeyExpires(k)
    <2>1. call' = call
        BY <1>10 DEF Browse, TokenRefused, RecoveryTimeout, KeyExpires, tvars
    <2>2. ASSUME NEW c \in Calls PROVE CallOK(call[c])'
        BY <1>1, <1>2, <2>1 DEF CallOK, Growing
    <2>3. ASSUME NEW c \in Calls, call[c].at \in {"act", "rename"}
          PROVE  call[c].who \in Entitled(call[c].tenant)'
        <3>1. call[c].tenant \in Tenants /\ call[c].who \in Entitled(call[c].tenant)
            BY <1>1, <2>3 DEF CallOK, OnlyItsAdminsAct, Existing
        <3> QED
            BY <1>2, <2>1, <3>1 DEF Growing
    <2> QED
        BY <2>1, <2>2, <2>3 DEF OnlyItsAdminsAct
<1> QED
    BY <1>4, <1>5, <1>6, <1>7, <1>8, <1>9, <1>10 DEF TNext, CallStep

(* The unique column: a slug is only ever written when no tenant has it.   *)
LEMMA SlugsNext == TenancyInv /\ [TNext]_tvars => SlugsAreUnique'
<1> SUFFICES ASSUME TenancyInv, [TNext]_tvars PROVE SlugsAreUnique'
    OBVIOUS
<1>1. Typed /\ SlugsAreUnique
    BY DEF TenancyInv
<1>2. ASSUME NEW t \in Tenants, NEW s, ~Taken(s), slug' = [slug EXCEPT ![t] = s]
      PROVE  SlugsAreUnique'
    BY <1>1, <1>2 DEF SlugsAreUnique, Existing, Taken, Typed
<1>3. UNCHANGED slug => SlugsAreUnique'
    BY <1>1 DEF SlugsAreUnique, Existing
<1>4. ASSUME NEW c \in Calls, InsertTenant(c) PROVE SlugsAreUnique'
    BY <1>2, <1>4 DEF InsertTenant
<1>5. ASSUME NEW c \in Calls, Rename(c) PROVE SlugsAreUnique'
    <2>1. call[c].tenant \in Tenants
        BY <1>5 DEF TenancyInv, Rename, CallOK, Existing
    <2> QED
        BY <1>2, <1>5, <2>1 DEF Rename
<1>6. CASE \/ Browse \/ TokenRefused \/ RecoveryTimeout \/ UNCHANGED tvars
           \/ \E k \in Keys : KeyExpires(k)
           \/ \E c \in Calls : \/ AuthoriseBearer(c) \/ AuthoriseKey(c) \/ CheckSlug(c)
                               \/ InsertMembership(c) \/ CreateMember(c) \/ RevokeMember(c)
                               \/ CreateKey(c) \/ RevokeKey(c) \/ CheckRename(c) \/ Abandon(c)
    <2>1. slug' = slug
        BY <1>6 DEF Browse, TokenRefused, RecoveryTimeout, tvars, tables, KeyExpires,
            AuthoriseBearer, AuthoriseKey, CheckSlug, InsertMembership, CreateMember,
            RevokeMember, CreateKey, RevokeKey, CheckRename, Abandon
    <2> QED
        BY <1>3, <2>1
<1> QED
    BY <1>4, <1>5, <1>6 DEF TNext, CallStep

(* Once a key exists, no step moves it or makes it valid again.            *)
LEMMA KeysStay ==
    ASSUME TenancyInv, [TNext]_tvars, NEW k \in Keys, key[k].tenant # None
    PROVE  key'[k].tenant = key[k].tenant /\ (key[k].ended => key'[k].ended)
<1>1. Typed
    BY DEF TenancyInv
<1>2. key'[k].tenant = key[k].tenant
    BY TablesGrow DEF KeysKept
<1>3. ASSUME key[k].ended PROVE key'[k].ended
    <2>1. ASSUME NEW c \in Calls, CreateKey(c) PROVE key'[k] = key[k]
        BY <1>1, <2>1 DEF CreateKey, Typed
    <2>2. ASSUME NEW c \in Calls, RevokeKey(c) PROVE key'[k] = key[k] \/ key'[k].ended
        BY <1>1, <2>2 DEF RevokeKey, Typed, KeyType
    <2>3. ASSUME NEW j \in Keys, KeyExpires(j) PROVE key'[k] = key[k] \/ key'[k].ended
        BY <1>1, <2>3 DEF KeyExpires, Typed, KeyType
    <2>4. CASE \/ Browse \/ TokenRefused \/ RecoveryTimeout \/ UNCHANGED tvars
               \/ \E c \in Calls : \/ AuthoriseBearer(c) \/ AuthoriseKey(c) \/ CheckSlug(c)
                                   \/ InsertTenant(c) \/ InsertMembership(c) \/ CreateMember(c)
                                   \/ RevokeMember(c) \/ CheckRename(c) \/ Rename(c) \/ Abandon(c)
        <3>1. key' = key
            BY <2>4 DEF Browse, TokenRefused, RecoveryTimeout, tvars, tables, AuthoriseBearer,
                AuthoriseKey, CheckSlug, InsertTenant, InsertMembership, CreateMember,
                RevokeMember, CheckRename, Rename, Abandon
        <3> QED
            BY <1>3, <3>1, Zenon
    <2>5. key'[k] = key[k] \/ key'[k].ended
        BY <2>1, <2>2, <2>3, <2>4 DEF TNext, CallStep
    <2> QED
        BY <1>3, <2>5, Zenon
<1> QED
    BY <1>2, <1>3

(* A request resolved for one tenant changes nothing of another's.         *)
LEMMA OthersUntouched ==
    ASSUME TenancyInv, NEW c \in Calls, CallStep(c), NEW t \in Tenants,
           t \in Existing, Of(t)' # Of(t)
    PROVE  /\ call[c].at \in {"act", "rename", "membership"}
           /\ call[c].tenant = t
           /\ call'[c].at = "idle"
<1>1. Typed /\ Table(members)
    BY DEF TenancyInv
<1>2. Of(t)' = Of(t) <=> /\ slug'[t] = slug[t]
                        /\ {r \in members' : r.tenant = t} = {r \in members : r.tenant = t}
                        /\ {k \in Keys : key'[k].tenant = t} = {k \in Keys : key[k].tenant = t}
    BY DEF Of
<1>3. Finished(c) => call'[c].at = "idle"
    BY <1>1 DEF Finished, Idle, Typed
<1>4. \A who, u, role : Row(who, u, role).tenant = u
    BY DEF Row
<1>5. CASE InsertTenant(c)
    <2>1. PICK u \in Tenants \ Existing : slug' = [slug EXCEPT ![u] = call[c].slug]
        BY <1>5 DEF InsertTenant
    <2> QED
        BY <1>1, <1>2, <1>5, <2>1 DEF InsertTenant, Typed
<1>6. CASE InsertMembership(c)
    <2>1. call[c].tenant # t => {r \in members' : r.tenant = t} = {r \in members : r.tenant = t}
        BY <1>4, <1>6 DEF InsertMembership
    <2> QED
        BY <1>2, <1>3, <1>6, <2>1 DEF InsertMembership
<1>7. CASE CreateMember(c)
    <2>1. PICK who, role : members' = members \cup {Row(who, call[c].tenant, role)}
        BY <1>7 DEF CreateMember
    <2>2. call[c].tenant # t => {r \in members' : r.tenant = t} = {r \in members : r.tenant = t}
        BY <1>4, <2>1
    <2> QED
        BY <1>2, <1>3, <1>7, <2>2 DEF CreateMember
<1>8. CASE RevokeMember(c)
    <2>1. PICK r \in members : r.tenant = call[c].tenant /\ members' = Revoked(r)
        BY <1>8 DEF RevokeMember
    <2>2. call[c].tenant # t => {q \in members' : q.tenant = t} = {q \in members : q.tenant = t}
        <3> DEFINE v == [r EXCEPT !.revoked = TRUE]
        <3>1. v.tenant = r.tenant
            BY <1>1 DEF Table, RowType
        <3>2. members' = (members \ {r}) \cup {v}
            BY <2>1 DEF Revoked
        <3> HIDE DEF v
        <3> QED
            BY <2>1, <3>1, <3>2
    <2> QED
        BY <1>2, <1>3, <1>8, <2>2 DEF RevokeMember
<1>9. CASE CreateKey(c)
    <2>1. PICK k \in Keys, role \in Roles :
            /\ key[k].tenant = None
            /\ key' = [key EXCEPT ![k] = [NoKey EXCEPT !.tenant = call[c].tenant,
                                                      !.role = role]]
        BY <1>9 DEF CreateKey
    <2>2. t # None
        BY TenancyAssumption
    <2>3. call[c].tenant # t => \A j \in Keys : key'[j].tenant = t <=> key[j].tenant = t
        BY <1>1, <2>1, <2>2 DEF Typed, NoKey
    <2>4. call[c].tenant # t => {j \in Keys : key'[j].tenant = t} = {j \in Keys : key[j].tenant = t}
        BY <2>3
    <2> QED
        BY <1>2, <1>3, <1>9, <2>4 DEF CreateKey
<1>10. CASE RevokeKey(c)
    <2>1. \A k \in Keys : key'[k].tenant = key[k].tenant
        BY <1>1, <1>10 DEF RevokeKey, Typed, KeyType
    <2>2. {k \in Keys : key'[k].tenant = t} = {k \in Keys : key[k].tenant = t}
        BY <2>1
    <2> QED
        BY <1>2, <1>10, <2>2 DEF RevokeKey
<1>11. CASE Rename(c)
    <2>1. call[c].tenant # t => slug'[t] = slug[t]
        BY <1>1, <1>11 DEF Rename, Typed
    <2> QED
        BY <1>2, <1>3, <1>11, <2>1 DEF Rename
<1>12. CASE AuthoriseBearer(c) \/ AuthoriseKey(c) \/ CheckSlug(c) \/ CheckRename(c) \/ Abandon(c)
    <2>1. UNCHANGED tables
        BY <1>12 DEF AuthoriseBearer, AuthoriseKey, CheckSlug, CheckRename, Abandon, tables
    <2> QED
        BY <1>2, <2>1 DEF tables
<1> QED
    BY <1>5, <1>6, <1>7, <1>8, <1>9, <1>10, <1>11, <1>12 DEF CallStep

(* The steps that are no request's leave rows and tenants as they are.     *)
LEMMA NobodysSteps ==
    ASSUME TenancyInv, NEW t \in Tenants,
           \/ Browse \/ TokenRefused \/ RecoveryTimeout \/ \E k \in Keys : KeyExpires(k)
    PROVE  Of(t)' = Of(t)
<1>1. CASE Browse \/ TokenRefused \/ RecoveryTimeout
    BY <1>1 DEF Browse, TokenRefused, RecoveryTimeout, tables, Of
<1>2. ASSUME NEW k \in Keys, KeyExpires(k) PROVE Of(t)' = Of(t)
    <2>1. \A j \in Keys : key'[j].tenant = key[j].tenant
        BY <1>2 DEF KeyExpires, TenancyInv, Typed, KeyType
    <2>2. {j \in Keys : key'[j].tenant = t} = {j \in Keys : key[j].tenant = t}
        BY <2>1
    <2> QED
        BY <1>2, <2>2 DEF KeyExpires, Of
<1> QED
    BY <1>1, <1>2

(* The breaker counts exactly the failures in a row.                       *)
LEMMA BreakerNext == BreakerInv /\ [TNext]_tvars => BreakerInv'
<1> SUFFICES ASSUME BreakerInv, [TNext]_tvars PROVE BreakerInv'
    OBVIOUS
<1>1. failures \in 0..Threshold /\ streak = failures /\ Threshold \in Nat \ {0}
    BY TenancyAssumption DEF BreakerInv
<1>2. open \in BOOLEAN /\ aged \in BOOLEAN /\ (open => failures >= Threshold)
    BY DEF BreakerInv
<1>3. ASSUME TokenAccepted PROVE BreakerInv'
    <2>1. failures' \in 0..Threshold /\ streak' = failures'
        BY <1>1, <1>3 DEF TokenAccepted
    <2>2. open' \in BOOLEAN /\ aged' \in BOOLEAN /\ ~open'
        BY <1>3, Zenon DEF TokenAccepted
    <2> QED
        BY <2>1, <2>2, Zenon DEF BreakerInv
<1>4. CASE TokenRefused
    <2>1. failures' \in 0..Threshold /\ streak' = failures'
        BY <1>1, <1>4 DEF TokenRefused, Counted
    <2>2. open' \in BOOLEAN /\ aged' \in BOOLEAN /\ (open' => failures' >= Threshold)
        <3>1. open' = (failures' >= Threshold) /\ aged' = FALSE
            BY <1>4 DEF TokenRefused
        <3>2. (failures' >= Threshold) \in BOOLEAN
            OBVIOUS
        <3> QED
            BY <3>1, <3>2
    <2> QED
        BY <2>1, <2>2, Zenon DEF BreakerInv
<1>5. CASE RecoveryTimeout
    <2>1. failures' = failures /\ streak' = streak /\ open' = open /\ aged' = TRUE
        BY <1>5 DEF RecoveryTimeout
    <2> QED
        BY <1>1, <1>2, <2>1, Zenon DEF BreakerInv
<1>6. ASSUME UNCHANGED breaker PROVE BreakerInv'
    BY <1>1, <1>2, <1>6, Zenon DEF BreakerInv, breaker
<1>7. CASE Browse \/ \E c \in Calls : AuthoriseBearer(c) \/ CheckSlug(c)
    BY <1>3, <1>7 DEF Browse, AuthoriseBearer, CheckSlug
<1>8. CASE \/ UNCHANGED tvars \/ \E k \in Keys : KeyExpires(k)
           \/ \E c \in Calls : \/ AuthoriseKey(c) \/ InsertTenant(c) \/ InsertMembership(c)
                               \/ CreateMember(c) \/ RevokeMember(c) \/ CreateKey(c)
                               \/ RevokeKey(c) \/ CheckRename(c) \/ Rename(c) \/ Abandon(c)
    BY <1>6, <1>8 DEF tvars, KeyExpires, AuthoriseKey, InsertTenant, InsertMembership,
        CreateMember, RevokeMember, CreateKey, RevokeKey, CheckRename, Rename, Abandon
<1> QED
    BY <1>4, <1>5, <1>7, <1>8 DEF TNext, CallStep

(***************************************************************************)
(* The theorems.                                                           *)
(***************************************************************************)

(* Types, the table of memberships, references, what a request in flight   *)
(* may rely on, the slugs and the breaker's count, together inductive.     *)
THEOREM TenancyInvariant == Spec => [](TenancyInv /\ BreakerInv)
<1>1. TenancyInv /\ BreakerInv /\ [TNext]_tvars => (TenancyInv /\ BreakerInv)'
    BY TypedNext, TableNext, ReferencesNext, CallsNext, SlugsNext, BreakerNext DEF TenancyInv
<1> QED
    BY <1>1, TenancyInit, PTL DEF Spec

(* State keeps its types; no two memberships of a subject in a tenant get  *)
(* the same id.                                                            *)
THEOREM TenancyTypes == Spec => []TypeOK
<1>1. TenancyInv /\ BreakerInv => TypeOK
    <2> SUFFICES ASSUME TenancyInv, BreakerInv PROVE TypeOK
        OBVIOUS
    <2>1. failures \in 0..Threshold /\ streak \in 0..Threshold
        BY DEF BreakerInv
    <2>2. open \in BOOLEAN /\ aged \in BOOLEAN
        BY DEF BreakerInv
    <2>3. /\ slug \in [Tenants -> Slugs \cup {None}]
          /\ key \in [Keys -> KeyType] /\ call \in [Calls -> CallType]
        BY DEF TenancyInv, Typed
    <2>4. /\ members \subseteq RowType
          /\ \A r1, r2 \in members :
                <<r1.id, r1.subject, r1.tenant>> = <<r2.id, r2.subject, r2.tenant>> => r1 = r2
        BY DEF TenancyInv, Table
    <2> QED
        BY <2>1, <2>2, <2>3, <2>4, Zenon DEF TypeOK, RowType, KeyType, CallType
<1> QED
    BY <1>1, TenancyInvariant, PTL

(* However creations and renames race, no two tenants share a slug.        *)
THEOREM UniqueSlugs == Spec => []SlugsAreUnique
    BY TenancyInvariant, PTL DEF TenancyInv

(* Nobody acts on a tenant who was never entitled to.                      *)
THEOREM OnlyAdminsAct == Spec => []OnlyItsAdminsAct
    BY TenancyInvariant, PTL DEF TenancyInv

(* The breaker is open only after Threshold failures in a row.             *)
THEOREM BreakerOpensLate == Spec => []OpenAfterFailuresInARow
<1>1. BreakerInv => OpenAfterFailuresInARow
    BY Zenon DEF BreakerInv, OpenAfterFailuresInARow
<1> QED
    BY <1>1, TenancyInvariant, PTL

(* A tenant's rows, slug and keys change only by requests resolved for it. *)
THEOREM TenantsAreSeparate == Spec => EachTenantIsItsAdmins
<1> DEFINE A == \A t \in Tenants :
                  {r \in members : r.tenant = t} # {} /\ Of(t)' # Of(t) =>
                      \E c \in Calls :
                          /\ call'[c] # call[c]
                          /\ call[c].tenant = t
                          /\ \/ call[c].who \in Entitled(t)
                             \/ call[c].at = "membership"
<1>1. TenancyInv /\ [TNext]_tvars => [A]_tables
    <2> SUFFICES ASSUME TenancyInv, [TNext]_tvars, ~UNCHANGED tables,
                        NEW t \in Tenants,
                        {r \in members : r.tenant = t} # {}, Of(t)' # Of(t)
                 PROVE  \E c \in Calls :
                          /\ call'[c] # call[c]
                          /\ call[c].tenant = t
                          /\ call[c].who \in Entitled(t) \/ call[c].at = "membership"
        OBVIOUS
    <2>1. PICK c \in Calls : CallStep(c)
        BY NobodysSteps DEF TNext, tvars
    <2>2. t \in Existing
        BY DEF TenancyInv, References
    <2>3. /\ call[c].at \in {"act", "rename", "membership"}
          /\ call[c].tenant = t /\ call'[c].at = "idle"
        BY <2>1, <2>2, OthersUntouched
    <2>4. call[c].at \in {"act", "rename"} => call[c].who \in Entitled(t)
        BY <2>3 DEF TenancyInv, OnlyItsAdminsAct
    <2> QED
        BY <2>3, <2>4
<1> QED
    BY <1>1, TenancyInvariant, PTL DEF Spec, EachTenantIsItsAdmins

(* A key id that is taken is neither moved to a tenant nor revived.        *)
THEOREM KeysNeverReborn == Spec => KeysAreNotReborn
<1>1. TenancyInv /\ [TNext]_tvars =>
        [\A k \in Keys : key[k].tenant # None =>
            /\ key'[k].tenant = key[k].tenant
            /\ key[k].ended => key'[k].ended]_key
    BY KeysStay
<1> QED
    BY <1>1, TenancyInvariant, PTL DEF Spec, KeysAreNotReborn
=============================================================================
