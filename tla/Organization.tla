---- MODULE Organization ----
(***************************************************************************)
(* Organizations, their members and invitations: OrganizationController    *)
(* behind OrgPermissionGuard, and OrganizationService.  The owner stands in*)
(* two tables (organizations.ownerUserId, and the member with role owner); *)
(* every handler reads rows, awaits, and saves them as it read them.       *)
(***************************************************************************)
EXTENDS Naturals, FiniteSets

CONSTANTS
    Users,         \* each with an email address
    Founder,       \* owner of the first organization
    Handlers,      \* executions of endpoints; names the rows they insert
    FirstOrg,
    NoOne,
    Granted,       \* roles that are given: a bound
    OrgFaults      \* may a save fail, and the process die?

ASSUME FounderAssumption == Founder \in Users
ASSUME GrantedAssumption == Granted \subseteq {"admin", "member", "viewer"}
ASSUME HandlersAssumption == IsFiniteSet(Handlers)
ASSUME NoOneAssumption   == NoOne \notin Users \cup Handlers \cup {FirstOrg} /\ FirstOrg \notin Handlers

VARIABLES
    org,        \* organizations: ownerUserId, and whether didNftSerial is set
    row,        \* organization_members
    invite,     \* organization_invitations
    lapsed,     \* invitations past their expiresAt
    run,        \* what each handler was called with and has read
    at,         \* the await each handler has reached
    minting,    \* organizations whose DID NFT is minted in the background
    clashed,    \* handlers that overlapped with another one, or with a mint (history)
    broken      \* handlers that failed in the middle (history)

ovars == <<org, row, invite, lapsed, run, at, minting, clashed, broken>>

Orgs    == Handlers \cup {FirstOrg}
Roles   == {"owner", "admin", "member", "viewer"}
NoRow   == [role |-> "none", id |-> NoOne]
NoOrg   == [owner |-> NoOne, named |-> FALSE]
NoInv   == [org |-> NoOne, email |-> NoOne, role |-> "viewer", status |-> "none"]
OrgRow  == [owner : Users \cup {NoOne}, named : BOOLEAN]
MemRow  == [role : Roles \cup {"none"}, id : Orgs \cup {NoOne}]
InvRow  == [org : Orgs \cup {NoOne}, email : Users \cup {NoOne}, role : Roles, status : {"none", "pending", "accepted", "expired"}]
NoRun   == [op |-> "none", by |-> NoOne, org |-> NoOne, target |-> NoOne, role |-> "viewer",
            inv |-> NoOne, snap |-> NoOrg, own |-> NoRow, tgt |-> NoRow]
Reads   == {"lookup", "org", "own", "target", "find", "pending", "token", "member"}
Writes  == {"account", "saveOrg", "founder", "save", "rows", "owner", "insert", "join", "mark", "expire"}

OrgTypeOK ==
    /\ org \in [Orgs -> OrgRow] /\ row \in [Orgs -> [Users -> MemRow]]
    /\ invite \in [Handlers -> InvRow] /\ lapsed \subseteq Handlers
    /\ run \in [Handlers -> [op : {"none", "create", "profile", "role", "remove", "transfer", "invite", "accept"},
                             by : Users \cup {NoOne}, org : Orgs \cup {NoOne}, target : Users \cup {NoOne},
                             role : Roles, inv : Handlers \cup {NoOne}, snap : OrgRow, own : MemRow, tgt : MemRow]]
    /\ at \in [Handlers -> Reads \cup Writes \cup {"idle", "done", "refused"}]
    /\ minting \subseteq Orgs /\ clashed \subseteq Handlers /\ broken \subseteq Handlers

\* One organization, whose owner has invited some of the others.
OrgInit ==
    /\ org = [o \in Orgs |-> IF o = FirstOrg THEN [owner |-> Founder, named |-> TRUE] ELSE NoOrg]
    /\ \E r \in [Users \ {Founder} -> {"none", "admin"}] :
          row = [o \in Orgs |-> [u \in Users |->
                    IF o # FirstOrg THEN NoRow
                    ELSE IF u = Founder THEN [role |-> "owner", id |-> FirstOrg]
                    ELSE IF r[u] = "none" THEN NoRow ELSE [role |-> r[u], id |-> FirstOrg]]]
    /\ invite = [i \in Handlers |-> NoInv]
    /\ lapsed = {} /\ minting = {} /\ clashed = {} /\ broken = {}
    /\ run = [h \in Handlers |-> NoRun]
    /\ at = [h \in Handlers |-> "idle"]

--------------------------------------------------------------------------------

Active     == {h \in Handlers : at[h] \in Reads \cup Writes}
Exists(o)  == org[o].owner # NoOne
OwnedBy(u) == {o \in Orgs : org[o].owner = u}
Go(h, s)   == at' = [at EXCEPT ![h] = s]
Tables     == <<org, row, invite, lapsed, minting>>
History    == <<clashed, broken>>

\* The end of a handler, after which nobody asks what it had read; an accepted
\* invitation stays with who accepted it.
End(h, s) ==
    /\ Go(h, s)
    /\ run' = [run EXCEPT ![h] = IF s = "done" THEN [NoRun EXCEPT !.inv = run[h].inv] ELSE NoRun]

Enter(h, call, s) ==
    /\ at[h] = "idle"
    /\ run' = [run EXCEPT ![h] = call]
    /\ Go(h, s)
    /\ clashed' = IF Active = {} THEN clashed ELSE clashed \cup Active \cup {h}
    /\ UNCHANGED <<Tables, broken>>

\* OrgPermissionGuard.canActivate: the role in the organization of the X-Org-Context
\* header (`ctx`), or else in one that the user owns.  Calls it refuses change nothing,
\* and are left out.
Required(op) == IF op = "transfer" THEN {"owner"} ELSE {"owner", "admin"}

Guarded(h, op, by, target, role, ctx) ==
    /\ \E o \in IF ctx = NoOne THEN OwnedBy(by) ELSE {ctx} : row[o][by].role \in Required(op)
    /\ Enter(h, [NoRun EXCEPT !.op = op, !.by = by, !.target = target, !.role = role], "lookup")

UpdateOrganization(h, by, ctx)     == Guarded(h, "profile", by, NoOne, "viewer", ctx)
UpdateMemberRole(h, by, u, r, ctx) == Guarded(h, "role", by, u, r, ctx)
RemoveMember(h, by, u, ctx)        == Guarded(h, "remove", by, u, "viewer", ctx)
TransferOwnership(h, by, u, ctx)   == Guarded(h, "transfer", by, u, "viewer", ctx)
CreateInvitation(h, by, u, r, ctx) == Guarded(h, "invite", by, u, r, ctx)

CreateOrganization(h, by) ==
    Enter(h, [NoRun EXCEPT !.op = "create", !.by = by], "find")

AcceptInvitation(h, by, i) ==
    Enter(h, [NoRun EXCEPT !.op = "accept", !.by = by, !.inv = i], "token")

FirstAwait(op) == CASE op \in {"profile", "transfer"} -> "org"
                    [] op \in {"role", "remove"}      -> "target"
                    [] op = "invite"                  -> "find"

\* The controller does not use the context of the guard: it looks for an organization
\* the user owns.
Lookup(h) ==
    LET r == run[h] IN
    /\ at[h] = "lookup"
    /\ IF OwnedBy(r.by) = {} \/ (r.op \in {"role", "remove", "transfer"} /\ r.target = r.by)
       THEN End(h, "refused")
       ELSE /\ \E o \in OwnedBy(r.by) : run' = [run EXCEPT ![h].org = o]
            /\ Go(h, FirstAwait(r.op))
    /\ UNCHANGED <<Tables, History>>

ReadOrg(h) ==
    LET r == run[h] IN
    /\ at[h] = "org"
    /\ IF r.op = "transfer" /\ org[r.org].owner # r.by
       THEN End(h, "refused")
       ELSE /\ run' = [run EXCEPT ![h].snap = org[r.org]]
            /\ Go(h, IF r.op = "profile" THEN "save" ELSE "own")
    /\ UNCHANGED <<Tables, History>>

\* transferOwnership: the membership of the current owner.
ReadOwn(h) ==
    LET r == run[h] IN
    /\ at[h] = "own"
    /\ IF row[r.org][r.by].role = "owner"
       THEN run' = [run EXCEPT ![h].own = row[r.org][r.by]] /\ Go(h, "target")
       ELSE End(h, "refused")
    /\ UNCHANGED <<Tables, History>>

\* The membership that is changed, removed or promoted: not the owner's.
ReadTarget(h) ==
    LET r == run[h] t == row[r.org][r.target] IN
    /\ at[h] = "target"
    /\ IF t = NoRow \/ (t.role = "owner" /\ r.op # "transfer")
       THEN End(h, "refused")
       ELSE /\ run' = [run EXCEPT ![h].tgt = t]
            /\ Go(h, IF r.op = "transfer" THEN "rows" ELSE "save")
    /\ UNCHANGED <<Tables, History>>

\* TypeORM's save of an entity: an update, or an insert when the row is gone; another
\* row of the same user violates UNIQUE(organizationId, userId).
MaySave(o, u, r) == row[o][u].id \in {NoOne, r.id}

SaveMember(h) ==
    LET r == run[h] IN
    /\ at[h] = "save" /\ r.op \in {"role", "remove"}
    /\ row' = IF r.op = "remove"
              THEN IF row[r.org][r.target].id = r.tgt.id
                   THEN [row EXCEPT ![r.org][r.target] = NoRow] ELSE row
              ELSE IF MaySave(r.org, r.target, r.tgt)
                   THEN [row EXCEPT ![r.org][r.target] = [r.tgt EXCEPT !.role = r.role]] ELSE row
    /\ End(h, "done")
    /\ UNCHANGED <<org, invite, lapsed, minting, History>>

\* A slip: the profile is saved without what the background has written.
SaveProfileOnly(h) ==
    LET r == run[h] IN
    /\ at[h] = "save" /\ r.op = "profile"
    /\ org' = [org EXCEPT ![r.org] = [r.snap EXCEPT !.named = FALSE]]
    /\ End(h, "done")
    /\ UNCHANGED <<row, invite, lapsed, minting, History>>

\* updateOrgProfile saves every column of the organization it loaded.
SaveProfile(h) ==
    LET r == run[h] IN
    /\ at[h] = "save" /\ r.op = "profile"
    /\ org' = [org EXCEPT ![r.org] = r.snap]
    /\ End(h, "done")
    /\ UNCHANGED <<row, invite, lapsed, minting, History>>

\* A slip: the old owner keeps the role.
PromoteOnly(h) ==
    LET r == run[h] IN
    /\ at[h] = "rows"
    /\ row' = [row EXCEPT ![r.org][r.target] = [r.tgt EXCEPT !.role = "owner"]]
    /\ Go(h, "owner")
    /\ UNCHANGED <<org, invite, lapsed, run, minting, History>>

\* transferOwnership saves both memberships in one transaction, and then the organization.
SwapRoles(h) ==
    LET r == run[h] ok == MaySave(r.org, r.by, r.own) /\ MaySave(r.org, r.target, r.tgt) IN
    /\ at[h] = "rows"
    /\ row' = IF ok THEN [row EXCEPT ![r.org][r.by] = [r.own EXCEPT !.role = "admin"],
                                     ![r.org][r.target] = [r.tgt EXCEPT !.role = "owner"]]
              ELSE row
    /\ IF ok THEN Go(h, "owner") /\ UNCHANGED run ELSE End(h, "refused")
    /\ UNCHANGED <<org, invite, lapsed, minting, History>>

SaveOwner(h) ==
    LET r == run[h] IN
    /\ at[h] = "owner"
    /\ org' = [org EXCEPT ![r.org] = [r.snap EXCEPT !.owner = r.target]]
    /\ End(h, "done")
    /\ UNCHANGED <<row, invite, lapsed, minting, History>>

(* Invitations *)

PendingFor(o, email) == {i \in Handlers : invite[i].org = o /\ invite[i].email = email
                                          /\ invite[i].status = "pending"}

FindInvitee(h) ==
    LET r == run[h] IN
    /\ at[h] = "find" /\ r.op = "invite"
    /\ IF row[r.org][r.target] # NoRow THEN End(h, "refused") ELSE Go(h, "pending") /\ UNCHANGED run
    /\ UNCHANGED <<Tables, History>>

FindPending(h) ==
    LET r == run[h] IN
    /\ at[h] = "pending"
    /\ IF PendingFor(r.org, r.target) # {} THEN End(h, "refused") ELSE Go(h, "insert") /\ UNCHANGED run
    /\ UNCHANGED <<Tables, History>>

InsertInvitation(h) ==
    LET r == run[h] IN
    /\ at[h] = "insert"
    /\ invite' = [invite EXCEPT ![h] = [org |-> r.org, email |-> r.target, role |-> r.role, status |-> "pending"]]
    /\ End(h, "done")
    /\ UNCHANGED <<org, row, lapsed, minting, History>>

Lapse(i) ==
    /\ invite[i].status # "none" /\ i \notin lapsed
    /\ lapsed' = lapsed \cup {i}
    /\ UNCHANGED <<org, row, invite, run, at, minting, History>>

\* acceptInvitation: whoever has the token.
ReadToken(h) ==
    LET i == run[h].inv IN
    /\ at[h] = "token"
    /\ IF invite[i].status = "accepted"
       THEN End(h, "refused")
       ELSE Go(h, IF i \in lapsed THEN "expire" ELSE "member") /\ UNCHANGED run
    /\ UNCHANGED <<Tables, History>>

FindMember(h) ==
    LET r == run[h] IN
    /\ at[h] = "member"
    /\ IF row[invite[r.inv].org][r.by] # NoRow THEN End(h, "refused") ELSE Go(h, "join") /\ UNCHANGED run
    /\ UNCHANGED <<Tables, History>>

Join(h) ==
    LET r == run[h] o == invite[r.inv].org IN
    /\ at[h] = "join"
    /\ IF row[o][r.by] = NoRow
       THEN /\ row' = [row EXCEPT ![o][r.by] = [role |-> invite[r.inv].role, id |-> h]]
            /\ Go(h, "mark") /\ UNCHANGED run
       ELSE End(h, "refused") /\ UNCHANGED row
    /\ UNCHANGED <<org, invite, lapsed, minting, History>>

MarkInvitation(h) ==
    /\ at[h] \in {"mark", "expire"}
    /\ invite' = [invite EXCEPT ![run[h].inv].status = IF at[h] = "mark" THEN "accepted" ELSE "expired"]
    /\ End(h, IF at[h] = "mark" THEN "done" ELSE "refused")
    /\ UNCHANGED <<org, row, lapsed, minting, History>>

(* createOrganization *)

FindOwned(h) ==
    /\ at[h] = "find" /\ run[h].op = "create"
    /\ IF OwnedBy(run[h].by) # {} THEN End(h, "refused") ELSE Go(h, "account") /\ UNCHANGED run
    /\ UNCHANGED <<Tables, History>>

\* The account must be made, the broadcast topic need not.
CreateAccount(h) ==
    /\ at[h] = "account"
    /\ Go(h, "saveOrg")
    /\ UNCHANGED <<Tables, run, History>>

InsertOrg(h) ==
    /\ at[h] = "saveOrg"
    /\ org' = [org EXCEPT ![h] = [owner |-> run[h].by, named |-> FALSE]]
    /\ Go(h, "founder")
    /\ UNCHANGED <<row, invite, lapsed, run, minting, History>>

InsertFounder(h) ==
    /\ at[h] = "founder"
    /\ row' = [row EXCEPT ![h][run[h].by] = [role |-> "owner", id |-> h]]
    /\ minting' = minting \cup {h}
    /\ End(h, "done")
    /\ UNCHANGED <<org, invite, lapsed, History>>

\* The mint ends in the background: orgRepository.update of one column, or a warning.
Minted(o) ==
    /\ o \in minting
    /\ minting' = minting \ {o}
    /\ org' \in {org, [org EXCEPT ![o].named = TRUE]}
    /\ clashed' = clashed \cup Active
    /\ UNCHANGED <<row, invite, lapsed, run, at, broken>>

\* A query throws, or the process dies.
Break(h) ==
    /\ OrgFaults /\ at[h] \in Writes
    /\ End(h, "refused")
    /\ broken' = broken \cup {h}
    /\ UNCHANGED <<Tables, clashed>>

OrgStep(h) ==
    \/ Lookup(h) \/ ReadOrg(h) \/ ReadOwn(h) \/ ReadTarget(h)
    \/ SaveMember(h) \/ SaveProfile(h) \/ SwapRoles(h) \/ SaveOwner(h)
    \/ FindInvitee(h) \/ FindPending(h) \/ InsertInvitation(h)
    \/ ReadToken(h) \/ FindMember(h) \/ Join(h) \/ MarkInvitation(h)
    \/ FindOwned(h) \/ CreateAccount(h) \/ InsertOrg(h) \/ InsertFounder(h) \/ Break(h)

OrgCall(h, by) ==
    \/ CreateOrganization(h, by)
    \/ \E i \in Handlers : invite[i] # NoInv /\ AcceptInvitation(h, by, i)
    \/ \E ctx \in {o \in Orgs : row[o][by] # NoRow} \cup {NoOne} :
          \/ UpdateOrganization(h, by, ctx)
          \/ \E u \in Users :
                \/ RemoveMember(h, by, u, ctx) \/ TransferOwnership(h, by, u, ctx)
                \/ \E r \in Granted : UpdateMemberRole(h, by, u, r, ctx) \/ CreateInvitation(h, by, u, r, ctx)

OrgNext ==
    \/ \E h \in Handlers, by \in Users : OrgCall(h, by)
    \/ \E h \in Handlers : OrgStep(h) \/ Lapse(h)
    \/ \E o \in Orgs : Minted(o)

OrgSpec == OrgInit /\ [][OrgNext]_ovars

--------------------------------------------------------------------------------

OwnersOf(o) == {u \in Users : row[o][u].role = "owner"}
Saves(h, s) == at[h] = s /\ at'[h] # s

\* "Demote current owner to admin, promote target to owner, update org.ownerUserId": when
\* nothing overlapped or failed, an organization has one owner, the same in both tables.
OneOwner ==
    clashed = {} /\ broken = {} /\ Active = {}
    => \A o \in Orgs : OwnersOf(o) = {org[o].owner} \ {NoOne}

\* Whatever overlaps or fails, an owner loses the role by passing it on, or to a handler
\* that read the row before it was the owner's.
OwnerLostOnlyByTransfer ==
    [][\A o \in Orgs, u \in Users :
          row[o][u].role = "owner" /\ row'[o][u].role # "owner"
          => \E h \in Handlers : \/ Saves(h, "rows") /\ run[h].by = u
                                 \/ Saves(h, "save") /\ h \in clashed]_ovars

\* Nobody gets into an organization but with an invitation to it or by founding it; a role
\* change that overlapped with a removal brings back who was removed.
JoinsOnlyByInvitation ==
    [][\A o \in Orgs, u \in Users :
          row[o][u] = NoRow /\ row'[o][u] # NoRow
          => \E h \in Handlers : \/ Saves(h, "join") /\ run[h].by = u /\ invite[run[h].inv].org = o
                                 \/ Saves(h, "founder") /\ run[h].by = u /\ h = o
                                 \/ (Saves(h, "save") \/ Saves(h, "rows")) /\ h \in clashed]_ovars

UsedBy(i) == {h \in Handlers : run[h].inv = i /\ at[h] \in {"mark", "done"}}

\* An invitation admits a second one only when two accepted at once, or when marking it as
\* accepted failed.
AdmittedOnce ==
    \A i \in Handlers, g, h \in Handlers :
        g # h /\ {g, h} \subseteq UsedBy(i) => {g, h} \cap clashed # {}

\* The serial of the DID NFT is never lost, and ownership passes only from the owner that
\* the table names, but for a save of the organization as it was loaded before a mint or
\* another handler wrote it.
OrgRowLostOnlyToStaleSave ==
    [][\A o \in Orgs :
          Exists(o) /\ (org[o].owner # org'[o].owner \/ (org[o].named /\ ~org'[o].named))
          => \E h \in Handlers :
                /\ run[h].org = o
                /\ \/ h \in clashed /\ (Saves(h, "save") \/ Saves(h, "owner"))
                   \/ Saves(h, "owner") /\ run[h].by = org[o].owner /\ org'[o].named = org[o].named]_ovars

\* "Each user can own at most one organization": a second one is founded only by two
\* creations, or a creation and a transfer, that overlap; transferOwnership does not ask.
FoundsOnce ==
    [][\A u \in Users :
          OwnedBy(u) # {} /\ Cardinality({o \in Orgs : org'[o].owner = u}) > Cardinality(OwnedBy(u))
          => \E h \in Handlers : \/ Saves(h, "owner") /\ run[h].target = u
                                 \/ h \in clashed /\ (Saves(h, "saveOrg") \/ Saves(h, "save"))]_ovars

\* Owners, and what an invitation is good for.
OrgInv == OrgTypeOK /\ OneOwner /\ AdmittedOnce

\* Who joins, who loses or takes over an organization, and through which save.
OrgSteps == /\ OwnerLostOnlyByTransfer /\ JoinsOnlyByInvitation
            /\ OrgRowLostOnlyToStaleSave /\ FoundsOnce

\* Not kept by the code (README.md, section 3):
\* "Each user can own at most one organization", also without overlap.
OneOrgPerOwner == \A u \in Users : Cardinality(OwnedBy(u)) <= 1

\* Not kept by the code (README.md, section 3): "Requires owner or admin role": an admin of
\* an organization is let in.  The controller then looks for one that he owns.
AdminsAreServed ==
    [][\A h \in Handlers :
          at[h] = "lookup" /\ at'[h] = "refused" => run[h].target = run[h].by \/ run[h].op = "transfer"]_ovars

================================================================================
