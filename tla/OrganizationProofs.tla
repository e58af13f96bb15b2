---- MODULE OrganizationProofs ----
(***************************************************************************)
(* Proofs that the properties of Organization hold for every number of     *)
(* users and of handlers, in whatever way they overlap and fail; and those *)
(* of the owner's pages (MembersPage, SettingsForm) for every number of    *)
(* members, of loads and of words.                                         *)
(***************************************************************************)
EXTENDS MCOrganization, FiniteSetTheorems, TLAPS

RunRec == [op : {"none", "create", "profile", "role", "remove", "transfer", "invite", "accept"},
           by : Users \cup {NoOne}, org : Orgs \cup {NoOne}, target : Users \cup {NoOne},
           role : Roles, inv : Handlers \cup {NoOne}, snap : OrgRow, own : MemRow, tgt : MemRow]

Asking == {"profile", "role", "remove", "transfer", "invite"}

\* The operations that reach an await.
OpsAt(s) == CASE s = "lookup"                                     -> Asking
              [] s = "org"                                        -> {"profile", "transfer"}
              [] s \in {"own", "rows", "owner"}                   -> {"transfer"}
              [] s = "target"                                     -> {"role", "remove", "transfer"}
              [] s = "save"                                       -> {"profile", "role", "remove"}
              [] s = "find"                                       -> {"create", "invite"}
              [] s \in {"pending", "insert"}                      -> {"invite"}
              [] s \in {"account", "saveOrg", "founder"}          -> {"create"}
              [] s \in {"token", "member", "join", "mark", "expire"} -> {"accept"}

\* What a handler was called with, and how far it may have come with it.
CalledAs(h) ==
    LET r == run[h] IN
    /\ r.op \in OpsAt(at[h]) /\ r.by \in Users /\ r.role # "owner"
    /\ r.op \in {"role", "remove", "transfer", "invite"} => r.target \in Users
    /\ r.op \in Asking /\ at[h] # "lookup" =>
          /\ r.org \in Orgs /\ Exists(r.org)
          /\ r.op \in {"role", "remove", "transfer"} => r.target # r.by
    /\ r.op = "accept" => r.inv \in Handlers /\ invite[r.inv].status # "none"
    /\ r.op # "accept" => r.inv = NoOne
    /\ at[h] \in {"own", "rows", "owner"} \/ (at[h] = "target" /\ r.op = "transfer")
       \/ (at[h] = "save" /\ r.op = "profile") => r.snap.owner \in Users

CallInv == \A h \in Active : CalledAs(h)

\* Rows and invitations are of organizations that exist; one of them is inserted by its handler.
FoundedInv ==
    /\ \A o \in Orgs, u \in Users : row[o][u] # NoRow => Exists(o)
    /\ \A i \in Handlers :
          /\ invite[i].status # "none" => invite[i].org \in Orgs /\ Exists(invite[i].org) /\ invite[i].role # "owner"
          /\ at[i] \notin {"done", "refused"} => invite[i].status = "none"
          /\ invite[i].status = "none" => invite[i] = NoInv
    /\ \A h \in Handlers : /\ Exists(h) => at[h] \in {"founder", "done", "refused"}
                           /\ at[h] = "founder" => Exists(h)

\* Handlers that run at the same time have met.
OverlapInv == \A g, h \in Active : g # h => g \in clashed

\* What a handler that met nobody has read is still what the tables say.
Current(h) ==
    LET r == run[h] IN
    /\ at[h] \in {"own", "rows", "owner"} \/ (at[h] = "target" /\ r.op = "transfer")
       \/ (at[h] = "save" /\ r.op = "profile") => r.snap = org[r.org]
    /\ r.op = "transfer" /\ at[h] \in {"own", "target", "rows", "owner"} => r.snap.owner = r.by
    /\ r.op = "transfer" /\ at[h] \in {"target", "rows"} => r.own = row[r.org][r.by] /\ r.own.role = "owner"
    /\ at[h] = "rows" \/ (at[h] = "save" /\ r.op \in {"role", "remove"})
       => r.tgt = row[r.org][r.target] /\ r.tgt # NoRow
    /\ at[h] = "save" /\ r.op \in {"role", "remove"} => r.tgt.role # "owner"
    /\ at[h] \in {"account", "saveOrg"} => OwnedBy(r.by) = {}
    /\ at[h] = "founder" => org[h].owner = r.by /\ \A u \in Users : row[h][u] = NoRow

CurrentInv == \A h \in Active \ clashed : Current(h)

\* Once a handler that met nobody has accepted an invitation, nobody is on the way to do so.
UsedInv ==
    \A h \in Handlers \ clashed, i \in Handlers :
        at[h] = "done" /\ run[h].inv = i =>
           /\ invite[i].status = "accepted"
           /\ \A g \in Handlers : run[g].inv = i => at[g] \notin {"member", "join", "mark", "expire"}

\* Without overlap and failure, the two tables name one owner, but between the two saves of a
\* creation and of a transfer.
OwnersInv ==
    clashed = {} /\ broken = {} =>
        \A o \in Orgs :
            /\ o \in Handlers /\ at[o] = "founder" => OwnersOf(o) = {}
            /\ \A h \in Handlers : at[h] = "owner" /\ run[h].org = o => OwnersOf(o) = {run[h].target}
            /\ \/ OwnersOf(o) = {org[o].owner} \ {NoOne}
               \/ o \in Handlers /\ at[o] = "founder"
               \/ \E h \in Handlers : at[h] = "owner" /\ run[h].org = o

OrgIInv == /\ OrgTypeOK /\ CallInv /\ FoundedInv /\ OverlapInv
           /\ CurrentInv /\ UsedInv /\ AdmittedOnce /\ OwnersInv


--------------------------------------------------------------------------------

Awaits == Reads \cup Writes \cup {"idle", "done", "refused"}
RowOf  == [Orgs -> [Users -> MemRow]]

LEMMA TypeParts ==
    OrgTypeOK <=> /\ org \in [Orgs -> OrgRow] /\ row \in RowOf
                  /\ invite \in [Handlers -> InvRow] /\ lapsed \subseteq Handlers
                  /\ run \in [Handlers -> RunRec] /\ at \in [Handlers -> Awaits]
                  /\ minting \subseteq Orgs /\ clashed \subseteq Handlers /\ broken \subseteq Handlers
  BY DEF OrgTypeOK, RunRec, Awaits, RowOf

LEMMA TheEmptyOnes ==
    NoRow \in MemRow /\ NoOrg \in OrgRow /\ NoInv \in InvRow /\ NoRun \in RunRec
  BY DEF NoRow, NoOrg, NoInv, NoRun, MemRow, OrgRow, InvRow, RunRec, Roles

\* The calls of OrgCall.
CallOf(by) == {c \in RunRec : /\ c.op \in {"create", "accept"} \cup Asking /\ c.by = by /\ c.role # "owner"
                              /\ c.op \in {"role", "remove", "transfer", "invite"} => c.target \in Users
                              /\ c.op = "accept" => c.inv \in Handlers /\ invite[c.inv] # NoInv
                              /\ c.op # "accept" => c.inv = NoOne}

FirstOf(op) == CASE op = "create" -> "find" [] op = "accept" -> "token" [] OTHER -> "lookup"

LEMMA CallsEnter ==
    ASSUME NEW h \in Handlers, NEW by \in Users, OrgCall(h, by)
    PROVE  \E c \in CallOf(by) : Enter(h, c, FirstOf(c.op))
  <1> USE DEF CallOf, NoRun, FirstOf, Asking
  <1>r. \A r \in Granted : r \in Roles /\ r # "owner"
    BY GrantedAssumption DEF Roles
  <1>1. CASE CreateOrganization(h, by)
    <2>1. PICK c \in RunRec : c = [NoRun EXCEPT !.op = "create", !.by = by]
      BY TheEmptyOnes DEF RunRec
    <2>2. c \in CallOf(by) /\ FirstOf(c.op) = "find"
      BY <2>1
    <2> QED BY <1>1, <2>1, <2>2 DEF CreateOrganization
  <1>2. ASSUME NEW i \in Handlers, invite[i] # NoInv, AcceptInvitation(h, by, i)
        PROVE  \E c \in CallOf(by) : Enter(h, c, FirstOf(c.op))
    <2>1. PICK c \in RunRec : c = [NoRun EXCEPT !.op = "accept", !.by = by, !.inv = i]
      BY TheEmptyOnes DEF RunRec
    <2>2. c \in CallOf(by) /\ FirstOf(c.op) = "token"
      BY <1>2, <2>1
    <2> QED BY <1>2, <2>1, <2>2 DEF AcceptInvitation
  <1>3. ASSUME NEW ctx, NEW op \in Asking, NEW u \in Users \cup {NoOne}, NEW r \in Granted \cup {"viewer"},
               op # "profile" => u \in Users, Guarded(h, op, by, u, r, ctx)
        PROVE  \E c \in CallOf(by) : Enter(h, c, FirstOf(c.op))
    <2>1. r \in Roles /\ r # "owner"
      BY <1>r DEF Roles
    <2>2. [NoRun EXCEPT !.op = op, !.by = by, !.target = u, !.role = r] \in RunRec
      BY <2>1, TheEmptyOnes DEF RunRec
    <2> QED BY <1>3, <2>1, <2>2 DEF Guarded
  <1> HIDE DEF CallOf, NoRun, FirstOf
  <1>4. ASSUME NEW ctx, UpdateOrganization(h, by, ctx)
        PROVE  \E c \in CallOf(by) : Enter(h, c, FirstOf(c.op))
    BY <1>3, <1>4 DEF UpdateOrganization
  <1>5. ASSUME NEW ctx, NEW u \in Users, RemoveMember(h, by, u, ctx) \/ TransferOwnership(h, by, u, ctx)
        PROVE  \E c \in CallOf(by) : Enter(h, c, FirstOf(c.op))
    BY <1>3, <1>5 DEF RemoveMember, TransferOwnership
  <1>6. ASSUME NEW ctx, NEW u \in Users, NEW r \in Granted,
               UpdateMemberRole(h, by, u, r, ctx) \/ CreateInvitation(h, by, u, r, ctx)
        PROVE  \E c \in CallOf(by) : Enter(h, c, FirstOf(c.op))
    BY <1>3, <1>6 DEF UpdateMemberRole, CreateInvitation
  <1> QED BY <1>1, <1>2, <1>4, <1>5, <1>6 DEF OrgCall


\* Writing one row of a table.
Put(t, o, u, m) == [t EXCEPT ![o][u] = m]

LEMMA RowWritten ==
    ASSUME NEW t \in RowOf, NEW o \in Orgs, NEW u \in Users, NEW m \in MemRow
    PROVE  /\ Put(t, o, u, m) \in RowOf
           /\ \A p \in Orgs, v \in Users :
                 Put(t, o, u, m)[p][v] = IF p = o /\ v = u THEN m ELSE t[p][v]
  BY DEF RowOf, Put

\* The end of a handler.
LEMMA Ended ==
    ASSUME OrgTypeOK, NEW h \in Handlers, NEW s \in {"done", "refused"}, End(h, s)
    PROVE  /\ run' \in [Handlers -> RunRec] /\ at' \in [Handlers -> Awaits] /\ at'[h] = s
           /\ run'[h].inv = (IF s = "done" THEN run[h].inv ELSE NoOne)
           /\ \A g \in Handlers \ {h} : run'[g] = run[g] /\ at'[g] = at[g]
  <1> USE TypeParts
  <1>1. PICK i \in Handlers \cup {NoOne} : i = run[h].inv
    BY DEF RunRec
  <1>2. [NoRun EXCEPT !.inv = i] \in RunRec /\ [NoRun EXCEPT !.inv = i].inv = i /\ NoRun.inv = NoOne
    BY TheEmptyOnes DEF RunRec, NoRun
  <1>3. PICK c \in RunRec : /\ c = (IF s = "done" THEN [NoRun EXCEPT !.inv = i] ELSE NoRun)
                            /\ c.inv = (IF s = "done" THEN i ELSE NoOne)
    BY <1>2, TheEmptyOnes
  <1>4. run' = [run EXCEPT ![h] = c]
    BY <1>1, <1>3 DEF End
  <1>5. at' = [at EXCEPT ![h] = s]
    BY DEF End, Go
  <1> QED BY <1>1, <1>3, <1>4, <1>5 DEF Awaits

\* A handler that goes on to another await.
LEMMA WentOn ==
    ASSUME OrgTypeOK, NEW h \in Handlers, NEW s \in Awaits, Go(h, s)
    PROVE  /\ at' \in [Handlers -> Awaits] /\ at'[h] = s
           /\ \A g \in Handlers \ {h} : at'[g] = at[g]
  BY TypeParts DEF Go


\* What a read adds to what a handler knows.
Learns(h, c) == /\ c \in RunRec /\ run' = [run EXCEPT ![h] = c] /\ UNCHANGED <<Tables, History>>
                /\ c.op = run[h].op /\ c.by = run[h].by /\ c.target = run[h].target
                /\ c.role = run[h].role /\ c.inv = run[h].inv

LEMMA LookupLearns ==
    ASSUME OrgTypeOK, NEW h \in Handlers, Lookup(h)
    PROVE  \/ End(h, "refused") /\ UNCHANGED <<Tables, History>>
           \/ /\ run[h].op \in {"role", "remove", "transfer"} => run[h].target # run[h].by
              /\ \E o \in OwnedBy(run[h].by), c \in RunRec : /\ Learns(h, c) /\ c.org = o
                                                             /\ Go(h, FirstAwait(c.op))
  <1> USE TypeParts
  <1> SUFFICES ASSUME ~End(h, "refused")
               PROVE  /\ run[h].op \in {"role", "remove", "transfer"} => run[h].target # run[h].by
                      /\ \E o \in OwnedBy(run[h].by), c \in RunRec : /\ Learns(h, c) /\ c.org = o
                                                                     /\ Go(h, FirstAwait(c.op))
    BY DEF Lookup
  <1>1. PICK o \in OwnedBy(run[h].by) : run' = [run EXCEPT ![h].org = o]
    BY DEF Lookup
  <1>2. PICK r \in RunRec : r = run[h]
    OBVIOUS
  <1>3. PICK c \in RunRec : c = [r EXCEPT !.org = o]
    BY <1>1, <1>2 DEF RunRec, OwnedBy
  <1>4. run' = [run EXCEPT ![h] = c] /\ Go(h, FirstAwait(r.op))
    BY <1>1, <1>2, <1>3 DEF Lookup
  <1>5. c.op = r.op /\ c.by = r.by /\ c.target = r.target /\ c.role = r.role /\ c.inv = r.inv /\ c.org = o
    BY <1>3 DEF RunRec
  <1>6. Learns(h, c) /\ Go(h, FirstAwait(c.op))
    BY <1>2, <1>4, <1>5 DEF Learns, Lookup
  <1>7. run[h].op \in {"role", "remove", "transfer"} => run[h].target # run[h].by
    BY DEF Lookup
  <1> QED BY <1>1, <1>5, <1>6, <1>7

LEMMA ReadOrgLearns ==
    ASSUME OrgTypeOK, NEW h \in Handlers, run[h].org \in Orgs, ReadOrg(h)
    PROVE  \/ End(h, "refused") /\ UNCHANGED <<Tables, History>>
           \/ /\ run[h].op = "transfer" => org[run[h].org].owner = run[h].by
              /\ \E c : /\ Learns(h, c) /\ c.org = run[h].org /\ c.snap = org[c.org]
                        /\ Go(h, IF c.op = "profile" THEN "save" ELSE "own")
  <1> USE TypeParts
  <1>1. PICK r \in RunRec : r = run[h]
    OBVIOUS
  <1>2. PICK m \in OrgRow : m = org[r.org]
    BY <1>1
  <1>3. PICK c \in RunRec : c = [r EXCEPT !.snap = m]
    BY DEF RunRec
  <1>4. c.op = r.op /\ c.by = r.by /\ c.target = r.target /\ c.role = r.role /\ c.inv = r.inv /\ c.org = r.org /\ c.snap = m
    BY <1>3 DEF RunRec
  <1>5. ~End(h, "refused") => /\ run' = [run EXCEPT ![h] = c] /\ Go(h, IF r.op = "profile" THEN "save" ELSE "own")
                              /\ r.op = "transfer" => m.owner = r.by
    BY <1>1, <1>2, <1>3 DEF ReadOrg
  <1>6. UNCHANGED <<Tables, History>>
    BY DEF ReadOrg
  <1> QED BY <1>1, <1>2, <1>4, <1>5, <1>6 DEF Learns

LEMMA ReadOwnLearns ==
    ASSUME OrgTypeOK, NEW h \in Handlers, run[h].org \in Orgs, run[h].by \in Users, ReadOwn(h)
    PROVE  \/ End(h, "refused") /\ UNCHANGED <<Tables, History>>
           \/ \E c : /\ Learns(h, c) /\ c.org = run[h].org /\ c.snap = run[h].snap
                     /\ c.own = row[c.org][c.by] /\ c.own.role = "owner" /\ Go(h, "target")
  <1> USE TypeParts
  <1>1. PICK r \in RunRec : r = run[h]
    OBVIOUS
  <1>2. PICK m \in MemRow : m = row[r.org][r.by]
    BY <1>1 DEF RowOf
  <1>3. PICK c \in RunRec : c = [r EXCEPT !.own = m]
    BY DEF RunRec
  <1>4. /\ c.op = r.op /\ c.by = r.by /\ c.target = r.target /\ c.role = r.role /\ c.inv = r.inv
        /\ c.org = r.org /\ c.snap = r.snap /\ c.own = m
    BY <1>3 DEF RunRec
  <1>5. ~End(h, "refused") => run' = [run EXCEPT ![h] = c] /\ Go(h, "target") /\ m.role = "owner"
    BY <1>1, <1>2, <1>3 DEF ReadOwn
  <1>6. UNCHANGED <<Tables, History>>
    BY DEF ReadOwn
  <1> QED BY <1>1, <1>2, <1>4, <1>5, <1>6 DEF Learns

LEMMA ReadTargetLearns ==
    ASSUME OrgTypeOK, NEW h \in Handlers, run[h].org \in Orgs, run[h].target \in Users, ReadTarget(h)
    PROVE  \/ End(h, "refused") /\ UNCHANGED <<Tables, History>>
           \/ \E c : /\ Learns(h, c) /\ c.org = run[h].org /\ c.snap = run[h].snap /\ c.own = run[h].own
                     /\ c.tgt = row[c.org][c.target] /\ c.tgt # NoRow
                     /\ c.op # "transfer" => c.tgt.role # "owner"
                     /\ Go(h, IF c.op = "transfer" THEN "rows" ELSE "save")
  <1> USE TypeParts
  <1>1. PICK r \in RunRec : r = run[h]
    OBVIOUS
  <1>2. PICK m \in MemRow : m = row[r.org][r.target]
    BY <1>1 DEF RowOf
  <1>3. PICK c \in RunRec : c = [r EXCEPT !.tgt = m]
    BY DEF RunRec
  <1>4. /\ c.op = r.op /\ c.by = r.by /\ c.target = r.target /\ c.role = r.role /\ c.inv = r.inv
        /\ c.org = r.org /\ c.snap = r.snap /\ c.own = r.own /\ c.tgt = m
    BY <1>3 DEF RunRec
  <1>5. ~End(h, "refused") => /\ run' = [run EXCEPT ![h] = c] /\ Go(h, IF r.op = "transfer" THEN "rows" ELSE "save")
                              /\ m # NoRow /\ (r.op # "transfer" => m.role # "owner")
    BY <1>1, <1>2, <1>3 DEF ReadTarget
  <1>6. UNCHANGED <<Tables, History>>
    BY DEF ReadTarget
  <1> QED BY <1>1, <1>2, <1>4, <1>5, <1>6 DEF Learns


\* How a handler may have changed the row of a user in an organization, the row of an
\* organization, and an invitation.
WroteRow(h, o, u) ==
    LET r == run[h] IN
    \/ /\ at[h] = "save" /\ r.op \in {"role", "remove"} /\ o = r.org /\ u = r.target
       /\ row'[o][u] = NoRow \/ row'[o][u].role = r.role
    \/ /\ at[h] = "rows" /\ o = r.org
       /\ \/ u = r.by /\ u # r.target /\ row'[o][u].role = "admin"
          \/ u = r.target /\ row'[o][u].role = "owner"
    \/ /\ at[h] = "join" /\ o = invite[r.inv].org /\ u = r.by
       /\ row[o][u] = NoRow /\ row'[o][u].role = invite[r.inv].role
    \/ at[h] = "founder" /\ o = h /\ u = r.by /\ row'[o][u].role = "owner"

WroteOrg(h, o) ==
    LET r == run[h] IN
    \/ at[h] = "save" /\ r.op = "profile" /\ o = r.org /\ org'[o] = r.snap
    \/ at[h] = "owner" /\ o = r.org /\ org'[o] = [owner |-> r.target, named |-> r.snap.named]
    \/ at[h] = "saveOrg" /\ o = h /\ org'[o] = [owner |-> r.by, named |-> FALSE]

WroteInvite(h, i) ==
    LET r == run[h] IN
    \/ /\ at[h] = "insert" /\ i = h
       /\ invite'[i].org = r.org /\ invite'[i].role = r.role /\ invite'[i].status = "pending"
    \/ /\ at[h] \in {"mark", "expire"} /\ i = r.inv
       /\ invite'[i].org = invite[i].org /\ invite'[i].role = invite[i].role
       /\ invite'[i].status = IF at[h] = "mark" THEN "accepted" ELSE "expired"

\* RowWritten again, for instances with a row named by a PICK.
LEMMA RowPut ==
    \A t \in RowOf, o \in Orgs, u \in Users, m \in MemRow, p \in Orgs, v \in Users :
       Put(t, o, u, m)[p][v] = IF p = o /\ v = u THEN m ELSE t[p][v]
  BY RowWritten

LEMMA RowMoves ==
    ASSUME OrgTypeOK, FoundedInv, NEW h \in Handlers, CalledAs(h), OrgStep(h)
    PROVE  row' \in RowOf /\ \A o \in Orgs, u \in Users : row'[o][u] = row[o][u] \/ WroteRow(h, o, u)
  <1> DEFINE Moves == row' \in RowOf /\ \A o \in Orgs, u \in Users : row'[o][u] = row[o][u] \/ WroteRow(h, o, u)
  <1> USE TypeParts
  <1>r. PICK r \in RunRec : r = run[h]
    OBVIOUS
  <1>m. r.role \in Roles /\ r.tgt \in MemRow /\ r.own \in MemRow
    BY DEF RunRec
  <1>1. CASE SaveMember(h)
    <2>1. r.org \in Orgs /\ r.target \in Users
      BY <1>1, <1>r DEF SaveMember, CalledAs, Asking
    <2>2. PICK m \in MemRow : m = [r.tgt EXCEPT !.role = r.role]
      BY <1>m DEF MemRow
    <2>3. m.role = r.role
      BY <1>m, <2>2 DEF MemRow
    <2>4. \E n \in {NoRow, m} : row' \in {row, Put(row, r.org, r.target, n)}
      BY <1>1, <1>r, <2>2 DEF SaveMember, Put
    <2>5. PICK n \in {NoRow, m} : row' \in {row, Put(row, r.org, r.target, n)}
      BY <2>4
    <2>6. /\ row' \in RowOf
          /\ \A o \in Orgs, u \in Users :
                row'[o][u] = row[o][u] \/ (o = r.org /\ u = r.target /\ row'[o][u] = n)
      <3>1. n \in MemRow
        BY <2>2, <2>5, TheEmptyOnes
      <3>2. Put(row, r.org, r.target, n) \in RowOf
        BY <2>1, <3>1, RowWritten
      <3>3. \A o \in Orgs, u \in Users :
               Put(row, r.org, r.target, n)[o][u] = IF o = r.org /\ u = r.target THEN n ELSE row[o][u]
        BY <2>1, <3>1, RowWritten
      <3> QED BY <2>5, <3>2, <3>3
    <2>7. at[h] = "save" /\ r.op \in {"role", "remove"}
      BY <1>1, <1>r DEF SaveMember
    <2>8. n = NoRow \/ n.role = r.role
      BY <2>3, <2>5
    <2>9. \A o \in Orgs, u \in Users : o = r.org /\ u = r.target /\ row'[o][u] = n => WroteRow(h, o, u)
      BY <1>r, <2>7, <2>8 DEF WroteRow
    <2> QED BY <2>6, <2>9
  <1>2. CASE SwapRoles(h)
    <2>1. r.org \in Orgs /\ r.target \in Users /\ r.by \in Users
      BY <1>2, <1>r DEF SwapRoles, CalledAs, Asking, OpsAt
    <2>2. PICK m \in MemRow : m = [r.own EXCEPT !.role = "admin"]
      BY <1>m DEF MemRow, Roles
    <2>3. PICK n \in MemRow : n = [r.tgt EXCEPT !.role = "owner"]
      BY <1>m DEF MemRow, Roles
    <2>4. m.role = "admin" /\ n.role = "owner"
      BY <1>m, <2>2, <2>3 DEF MemRow
    <2>5. PICK t \in RowOf : t = Put(row, r.org, r.by, m)
      BY <2>1, RowWritten
    <2>6. row' \in {row, Put(t, r.org, r.target, n)}
      BY <1>2, <1>r, <2>2, <2>3, <2>5 DEF SwapRoles, Put
    <2>7. /\ row' \in RowOf
          /\ \A o \in Orgs, u \in Users :
                \/ row'[o][u] = row[o][u]
                \/ o = r.org /\ u = r.target /\ row'[o][u] = n
                \/ o = r.org /\ u = r.by /\ u # r.target /\ row'[o][u] = m
      <3>1. \A o \in Orgs, u \in Users : t[o][u] = IF o = r.org /\ u = r.by THEN m ELSE row[o][u]
        BY <2>1, <2>5, RowPut
      <3>2. Put(t, r.org, r.target, n) \in RowOf
        BY <2>1, RowWritten
      <3>3. \A o \in Orgs, u \in Users :
               Put(t, r.org, r.target, n)[o][u] = IF o = r.org /\ u = r.target THEN n ELSE t[o][u]
        BY <2>1, RowPut
      <3> QED BY <2>6, <3>1, <3>2, <3>3
    <2>8. at[h] = "rows"
      BY <1>2 DEF SwapRoles
    <2>9. ASSUME NEW o \in Orgs, NEW u \in Users,
                 \/ o = r.org /\ u = r.target /\ row'[o][u] = n
                 \/ o = r.org /\ u = r.by /\ u # r.target /\ row'[o][u] = m
          PROVE  WroteRow(h, o, u)
      BY <1>r, <2>4, <2>8, <2>9 DEF WroteRow
    <2> QED BY <2>7, <2>9
  <1>3. CASE Join(h)
    <2>1. PICK i \in Handlers : i = r.inv
      BY <1>3, <1>r DEF Join, CalledAs, OpsAt
    <2>2. invite[i].org \in Orgs /\ r.by \in Users
      BY <1>3, <1>r, <2>1 DEF Join, CalledAs, OpsAt, FoundedInv
    <2>3. PICK m \in MemRow : m = [role |-> invite[i].role, id |-> h]
      BY <2>1 DEF InvRow, MemRow, Orgs
    <2>4. \/ row' = row
          \/ row[invite[i].org][r.by] = NoRow /\ row' = Put(row, invite[i].org, r.by, m)
      BY <1>3, <1>r, <2>1, <2>3 DEF Join, Put
    <2>5. /\ row' \in RowOf
          /\ \A o \in Orgs, u \in Users :
                \/ row'[o][u] = row[o][u]
                \/ o = invite[i].org /\ u = r.by /\ row[o][u] = NoRow /\ row'[o][u] = m
      BY <2>2, <2>4, RowWritten
    <2> QED BY <1>3, <1>r, <2>1, <2>3, <2>5 DEF Join, WroteRow
  <1>4. CASE InsertFounder(h)
    <2>1. r.by \in Users /\ h \in Orgs
      BY <1>4, <1>r DEF InsertFounder, CalledAs, Orgs
    <2>2. PICK m \in MemRow : m = [role |-> "owner", id |-> h]
      BY DEF MemRow, Roles, Orgs
    <2>3. row' = Put(row, h, r.by, m)
      BY <1>4, <1>r, <2>2 DEF InsertFounder, Put
    <2>4. /\ row' \in RowOf
          /\ \A o \in Orgs, u \in Users : row'[o][u] = row[o][u] \/ (o = h /\ u = r.by /\ row'[o][u] = m)
      BY <2>1, <2>3, RowWritten
    <2> QED BY <1>4, <1>r, <2>2, <2>4 DEF InsertFounder, WroteRow
  <1>5. CASE row' = row
    BY <1>5
  <1> QED BY <1>1, <1>2, <1>3, <1>4, <1>5 DEF OrgStep, Lookup, ReadOrg, ReadOwn, ReadTarget, SaveProfile, SaveOwner,
             FindInvitee, FindPending, InsertInvitation, ReadToken, FindMember, MarkInvitation, FindOwned,
             CreateAccount, InsertOrg, Break, Tables

LEMMA OrgMoves ==
    ASSUME OrgTypeOK, NEW h \in Handlers, CalledAs(h), OrgStep(h)
    PROVE  org' \in [Orgs -> OrgRow] /\ \A o \in Orgs : org'[o] = org[o] \/ WroteOrg(h, o)
  <1> USE TypeParts
  <1>r. PICK r \in RunRec : r = run[h]
    OBVIOUS
  <1>m. r.snap \in OrgRow
    BY DEF RunRec
  <1>1. CASE SaveProfile(h)
    BY <1>1, <1>r, <1>m DEF SaveProfile, WroteOrg
  <1>2. CASE SaveOwner(h)
    <2>1. r.target \in Users
      BY <1>2, <1>r DEF SaveOwner, CalledAs, OpsAt
    <2>2. PICK m \in OrgRow : m = [owner |-> r.target, named |-> r.snap.named]
      BY <1>m, <2>1 DEF OrgRow
    <2>3. m = [r.snap EXCEPT !.owner = r.target]
      BY <1>m, <2>2 DEF OrgRow
    <2>4. org' = [org EXCEPT ![r.org] = m]
      BY <1>2, <1>r, <2>3 DEF SaveOwner
    <2>5. at[h] = "owner"
      BY <1>2 DEF SaveOwner
    <2>6. ASSUME NEW o \in Orgs, o = r.org, org'[o] = m PROVE WroteOrg(h, o)
      BY <1>r, <2>2, <2>5, <2>6 DEF WroteOrg
    <2> QED BY <2>2, <2>4, <2>6
  <1>3. CASE InsertOrg(h)
    <2>1. PICK m \in OrgRow : m = [owner |-> r.by, named |-> FALSE]
      BY <1>r DEF OrgRow, RunRec
    <2>2. org' = [org EXCEPT ![h] = m]
      BY <1>3, <1>r, <2>1 DEF InsertOrg
    <2> QED BY <1>3, <1>r, <2>1, <2>2 DEF InsertOrg, WroteOrg
  <1>4. CASE org' = org
    BY <1>4
  <1> QED BY <1>1, <1>2, <1>3, <1>4 DEF OrgStep, Lookup, ReadOrg, ReadOwn, ReadTarget, SaveMember, SwapRoles,
             FindInvitee, FindPending, InsertInvitation, ReadToken, FindMember, Join, MarkInvitation, FindOwned,
             CreateAccount, InsertFounder, Break, Tables

LEMMA InvitesMove ==
    ASSUME OrgTypeOK, NEW h \in Handlers, CalledAs(h), OrgStep(h)
    PROVE  invite' \in [Handlers -> InvRow] /\ \A i \in Handlers : invite'[i] = invite[i] \/ WroteInvite(h, i)
  <1> USE TypeParts
  <1>r. PICK r \in RunRec : r = run[h]
    OBVIOUS
  <1>1. CASE InsertInvitation(h)
    <2>1. PICK m \in InvRow : m = [org |-> r.org, email |-> r.target, role |-> r.role, status |-> "pending"]
      BY DEF InvRow, RunRec
    <2>2. invite' = [invite EXCEPT ![h] = m]
      BY <1>1, <1>r, <2>1 DEF InsertInvitation
    <2> QED BY <1>1, <1>r, <2>1, <2>2 DEF InsertInvitation, WroteInvite
  <1>2. CASE MarkInvitation(h)
    <2>1. PICK i \in Handlers : i = r.inv
      BY <1>2, <1>r DEF MarkInvitation, CalledAs, OpsAt
    <2>2. PICK m \in InvRow : m = invite[i]
      OBVIOUS
    <2>3. PICK t \in {"accepted", "expired"} : t = IF at[h] = "mark" THEN "accepted" ELSE "expired"
      OBVIOUS
    <2>4. PICK n \in InvRow : n = [m EXCEPT !.status = t]
      BY DEF InvRow
    <2>5. n.org = m.org /\ n.role = m.role /\ n.status = t
      BY <2>4 DEF InvRow
    <2>6. invite' = [invite EXCEPT ![i] = n]
      BY <1>2, <1>r, <2>1, <2>2, <2>3, <2>4 DEF MarkInvitation
    <2> QED BY <1>2, <1>r, <2>1, <2>2, <2>3, <2>5, <2>6 DEF MarkInvitation, WroteInvite
  <1>3. CASE invite' = invite
    BY <1>3
  <1> QED BY <1>1, <1>2, <1>3 DEF OrgStep, Lookup, ReadOrg, ReadOwn, ReadTarget, SaveMember, SaveProfile, SwapRoles,
             SaveOwner, FindInvitee, FindPending, ReadToken, FindMember, Join, FindOwned,
             CreateAccount, InsertOrg, InsertFounder, Break, Tables


\* The awaits that follow one another without anything being read into the handler.
Follows == {<<"rows", "owner">>, <<"find", "pending">>, <<"find", "account">>, <<"pending", "insert">>,
            <<"token", "expire">>, <<"token", "member">>, <<"member", "join">>, <<"join", "mark">>,
            <<"account", "saveOrg">>, <<"saveOrg", "founder">>}

\* A step of a handler ends it, takes it to the next await, or teaches it something.
GoesTo(h, s) == Go(h, s) /\ UNCHANGED run /\ <<at[h], s>> \in Follows
                /\ (at[h] = "find" => (s = "account") = (run[h].op = "create"))

LEMMA StepKinds ==
    ASSUME NEW h \in Handlers, CalledAs(h), OrgStep(h)
    PROVE  \/ \E s \in {"done", "refused"} : End(h, s)
           \/ \E s : GoesTo(h, s)
           \/ Lookup(h) \/ ReadOrg(h) \/ ReadOwn(h) \/ ReadTarget(h)
  <1>1. CASE SaveMember(h) \/ SaveProfile(h) \/ SaveOwner(h) \/ InsertInvitation(h) \/ MarkInvitation(h)
             \/ InsertFounder(h) \/ Break(h)
    BY <1>1 DEF SaveMember, SaveProfile, SaveOwner, InsertInvitation, MarkInvitation, InsertFounder, Break
  <1>2. CASE SwapRoles(h) \/ Join(h) \/ CreateAccount(h) \/ InsertOrg(h)
    BY <1>2 DEF SwapRoles, Join, CreateAccount, InsertOrg, GoesTo, Follows
  <1>3. CASE FindInvitee(h) \/ FindPending(h) \/ FindOwned(h)
    BY <1>3 DEF FindInvitee, FindPending, FindOwned, GoesTo, Follows
  <1>4. CASE ReadToken(h) \/ FindMember(h)
    BY <1>4 DEF ReadToken, FindMember, GoesTo, Follows
  <1> QED BY <1>1, <1>2, <1>3, <1>4 DEF OrgStep

\* What else a step leaves alone.
LEMMA StepAlone ==
    ASSUME OrgTypeOK, NEW h \in Handlers, OrgStep(h)
    PROVE  /\ h \in Active /\ UNCHANGED <<lapsed, clashed>>
           /\ broken' \subseteq Handlers /\ broken \subseteq broken' /\ minting' \subseteq Orgs
  <1> USE TypeParts DEF Tables, History, Active, Reads, Writes, Orgs
  <1>1. CASE Lookup(h) \/ ReadOrg(h) \/ ReadOwn(h) \/ ReadTarget(h)
    BY <1>1 DEF Lookup, ReadOrg, ReadOwn, ReadTarget
  <1>2. CASE SaveMember(h) \/ SaveProfile(h) \/ SwapRoles(h) \/ SaveOwner(h)
    BY <1>2 DEF SaveMember, SaveProfile, SwapRoles, SaveOwner
  <1>3. CASE FindInvitee(h) \/ FindPending(h) \/ InsertInvitation(h)
    BY <1>3 DEF FindInvitee, FindPending, InsertInvitation
  <1>4. CASE ReadToken(h) \/ FindMember(h) \/ Join(h) \/ MarkInvitation(h)
    BY <1>4 DEF ReadToken, FindMember, Join, MarkInvitation
  <1>5. CASE FindOwned(h) \/ CreateAccount(h) \/ InsertOrg(h) \/ InsertFounder(h) \/ Break(h)
    BY <1>5 DEF FindOwned, CreateAccount, InsertOrg, InsertFounder, Break
  <1> QED BY <1>1, <1>2, <1>3, <1>4, <1>5 DEF OrgStep

Keeps(h) == /\ run'[h].op = run[h].op /\ run'[h].by = run[h].by /\ run'[h].target = run[h].target
            /\ run'[h].role = run[h].role /\ run'[h].inv = run[h].inv

Ends(h) == /\ at'[h] \in {"done", "refused"}
           /\ run'[h].inv = (IF at'[h] = "done" THEN run[h].inv ELSE NoOne)

LEMMA RunMoves ==
    ASSUME OrgTypeOK, NEW h \in Handlers, CalledAs(h), OrgStep(h)
    PROVE  /\ run' \in [Handlers -> RunRec] /\ at' \in [Handlers -> Awaits] /\ at'[h] # at[h]
           /\ \A g \in Handlers \ {h} : run'[g] = run[g] /\ at'[g] = at[g]
           /\ Ends(h) \/ (at'[h] \in Reads \cup Writes /\ Keeps(h))
  <1> USE TypeParts
  <1>0. at[h] \in Reads \cup Writes
    BY StepAlone DEF Active
  <1> DEFINE Moves == /\ run' \in [Handlers -> RunRec] /\ at' \in [Handlers -> Awaits] /\ at'[h] # at[h]
                      /\ \A g \in Handlers \ {h} : run'[g] = run[g] /\ at'[g] = at[g]
                      /\ Ends(h) \/ (at'[h] \in Reads \cup Writes /\ Keeps(h))
  <1>1. ASSUME NEW s \in {"done", "refused"}, End(h, s) PROVE Moves
    BY <1>0, <1>1, Ended DEF Ends, Reads, Writes
  <1>2. ASSUME NEW s, GoesTo(h, s) PROVE Moves
    <2>1. s \in Awaits /\ s \in Reads \cup Writes /\ s # at[h]
      BY <1>2 DEF GoesTo, Follows, Awaits, Reads, Writes
    <2> QED BY <1>2, <2>1, WentOn DEF GoesTo, Keeps
  <1>3. ASSUME NEW c, NEW s, Learns(h, c), Go(h, s), s \in Reads \cup Writes, s # at[h] PROVE Moves
    <2>1. s \in Awaits
      BY <1>3 DEF Awaits
    <2>2. /\ run' \in [Handlers -> RunRec] /\ \A g \in Handlers \ {h} : run'[g] = run[g]
          /\ Keeps(h)
      BY <1>3 DEF Learns, Keeps
    <2> QED BY <1>3, <2>1, <2>2, WentOn
  <1>4. ASSUME Lookup(h) PROVE Moves
    <2>1. run[h].op \in Asking /\ at[h] = "lookup"
      BY <1>4 DEF Lookup, CalledAs, OpsAt
    <2>2. FirstAwait(run[h].op) \in Reads \cup Writes /\ FirstAwait(run[h].op) # "lookup"
      BY <2>1 DEF FirstAwait, Asking, Reads
    <2> QED BY <1>1, <1>3, <1>4, <2>1, <2>2, LookupLearns DEF Learns
  <1>5. ASSUME ReadOrg(h) PROVE Moves
    <2>1. run[h].org \in Orgs /\ at[h] = "org"
      BY <1>5 DEF ReadOrg, CalledAs, OpsAt, Asking
    <2> QED BY <1>1, <1>3, <1>5, <2>1, ReadOrgLearns DEF Reads, Writes
  <1>6. ASSUME ReadOwn(h) PROVE Moves
    <2>1. run[h].org \in Orgs /\ run[h].by \in Users /\ at[h] = "own"
      BY <1>6 DEF ReadOwn, CalledAs, OpsAt, Asking
    <2> QED BY <1>1, <1>3, <1>6, <2>1, ReadOwnLearns DEF Reads, Writes
  <1>7. ASSUME ReadTarget(h) PROVE Moves
    <2>1. run[h].org \in Orgs /\ run[h].target \in Users /\ at[h] = "target"
      BY <1>7 DEF ReadTarget, CalledAs, OpsAt, Asking
    <2> QED BY <1>1, <1>3, <1>7, <2>1, ReadTargetLearns DEF Reads, Writes
  <1> HIDE DEF Moves
  <1>8. Moves
    BY <1>1, <1>2, <1>4, <1>5, <1>6, <1>7, StepKinds
  <1> QED BY <1>8 DEF Moves


(* The other steps: a handler enters, an invitation lapses, a mint ends *)

Enters(h, c) == \E by \in Users : c \in CallOf(by) /\ Enter(h, c, FirstOf(c.op))

LEMMA NextKinds ==
    ASSUME [OrgNext]_ovars
    PROVE  \/ \E h \in Handlers : OrgStep(h)
           \/ \E h \in Handlers, c \in RunRec : Enters(h, c)
           \/ \E i \in Handlers : Lapse(i)
           \/ \E o \in Orgs : Minted(o)
           \/ UNCHANGED ovars
  <1>1. ASSUME NEW h \in Handlers, NEW by \in Users, OrgCall(h, by) PROVE \E c \in RunRec : Enters(h, c)
    BY <1>1, CallsEnter DEF Enters, CallOf
  <1> QED BY <1>1 DEF OrgNext

LEMMA Entered ==
    ASSUME OrgTypeOK, NEW h \in Handlers, NEW c \in RunRec, Enters(h, c)
    PROVE  /\ run' \in [Handlers -> RunRec] /\ at' \in [Handlers -> Awaits]
           /\ at[h] = "idle" /\ run'[h] = c /\ at'[h] = FirstOf(c.op) /\ at'[h] \in {"find", "token", "lookup"}
           /\ \A g \in Handlers \ {h} : run'[g] = run[g] /\ at'[g] = at[g]
           /\ UNCHANGED <<Tables, broken>> /\ clashed' \subseteq Handlers /\ clashed \subseteq clashed'
           /\ Active # {} => Active \cup {h} \subseteq clashed'
  <1> USE TypeParts
  <1>1. FirstOf(c.op) \in Awaits /\ FirstOf(c.op) \in {"find", "token", "lookup"}
    BY DEF FirstOf, Awaits, Reads
  <1>2. at[h] = "idle" /\ run' = [run EXCEPT ![h] = c] /\ at' = [at EXCEPT ![h] = FirstOf(c.op)]
    BY DEF Enters, Enter, Go
  <1>3. /\ UNCHANGED <<Tables, broken>> /\ clashed' \subseteq Handlers /\ clashed \subseteq clashed'
        /\ Active # {} => Active \cup {h} \subseteq clashed'
    BY DEF Enters, Enter, Active
  <1> QED BY <1>1, <1>2, <1>3

LEMMA MintEnds ==
    ASSUME OrgTypeOK, NEW o \in Orgs, Minted(o)
    PROVE  /\ org' \in [Orgs -> OrgRow] /\ minting' \subseteq Orgs
           /\ \A p \in Orgs : org'[p].owner = org[p].owner /\ (org[p].named => org'[p].named)
           /\ clashed' = clashed \cup Active /\ clashed' \subseteq Handlers
           /\ UNCHANGED <<row, invite, lapsed, run, at, broken>>
  <1> USE TypeParts
  <1>1. PICK m \in OrgRow : m = org[o]
    OBVIOUS
  <1>2. PICK n \in OrgRow : n = [m EXCEPT !.named = TRUE]
    BY DEF OrgRow
  <1>3. n.owner = m.owner /\ n.named = TRUE
    BY <1>2 DEF OrgRow
  <1>4. org' \in {org, [org EXCEPT ![o] = n]}
    BY <1>1, <1>2 DEF Minted
  <1> QED BY <1>1, <1>3, <1>4 DEF Minted, Active

LEMMA OrgTypeStep ==
    ASSUME OrgTypeOK, CallInv, FoundedInv, [OrgNext]_ovars
    PROVE  OrgTypeOK'
  <1> USE TypeParts
  <1> SUFFICES /\ org' \in [Orgs -> OrgRow] /\ row' \in RowOf
               /\ invite' \in [Handlers -> InvRow] /\ lapsed' \subseteq Handlers
               /\ run' \in [Handlers -> RunRec] /\ at' \in [Handlers -> Awaits]
               /\ minting' \subseteq Orgs /\ clashed' \subseteq Handlers /\ broken' \subseteq Handlers
    BY DEF OrgTypeOK, RunRec, Awaits, RowOf
  <1>1. ASSUME NEW h \in Handlers, OrgStep(h)
        PROVE  /\ org' \in [Orgs -> OrgRow] /\ row' \in RowOf
               /\ invite' \in [Handlers -> InvRow] /\ lapsed' \subseteq Handlers
               /\ run' \in [Handlers -> RunRec] /\ at' \in [Handlers -> Awaits]
               /\ minting' \subseteq Orgs /\ clashed' \subseteq Handlers /\ broken' \subseteq Handlers
    <2>1. CalledAs(h)
      BY <1>1, StepAlone DEF CallInv
    <2> QED BY <1>1, <2>1, StepAlone, RunMoves, RowMoves, OrgMoves, InvitesMove
  <1>2. CASE \E h \in Handlers, c \in RunRec : Enters(h, c)
    BY <1>2, Entered DEF Tables
  <1>3. CASE \E i \in Handlers : Lapse(i)
    BY <1>3 DEF Lapse, History
  <1>4. CASE \E o \in Orgs : Minted(o)
    BY <1>4, MintEnds
  <1>5. CASE UNCHANGED ovars
    BY <1>5 DEF ovars
  <1> QED BY <1>1, <1>2, <1>3, <1>4, <1>5, NextKinds

\* Organizations and invitations stay, and an invitation stays one to the same organization.
LEMMA Lasting ==
    ASSUME OrgTypeOK, CallInv, FoundedInv, [OrgNext]_ovars
    PROVE  /\ \A o \in Orgs : Exists(o) => Exists(o)'
           /\ \A i \in Handlers : invite[i].status # "none" =>
                 invite'[i].status # "none" /\ invite'[i].org = invite[i].org /\ invite'[i].role = invite[i].role
  <1> DEFINE Lasts == /\ \A o \in Orgs : Exists(o) => Exists(o)'
                      /\ \A i \in Handlers : invite[i].status # "none" =>
                            invite'[i].status # "none" /\ invite'[i].org = invite[i].org /\ invite'[i].role = invite[i].role
  <1> USE TypeParts DEF Exists
  <1>1. ASSUME NEW h \in Handlers, OrgStep(h) PROVE Lasts
    <2>1. CalledAs(h) /\ h \in Active
      BY <1>1, StepAlone DEF CallInv
    <2>2. invite[h].status = "none"
      BY <2>1 DEF FoundedInv, Active, Reads, Writes
    <2>3. ASSUME NEW o \in Orgs, WroteOrg(h, o) PROVE Exists(o)'
      BY <2>1, <2>3, NoOneAssumption DEF WroteOrg, CalledAs, OpsAt
    <2>4. ASSUME NEW i \in Handlers, invite[i].status # "none", WroteInvite(h, i)
          PROVE  invite'[i].status # "none" /\ invite'[i].org = invite[i].org /\ invite'[i].role = invite[i].role
      BY <2>2, <2>4 DEF WroteInvite
    <2> QED BY <1>1, <2>1, <2>3, <2>4, OrgMoves, InvitesMove
  <1>2. CASE \E h \in Handlers, c \in RunRec : Enters(h, c)
    BY <1>2, Entered DEF Tables
  <1>3. CASE \E i \in Handlers : Lapse(i)
    BY <1>3 DEF Lapse, History
  <1>4. CASE \E o \in Orgs : Minted(o)
    BY <1>4, MintEnds
  <1>5. CASE UNCHANGED ovars
    BY <1>5 DEF ovars
  <1> QED BY <1>1, <1>2, <1>3, <1>4, <1>5, NextKinds


\* A handler keeps what it was called with while others step.
LEMMA CalledStays ==
    ASSUME OrgTypeOK, CallInv, FoundedInv, [OrgNext]_ovars, NEW g \in Active, run'[g] = run[g], at'[g] = at[g]
    PROVE  CalledAs(g)'
  <1>1. CalledAs(g)
    BY DEF CallInv
  <1>2. \A o \in Orgs : Exists(o) => Exists(o)'
    BY Lasting
  <1>3. \A i \in Handlers : invite[i].status # "none" => invite'[i].status # "none"
    BY Lasting
  <1> QED BY <1>1, <1>2, <1>3 DEF CalledAs

LEMMA CallStep ==
    ASSUME OrgTypeOK, CallInv, FoundedInv, [OrgNext]_ovars
    PROVE  CallInv'
  <1> USE TypeParts
  <1> SUFFICES ASSUME NEW g \in Handlers, at'[g] \in Reads \cup Writes PROVE CalledAs(g)'
    BY DEF CallInv, Active
  <1>1. ASSUME NEW h \in Handlers, OrgStep(h) PROVE CalledAs(g)'
    <2>1. CalledAs(h) /\ h \in Active
      BY <1>1, StepAlone DEF CallInv
    <2>2. CASE g # h
      <3>1. run'[g] = run[g] /\ at'[g] = at[g]
        BY <1>1, <2>1, <2>2, RunMoves
      <3> QED BY <3>1, CalledStays DEF Active
    <2> SUFFICES ASSUME g = h PROVE CalledAs(h)'
      BY <2>2
    <2>3. /\ run'[h] \in RunRec /\ Keeps(h)
          /\ ~\E s \in {"done", "refused"} : End(h, s)
      <3>1. ~Ends(h)
        BY DEF Ends, Reads, Writes
      <3>2. ~\E s \in {"done", "refused"} : End(h, s)
        BY <2>1, Ended DEF Reads, Writes
      <3> QED BY <1>1, <2>1, <3>1, <3>2, RunMoves
    <2>4. \A i \in Handlers : invite[i].status # "none" => invite'[i].status # "none"
      BY Lasting
    <2>5. \A o \in Orgs : Exists(o) => Exists(o)'
      BY Lasting
    <2>6. ASSUME NEW s, GoesTo(h, s) PROVE CalledAs(h)'
      <3>1. run' = run /\ at'[h] = s /\ <<at[h], s>> \in Follows
            /\ (at[h] = "find" => (s = "account") = (run[h].op = "create"))
        BY <2>6 DEF GoesTo, Go
      <3> QED BY <2>1, <2>4, <2>5, <3>1 DEF CalledAs, OpsAt, Asking, Follows
    <2>7. CASE Lookup(h)
      <3>1. PICK o \in OwnedBy(run[h].by), c \in RunRec : /\ Learns(h, c) /\ c.org = o
                                                          /\ Go(h, FirstAwait(c.op))
                                                          /\ run[h].op \in {"role", "remove", "transfer"} => run[h].target # run[h].by
        BY <2>3, <2>7, LookupLearns
      <3>2. /\ at'[h] = FirstAwait(run[h].op) /\ run'[h] = c /\ run[h].op \in Asking /\ o \in Orgs /\ Exists(o)'
        BY <2>1, <2>5, <2>7, <3>1, NoOneAssumption DEF Learns, Go, Lookup, CalledAs, OpsAt, OwnedBy, Exists
      <3> QED BY <2>1, <2>3, <2>4, <3>1, <3>2 DEF CalledAs, OpsAt, Asking, Keeps, FirstAwait
    <2>8. CASE ReadOrg(h)
      <3>1. run[h].org \in Orgs /\ Exists(run[h].org) /\ run[h].op \in {"profile", "transfer"} /\ at[h] = "org"
        BY <2>1, <2>8 DEF ReadOrg, CalledAs, OpsAt, Asking
      <3>2. PICK c : /\ Learns(h, c) /\ c.org = run[h].org /\ c.snap = org[c.org]
                     /\ Go(h, IF c.op = "profile" THEN "save" ELSE "own")
        BY <2>3, <2>8, <3>1, ReadOrgLearns
      <3>3. run'[h] = c /\ at'[h] = (IF run[h].op = "profile" THEN "save" ELSE "own")
        BY <3>2 DEF Learns, Go
      <3>4. c.snap.owner \in Users
        BY <3>1, <3>2 DEF Exists, OrgRow
      <3> QED BY <2>1, <2>3, <2>4, <2>5, <3>1, <3>2, <3>3, <3>4 DEF CalledAs, OpsAt, Asking, Keeps
    <2>9. CASE ReadOwn(h)
      <3>1. run[h].org \in Orgs /\ run[h].by \in Users /\ run[h].op = "transfer" /\ at[h] = "own"
            /\ run[h].snap.owner \in Users
        BY <2>1, <2>9 DEF ReadOwn, CalledAs, OpsAt, Asking
      <3>2. PICK c : Learns(h, c) /\ c.org = run[h].org /\ c.snap = run[h].snap /\ Go(h, "target")
        BY <2>3, <2>9, <3>1, ReadOwnLearns
      <3>3. run'[h] = c /\ at'[h] = "target"
        BY <3>2 DEF Learns, Go
      <3> QED BY <2>1, <2>3, <2>4, <2>5, <3>1, <3>2, <3>3 DEF CalledAs, OpsAt, Asking, Keeps
    <2>10. CASE ReadTarget(h)
      <3>1. run[h].org \in Orgs /\ run[h].target \in Users /\ run[h].op \in {"role", "remove", "transfer"} /\ at[h] = "target"
        BY <2>1, <2>10 DEF ReadTarget, CalledAs, OpsAt, Asking
      <3>2. PICK c : /\ Learns(h, c) /\ c.org = run[h].org /\ c.snap = run[h].snap
                     /\ Go(h, IF c.op = "transfer" THEN "rows" ELSE "save")
        BY <2>3, <2>10, <3>1, ReadTargetLearns
      <3>3. run'[h] = c /\ at'[h] = (IF run[h].op = "transfer" THEN "rows" ELSE "save")
        BY <3>2 DEF Learns, Go
      <3> QED BY <2>1, <2>3, <2>4, <2>5, <3>1, <3>2, <3>3 DEF CalledAs, OpsAt, Asking, Keeps
    <2> QED BY <1>1, <2>1, <2>3, <2>6, <2>7, <2>8, <2>9, <2>10, StepKinds
  <1>2. ASSUME NEW h \in Handlers, NEW c \in RunRec, Enters(h, c) PROVE CalledAs(g)'
    <2>1. CASE g # h
      BY <1>2, <2>1, Entered, CalledStays DEF Active
    <2>2. CASE g = h
      <3>1. PICK by \in Users : c \in CallOf(by)
        BY <1>2 DEF Enters
      <3>2. run'[h] = c /\ at'[h] = FirstOf(c.op) /\ invite' = invite
        BY <1>2, Entered DEF Tables
      <3>3. c.inv \in Handlers /\ invite[c.inv] # NoInv => invite'[c.inv].status # "none"
        BY <3>2 DEF FoundedInv
      <3> QED BY <2>2, <3>1, <3>2, <3>3 DEF CalledAs, CallOf, FirstOf, OpsAt, Asking
    <2> QED BY <2>1, <2>2
  <1>3. CASE (\E i \in Handlers : Lapse(i)) \/ (\E o \in Orgs : Minted(o)) \/ UNCHANGED ovars
    <2>1. run' = run /\ at' = at
      BY <1>3 DEF Lapse, Minted, ovars
    <2> QED BY <2>1, CalledStays DEF Active
  <1> QED BY <1>1, <1>2, <1>3, NextKinds


\* The writes of a handler, by the await it has reached.
LEMMA StepAt ==
    ASSUME NEW h \in Handlers, CalledAs(h), OrgStep(h)
    PROVE  /\ at[h] = "saveOrg" => InsertOrg(h) \/ Break(h)
           /\ at[h] = "founder" => InsertFounder(h) \/ Break(h)
           /\ at[h] = "rows" => SwapRoles(h) \/ Break(h)
           /\ at[h] = "owner" => SaveOwner(h) \/ Break(h)
           /\ at[h] = "insert" => InsertInvitation(h) \/ Break(h)
           /\ at[h] \in {"mark", "expire"} => MarkInvitation(h) \/ Break(h)
           /\ at[h] = "token" => ReadToken(h)
           /\ at[h] = "member" => FindMember(h)
           /\ at[h] = "join" => Join(h) \/ Break(h)
           /\ at[h] = "find" /\ run[h].op = "create" => FindOwned(h)
  BY DEF OrgStep, CalledAs, OpsAt, Lookup, ReadOrg, ReadOwn, ReadTarget, SaveMember, SaveProfile, SwapRoles, SaveOwner,
         FindInvitee, FindPending, InsertInvitation, ReadToken, FindMember, Join, MarkInvitation, FindOwned,
         CreateAccount, InsertOrg, InsertFounder, Break, Writes

\* The awaits from which one is reached.
LEMMA CameFrom ==
    ASSUME OrgTypeOK, NEW h \in Handlers, CalledAs(h), OrgStep(h)
    PROVE  /\ at'[h] = "founder" => at[h] = "saveOrg"
           /\ at'[h] = "saveOrg" => at[h] = "account"
           /\ at'[h] = "account" => at[h] = "find" /\ run[h].op = "create"
           /\ at'[h] = "owner" => at[h] = "rows"
           /\ at'[h] = "join" => at[h] = "member"
           /\ at'[h] = "mark" => at[h] = "join"
           /\ at'[h] \in {"member", "expire"} => at[h] = "token"
  <1> DEFINE Came == /\ at'[h] = "founder" => at[h] = "saveOrg"
                     /\ at'[h] = "saveOrg" => at[h] = "account"
                     /\ at'[h] = "account" => at[h] = "find" /\ run[h].op = "create"
                     /\ at'[h] = "owner" => at[h] = "rows"
                     /\ at'[h] = "join" => at[h] = "member"
                     /\ at'[h] = "mark" => at[h] = "join"
                     /\ at'[h] \in {"member", "expire"} => at[h] = "token"
  <1>1. ASSUME NEW s \in {"done", "refused"}, End(h, s) PROVE Came
    BY <1>1, Ended
  <1>2. ASSUME NEW s, GoesTo(h, s) PROVE Came
    BY <1>2, TypeParts DEF GoesTo, Follows, Go
  <1>3. ASSUME NEW s \in {"org", "own", "target", "find", "save", "rows"}, Go(h, s), s = "find" => run[h].op # "create"
        PROVE  Came
    BY <1>3, TypeParts DEF Go
  <1>4. ASSUME Lookup(h), ~End(h, "refused") PROVE Came
    <2>1. run[h].op \in Asking /\ Go(h, FirstAwait(run[h].op))
      BY <1>4 DEF Lookup, CalledAs, OpsAt
    <2> QED BY <1>3, <2>1 DEF FirstAwait, Asking
  <1>5. ASSUME ReadOrg(h) \/ ReadOwn(h) \/ ReadTarget(h), ~End(h, "refused") PROVE Came
    BY <1>3, <1>5 DEF ReadOrg, ReadOwn, ReadTarget
  <1> HIDE DEF Came
  <1>6. Came
    BY <1>1, <1>2, <1>4, <1>5, StepKinds
  <1> QED BY <1>6 DEF Came

LEMMA FoundedStep ==
    ASSUME OrgTypeOK, CallInv, FoundedInv, [OrgNext]_ovars
    PROVE  FoundedInv'
  <1> USE TypeParts
  <1>e. \A o \in Orgs : Exists(o) => Exists(o)'
    BY Lasting
  <1>1. ASSUME NEW h \in Handlers, OrgStep(h) PROVE FoundedInv'
    <2>1. CalledAs(h) /\ h \in Active
      BY <1>1, StepAlone DEF CallInv
    <2>2. /\ \A g \in Handlers \ {h} : at'[g] = at[g]
          /\ Ends(h) \/ at'[h] \in Reads \cup Writes
      BY <1>1, <2>1, RunMoves
    <2>3. ASSUME NEW o \in Orgs, NEW u \in Users, row'[o][u] # NoRow PROVE Exists(o)'
      <3>1. CASE row'[o][u] = row[o][u]
        BY <1>e, <2>3, <3>1 DEF FoundedInv
      <3>2. CASE WroteRow(h, o, u)
        BY <1>e, <2>1, <3>2 DEF WroteRow, CalledAs, OpsAt, Asking, FoundedInv
      <3> QED BY <1>1, <2>1, <3>1, <3>2, RowMoves
    <2>4. ASSUME NEW i \in Handlers
          PROVE  /\ invite'[i].status # "none" =>
                       invite'[i].org \in Orgs /\ org'[invite'[i].org].owner # NoOne /\ invite'[i].role # "owner"
                 /\ at'[i] \notin {"done", "refused"} => invite'[i].status = "none"
                 /\ invite'[i].status = "none" => invite'[i] = NoInv
      <3>1. CASE invite'[i] = invite[i]
        <4>1. at'[i] \notin {"done", "refused"} => at[i] \notin {"done", "refused"}
          BY <2>1, <2>2 DEF Active, Reads, Writes
        <4> QED BY <1>e, <3>1, <4>1 DEF FoundedInv, Exists
      <3>2. CASE WroteInvite(h, i) /\ at[h] = "insert"
        <4>1. i = h /\ run[h].org \in Orgs /\ Exists(run[h].org) /\ run[h].role # "owner"
          BY <2>1, <3>2 DEF WroteInvite, CalledAs, OpsAt, Asking
        <4>2. at'[h] \in {"done", "refused"}
          BY <1>1, <2>1, <3>2, StepAt, Ended DEF InsertInvitation, Break
        <4> QED BY <1>e, <3>2, <4>1, <4>2 DEF WroteInvite, Exists
      <3>3. CASE WroteInvite(h, i) /\ at[h] \in {"mark", "expire"}
        <4>1. invite[i].status # "none"
          BY <2>1, <3>3 DEF WroteInvite, CalledAs, OpsAt
        <4>2. at[i] \in {"done", "refused"}
          BY <4>1 DEF FoundedInv
        <4>3. at'[i] = at[i]
          BY <2>1, <2>2, <4>2 DEF Active, Reads, Writes
        <4> QED BY <1>e, <3>3, <4>1, <4>2, <4>3 DEF WroteInvite, FoundedInv, Exists
      <3> QED BY <1>1, <2>1, <3>1, <3>2, <3>3, InvitesMove DEF WroteInvite
    <2>5. ASSUME NEW g \in Handlers
          PROVE  /\ Exists(g)' => at'[g] \in {"founder", "done", "refused"}
                 /\ at'[g] = "founder" => Exists(g)'
      <3>0. g \in Orgs
        BY DEF Orgs
      <3>1. CASE at[h] = "saveOrg" /\ g = h
        <4>1. InsertOrg(h) \/ Break(h)
          BY <1>1, <2>1, <3>1, StepAt
        <4>2. InsertOrg(h) => at'[h] = "founder" /\ org'[h].owner = run[h].by
          BY <3>0, <3>1 DEF InsertOrg, Go
        <4>3. Break(h) => at'[h] \in {"done", "refused"}
          BY Ended DEF Break
        <4> QED BY <2>1, <3>1, <4>1, <4>2, <4>3, NoOneAssumption DEF CalledAs, Exists
      <3>2. CASE ~(at[h] = "saveOrg" /\ g = h)
        <4>1. Exists(g)' => Exists(g)
          <5>1. CASE org'[g] = org[g]
            BY <5>1 DEF Exists
          <5>2. CASE WroteOrg(h, g)
            BY <2>1, <3>2, <5>2 DEF WroteOrg, CalledAs, OpsAt, Asking
          <5> QED BY <1>1, <2>1, <3>0, <5>1, <5>2, OrgMoves
        <4>2. at'[g] = "founder" => at[g] = "founder"
          BY <1>1, <2>1, <2>2, <3>2, CameFrom
        <4>3. at[g] \in {"founder", "done", "refused"} => at'[g] \in {"founder", "done", "refused"}
          <5>1. CASE g # h
            BY <2>2, <5>1
          <5>2. CASE g = h
            <6>1. at[g] = "founder" => InsertFounder(h) \/ Break(h)
              BY <1>1, <2>1, <5>2, StepAt
            <6>2. InsertFounder(h) \/ Break(h) => at'[h] \in {"done", "refused"}
              BY Ended DEF InsertFounder, Break
            <6> QED BY <2>1, <5>2, <6>1, <6>2 DEF Active, Reads, Writes
          <5> QED BY <5>1, <5>2
        <4> QED BY <1>e, <3>0, <4>1, <4>2, <4>3 DEF FoundedInv
      <3> QED BY <3>1, <3>2
    <2> QED BY <2>3, <2>4, <2>5 DEF FoundedInv, Exists
  <1>2. ASSUME NEW h \in Handlers, NEW c \in RunRec, Enters(h, c) PROVE FoundedInv'
    <2>1. UNCHANGED <<org, row, invite>>
      BY <1>2, Entered DEF Tables
    <2>2. \A g \in Handlers : /\ at'[g] = "founder" <=> at[g] = "founder"
                              /\ at'[g] \in {"done", "refused"} <=> at[g] \in {"done", "refused"}
      BY <1>2, Entered
    <2> QED BY <2>1, <2>2 DEF FoundedInv, Exists
  <1>3. CASE \E o \in Orgs : Minted(o)
    <2>1. UNCHANGED <<row, invite, at>> /\ \A o \in Orgs : org'[o].owner = org[o].owner
      BY <1>3, MintEnds
    <2>2. Handlers \subseteq Orgs
      BY DEF Orgs
    <2> QED BY <2>1, <2>2 DEF FoundedInv, Exists
  <1>4. CASE (\E i \in Handlers : Lapse(i)) \/ UNCHANGED ovars
    BY <1>4 DEF Lapse, ovars, FoundedInv, Exists
  <1> QED BY <1>1, <1>2, <1>3, <1>4, NextKinds


LEMMA OverlapStep ==
    ASSUME OrgTypeOK, CallInv, OverlapInv, [OrgNext]_ovars
    PROVE  OverlapInv'
  <1> SUFFICES ASSUME NEW g \in Handlers, NEW k \in Handlers, g # k,
                      at'[g] \in Reads \cup Writes, at'[k] \in Reads \cup Writes
               PROVE  g \in clashed'
    BY DEF OverlapInv, Active
  <1>1. ASSUME NEW h \in Handlers, OrgStep(h) PROVE g \in clashed'
    <2>1. h \in Active /\ CalledAs(h) /\ clashed' = clashed
      BY <1>1, StepAlone DEF CallInv
    <2>2. \A f \in Handlers \ {h} : at'[f] = at[f]
      BY <1>1, <2>1, RunMoves
    <2> QED BY <2>1, <2>2 DEF OverlapInv, Active
  <1>2. ASSUME NEW h \in Handlers, NEW c \in RunRec, Enters(h, c) PROVE g \in clashed'
    BY <1>2, Entered DEF OverlapInv, Active
  <1>3. CASE (\E i \in Handlers : Lapse(i)) \/ (\E o \in Orgs : Minted(o)) \/ UNCHANGED ovars
    BY <1>3 DEF Lapse, Minted, ovars, History, OverlapInv, Active
  <1> QED BY <1>1, <1>2, <1>3, NextKinds

\* What a handler that met nobody has read stays true until it steps itself.
LEMMA CurrentStep ==
    ASSUME OrgTypeOK, CallInv, FoundedInv, OverlapInv, CurrentInv, [OrgNext]_ovars
    PROVE  CurrentInv'
  <1> USE TypeParts
  <1> SUFFICES ASSUME NEW g \in Handlers, at'[g] \in Reads \cup Writes, g \notin clashed'
               PROVE  Current(g)'
    BY DEF CurrentInv, Active
  <1>1. ASSUME NEW h \in Handlers, OrgStep(h) PROVE Current(g)'
    <2>1. h \in Active /\ CalledAs(h) /\ clashed' = clashed
      BY <1>1, StepAlone DEF CallInv
    <2>2. h = g
      <3>1. g # h => at'[g] = at[g]
        BY <1>1, <2>1, RunMoves
      <3> QED BY <2>1, <3>1 DEF OverlapInv, Active
    <2>3. Current(h) /\ h \notin clashed
      BY <2>1, <2>2 DEF CurrentInv
    <2> SUFFICES Current(h)'
      BY <2>2
    <2>4. /\ Keeps(h) /\ ~\E s \in {"done", "refused"} : End(h, s)
      <3>1. ~Ends(h)
        BY <2>2 DEF Ends, Reads, Writes
      <3>2. ~\E s \in {"done", "refused"} : End(h, s)
        BY <2>2, Ended DEF Reads, Writes
      <3> QED BY <1>1, <2>1, <3>1, <3>2, RunMoves
    <2>5. ASSUME NEW s, GoesTo(h, s) PROVE Current(h)'
      <3>1. run' = run /\ at'[h] = s /\ <<at[h], s>> \in Follows
        BY <2>5 DEF GoesTo, Go
      <3>2. CASE s \in {"pending", "insert", "expire", "member", "join", "mark"}
        BY <2>1, <3>1, <3>2 DEF Current, CalledAs, OpsAt, Follows
      <3>3. CASE s = "owner"
        <4>1. at[h] = "rows" /\ org' = org
          BY <1>1, <2>1, <2>4, <3>1, <3>3, StepAt DEF Follows, SwapRoles, Break
        <4> QED BY <2>1, <2>3, <3>1, <3>3, <4>1 DEF Current, CalledAs, OpsAt
      <3>4. CASE s = "account"
        <4>1. at[h] = "find" /\ run[h].op = "create"
          BY <1>1, <2>1, <3>1, <3>4, CameFrom
        <4>2. OwnedBy(run[h].by) = {} /\ org' = org
          BY <1>1, <2>1, <2>4, <4>1, StepAt DEF FindOwned, Tables
        <4> QED BY <3>1, <3>4, <4>1, <4>2 DEF Current, OwnedBy
      <3>5. CASE s = "saveOrg"
        <4>1. at[h] = "account" /\ org' = org
          <5>1. at[h] = "account"
            BY <3>1, <3>5 DEF Follows
          <5>2. \A o \in Orgs : org'[o] = org[o]
            BY <1>1, <2>1, <5>1, OrgMoves DEF WroteOrg
          <5>3. org' \in [Orgs -> OrgRow]
            BY <1>1, <2>1, OrgMoves
          <5> QED BY <5>1, <5>2, <5>3
        <4> QED BY <2>1, <2>3, <3>1, <3>5, <4>1 DEF Current, OwnedBy, CalledAs, OpsAt
      <3>6. CASE s = "founder"
        <4>1. at[h] = "saveOrg"
          BY <3>1, <3>6 DEF Follows
        <4>2. InsertOrg(h)
          BY <1>1, <2>1, <2>4, <4>1, StepAt DEF Break
        <4>3. row' = row /\ org'[h].owner = run[h].by
          BY <4>2 DEF InsertOrg, Orgs
        <4>4. \A u \in Users : row[h][u] = NoRow
          BY <4>1 DEF FoundedInv, Orgs
        <4> QED BY <2>1, <3>1, <3>6, <4>1, <4>3, <4>4 DEF Current, CalledAs, OpsAt
      <3> QED BY <3>1, <3>2, <3>3, <3>4, <3>5, <3>6 DEF Follows
    <2>6. CASE Lookup(h)
      <3>1. PICK c : Learns(h, c) /\ Go(h, FirstAwait(c.op))
        BY <2>4, <2>6, LookupLearns
      <3>2. at'[h] = FirstAwait(run[h].op) /\ run'[h].op = run[h].op /\ run[h].op \in Asking
        BY <2>1, <2>6, <3>1 DEF Learns, Go, Lookup, CalledAs, OpsAt
      <3> QED BY <3>2 DEF Current, FirstAwait, Asking
    <2>7. CASE ReadOrg(h)
      <3>1. run[h].org \in Orgs /\ run[h].op \in {"profile", "transfer"}
        BY <2>1, <2>7 DEF ReadOrg, CalledAs, OpsAt, Asking
      <3>2. PICK c : /\ Learns(h, c) /\ c.org = run[h].org /\ c.snap = org[c.org]
                     /\ run[h].op = "transfer" => org[run[h].org].owner = run[h].by
                     /\ Go(h, IF c.op = "profile" THEN "save" ELSE "own")
        BY <2>4, <2>7, <3>1, ReadOrgLearns
      <3>3. /\ run'[h] = c /\ at'[h] = (IF c.op = "profile" THEN "save" ELSE "own")
            /\ c.op = run[h].op /\ c.by = run[h].by /\ UNCHANGED <<org, row>>
        BY <3>2 DEF Learns, Go, Tables
      <3> QED BY <3>1, <3>2, <3>3 DEF Current
    <2>8. CASE ReadOwn(h)
      <3>1. run[h].org \in Orgs /\ run[h].by \in Users /\ run[h].op = "transfer" /\ at[h] = "own"
        BY <2>1, <2>8 DEF ReadOwn, CalledAs, OpsAt, Asking
      <3>2. PICK c : /\ Learns(h, c) /\ c.org = run[h].org /\ c.snap = run[h].snap
                     /\ c.own = row[c.org][c.by] /\ c.own.role = "owner" /\ Go(h, "target")
        BY <2>4, <2>8, <3>1, ReadOwnLearns
      <3>3. /\ run'[h] = c /\ at'[h] = "target" /\ c.op = run[h].op /\ c.by = run[h].by /\ UNCHANGED <<org, row>>
        BY <3>2 DEF Learns, Go, Tables
      <3> QED BY <2>3, <3>1, <3>2, <3>3 DEF Current
    <2>9. CASE ReadTarget(h)
      <3>1. /\ run[h].org \in Orgs /\ run[h].target \in Users /\ at[h] = "target"
            /\ run[h].op \in {"role", "remove", "transfer"}
        BY <2>1, <2>9 DEF ReadTarget, CalledAs, OpsAt, Asking
      <3>2. PICK c : /\ Learns(h, c) /\ c.org = run[h].org /\ c.snap = run[h].snap /\ c.own = run[h].own
                     /\ c.tgt = row[c.org][c.target] /\ c.tgt # NoRow
                     /\ c.op # "transfer" => c.tgt.role # "owner"
                     /\ Go(h, IF c.op = "transfer" THEN "rows" ELSE "save")
        BY <2>4, <2>9, <3>1, ReadTargetLearns
      <3>3. /\ run'[h] = c /\ at'[h] = (IF c.op = "transfer" THEN "rows" ELSE "save")
            /\ c.op = run[h].op /\ c.by = run[h].by /\ UNCHANGED <<org, row>>
        BY <3>2 DEF Learns, Go, Tables
      <3> QED BY <2>3, <3>1, <3>2, <3>3 DEF Current
    <2> QED BY <1>1, <2>1, <2>4, <2>5, <2>6, <2>7, <2>8, <2>9, StepKinds
  <1>2. ASSUME NEW h \in Handlers, NEW c \in RunRec, Enters(h, c) PROVE Current(g)'
    <2>1. g = h
      BY <1>2, Entered DEF Active
    <2>2. at'[g] \in {"find", "token", "lookup"}
      BY <1>2, <2>1, Entered
    <2> QED BY <2>2 DEF Current
  <1>3. CASE \E o \in Orgs : Minted(o)
    BY <1>3, MintEnds DEF Active
  <1>4. CASE (\E i \in Handlers : Lapse(i)) \/ UNCHANGED ovars
    <2>1. UNCHANGED <<org, row, run, at, clashed>>
      BY <1>4 DEF Lapse, ovars, History
    <2>2. Current(g)
      BY <2>1 DEF CurrentInv, Active
    <2> QED BY <2>1, <2>2 DEF Current, OwnedBy
  <1> QED BY <1>1, <1>2, <1>3, <1>4, NextKinds


\* The handlers that are on the way to accept an invitation, or to mark it as expired.
OnTheWay == {"member", "join", "mark", "expire"}

\* Only a handler that has read an invitation that is not accepted gets on the way.
LEMMA WaysIn ==
    ASSUME OrgTypeOK, NEW h \in Handlers, CalledAs(h), OrgStep(h), at'[h] \in OnTheWay
    PROVE  /\ run[h].op = "accept" /\ run'[h].inv = run[h].inv
           /\ at[h] \in OnTheWay \/ invite[run[h].inv].status # "accepted"
  <1>1. Keeps(h)
    BY RunMoves DEF Ends, OnTheWay
  <1>2. at[h] \in {"token", "member", "join"}
    BY CameFrom DEF OnTheWay
  <1>3. at[h] = "token" => invite[run[h].inv].status # "accepted"
    <2> SUFFICES ASSUME at[h] = "token", invite[run[h].inv].status = "accepted" PROVE FALSE
      OBVIOUS
    <2>1. End(h, "refused")
      BY StepAt DEF ReadToken
    <2> QED BY <2>1, Ended DEF OnTheWay
  <1> QED BY <1>1, <1>2, <1>3 DEF Keeps, CalledAs, OpsAt, OnTheWay

\* A handler that is done with an invitation has marked it.
LEMMA WayOut ==
    ASSUME OrgTypeOK, NEW h \in Handlers, CalledAs(h), OrgStep(h), at'[h] = "done", NEW i \in Handlers, run'[h].inv = i
    PROVE  at[h] = "mark" /\ run[h].inv = i /\ invite'[i].status = "accepted"
  <1> USE TypeParts
  <1>1. run[h].inv = i
    BY RunMoves DEF Ends, Reads, Writes
  <1>2. run[h].op = "accept" /\ at[h] \in {"token", "member", "join", "mark", "expire"}
    <2>1. run[h].op = "accept"
      BY <1>1, NoOneAssumption DEF CalledAs
    <2>2. h \in Active
      BY StepAlone
    <2> QED BY <2>1, <2>2 DEF CalledAs, OpsAt, Active, Reads, Writes, Asking
  <1>b. ~Break(h)
    BY Ended DEF Break
  <1>3. CASE at[h] \in {"mark", "expire"}
    <2>1. MarkInvitation(h)
      BY <1>3, <1>b, StepAt
    <2>2. at[h] = "mark"
      BY <1>3, <2>1, Ended DEF MarkInvitation
    <2>3. PICK m \in InvRow : m = invite[i]
      OBVIOUS
    <2>4. PICK n \in InvRow : n = [m EXCEPT !.status = "accepted"]
      BY DEF InvRow
    <2>5. n.status = "accepted"
      BY <2>4 DEF InvRow
    <2>6. invite' = [invite EXCEPT ![i] = n]
      BY <1>1, <2>1, <2>2, <2>3, <2>4 DEF MarkInvitation
    <2> QED BY <1>1, <2>2, <2>5, <2>6
  <1>4. CASE at[h] \in {"token", "member"}
    <2>1. ReadToken(h) \/ FindMember(h)
      BY <1>4, StepAt
    <2>2. End(h, "refused") \/ \E s \in {"expire", "member", "join"} : Go(h, s)
      BY <2>1 DEF ReadToken, FindMember
    <2> QED BY <2>2, Ended, WentOn DEF Awaits, Reads, Writes
  <1>5. CASE at[h] = "join"
    <2>1. Join(h)
      BY <1>5, <1>b, StepAt
    <2>2. End(h, "refused") \/ Go(h, "mark")
      BY <2>1 DEF Join
    <2> QED BY <2>2, Ended, WentOn DEF Awaits, Writes
  <1> QED BY <1>2, <1>3, <1>4, <1>5

LEMMA UsedStep ==
    ASSUME OrgTypeOK, CallInv, FoundedInv, OverlapInv, UsedInv, [OrgNext]_ovars
    PROVE  UsedInv'
  <1> USE TypeParts
  <1> SUFFICES ASSUME NEW g \in Handlers, g \notin clashed', NEW i \in Handlers, at'[g] = "done", run'[g].inv = i
               PROVE  /\ invite'[i].status = "accepted"
                      /\ \A k \in Handlers : run'[k].inv = i => at'[k] \notin OnTheWay
    BY DEF UsedInv, OnTheWay
  <1>1. ASSUME NEW h \in Handlers, OrgStep(h)
        PROVE  /\ invite'[i].status = "accepted"
               /\ \A k \in Handlers : run'[k].inv = i => at'[k] \notin OnTheWay
    <2>1. h \in Active /\ CalledAs(h) /\ clashed' = clashed
      BY <1>1, StepAlone DEF CallInv
    <2>2. \A k \in Handlers \ {h} : run'[k] = run[k] /\ at'[k] = at[k]
      BY <1>1, <2>1, RunMoves
    <2>3. CASE g = h
      <3>1. invite'[i].status = "accepted" /\ at[h] = "mark"
        BY <1>1, <2>1, <2>3, WayOut
      <3>2. ASSUME NEW k \in Handlers, at'[k] \in OnTheWay PROVE FALSE
        <4>1. k # h /\ k \in Active
          BY <2>2, <2>3, <3>2 DEF OnTheWay, Active, Reads, Writes
        <4> QED BY <2>1, <2>3, <4>1 DEF OverlapInv
      <3> QED BY <3>1, <3>2
    <2>4. CASE g # h
      <3>1. /\ invite[i].status = "accepted"
            /\ \A k \in Handlers : run[k].inv = i => at[k] \notin OnTheWay
        BY <2>1, <2>2, <2>4 DEF UsedInv, OnTheWay
      <3>2. ASSUME WroteInvite(h, i) PROVE FALSE
        <4>1. CASE at[h] = "insert" /\ i = h
          BY <2>1, <3>1, <4>1 DEF FoundedInv, Active, Reads, Writes
        <4>2. CASE at[h] \in {"mark", "expire"} /\ run[h].inv = i
          BY <3>1, <4>2 DEF OnTheWay
        <4> QED BY <3>2, <4>1, <4>2 DEF WroteInvite
      <3>3. invite'[i] = invite[i]
        BY <1>1, <2>1, <3>2, InvitesMove
      <3>4. ASSUME NEW k \in Handlers, run'[k].inv = i, at'[k] \in OnTheWay PROVE FALSE
        <4>1. k = h
          BY <2>2, <3>1, <3>4
        <4> QED BY <1>1, <2>1, <3>1, <3>4, <4>1, WaysIn
      <3> QED BY <3>1, <3>3, <3>4
    <2> QED BY <2>3, <2>4
  <1>2. ASSUME NEW h \in Handlers, NEW c \in RunRec, Enters(h, c)
        PROVE  /\ invite'[i].status = "accepted"
               /\ \A k \in Handlers : run'[k].inv = i => at'[k] \notin OnTheWay
    <2>1. /\ invite' = invite /\ at'[h] \in {"find", "token", "lookup"} /\ clashed \subseteq clashed'
          /\ \A k \in Handlers \ {h} : run'[k] = run[k] /\ at'[k] = at[k]
      BY <1>2, Entered DEF Tables
    <2>2. g # h
      BY <2>1
    <2> QED BY <2>1, <2>2 DEF UsedInv, OnTheWay
  <1>3. CASE (\E j \in Handlers : Lapse(j)) \/ (\E o \in Orgs : Minted(o)) \/ UNCHANGED ovars
    <2>1. UNCHANGED <<invite, run, at>> /\ clashed \subseteq clashed'
      BY <1>3 DEF Lapse, Minted, ovars, History
    <2> QED BY <2>1 DEF UsedInv, OnTheWay
  <1> QED BY <1>1, <1>2, <1>3, NextKinds

LEMMA AdmittedStep ==
    ASSUME OrgTypeOK, CallInv, OverlapInv, UsedInv, AdmittedOnce, [OrgNext]_ovars
    PROVE  AdmittedOnce'
  <1> USE TypeParts
  <1> SUFFICES ASSUME NEW i \in Handlers, NEW g \in Handlers, NEW k \in Handlers, g # k,
                      g \notin clashed', k \notin clashed',
                      at'[g] \in {"mark", "done"}, at'[k] \in {"mark", "done"}, run'[g].inv = i, run'[k].inv = i
               PROVE  FALSE
    BY DEF AdmittedOnce, UsedBy
  <1>0. ~(/\ g \notin clashed /\ k \notin clashed /\ run[g].inv = i /\ run[k].inv = i
          /\ at[g] \in {"mark", "done"} /\ at[k] \in {"mark", "done"})
    BY DEF AdmittedOnce, UsedBy
  <1>1. ASSUME NEW h \in Handlers, OrgStep(h) PROVE FALSE
    <2>1. h \in Active /\ CalledAs(h) /\ clashed' = clashed
      BY <1>1, StepAlone DEF CallInv
    <2>2. \A f \in Handlers \ {h} : run'[f] = run[f] /\ at'[f] = at[f]
      BY <1>1, <2>1, RunMoves
    <2>3. (run[h].inv = i /\ at[h] \in OnTheWay) \/ h \notin {g, k} \/ invite[i].status # "accepted"
      <3> SUFFICES ASSUME h \in {g, k} PROVE (run[h].inv = i /\ at[h] \in OnTheWay) \/ invite[i].status # "accepted"
        OBVIOUS
      <3>1. CASE at'[h] = "done"
        BY <1>1, <2>1, <3>1, WayOut DEF OnTheWay
      <3>2. CASE at'[h] = "mark"
        BY <1>1, <2>1, <3>2, WaysIn DEF OnTheWay
      <3> QED BY <3>1, <3>2
    <2>4. ASSUME NEW f \in {g, k}, f # h, h \in {g, k} PROVE FALSE
      <3>1. at[f] = at'[f] /\ run[f] = run'[f] /\ f \notin clashed /\ f \in Handlers
        BY <2>1, <2>2, <2>4
      <3>2. CASE at[f] = "mark"
        BY <2>1, <2>4, <3>1, <3>2 DEF OverlapInv, Active, Writes
      <3>3. CASE at[f] = "done"
        BY <2>1, <2>3, <2>4, <3>1, <3>3 DEF UsedInv, OnTheWay
      <3> QED BY <3>1, <3>2, <3>3
    <2> QED BY <1>0, <2>1, <2>2, <2>4
  <1>2. ASSUME NEW h \in Handlers, NEW c \in RunRec, Enters(h, c) PROVE FALSE
    <2>1. /\ at'[h] \in {"find", "token", "lookup"} /\ clashed \subseteq clashed'
          /\ \A f \in Handlers \ {h} : run'[f] = run[f] /\ at'[f] = at[f]
      BY <1>2, Entered
    <2> QED BY <1>0, <2>1
  <1>3. CASE (\E j \in Handlers : Lapse(j)) \/ (\E o \in Orgs : Minted(o)) \/ UNCHANGED ovars
    <2>1. UNCHANGED <<run, at>> /\ clashed \subseteq clashed'
      BY <1>3 DEF Lapse, Minted, ovars, History
    <2> QED BY <1>0, <2>1
  <1> QED BY <1>1, <1>2, <1>3, NextKinds


\* Only a transfer and the end of a creation change who has the role of an owner, as long as the
\* handler has read what is there; and only a transfer and a creation change ownerUserId.
LEMMA OwnersStay ==
    ASSUME OrgTypeOK, FoundedInv, NEW h \in Handlers, CalledAs(h), Current(h), OrgStep(h)
    PROVE  /\ at[h] \notin {"rows", "founder"} => \A o \in Orgs : OwnersOf(o)' = OwnersOf(o)
           /\ at[h] \notin {"owner", "saveOrg"} => \A o \in Orgs : org'[o].owner = org[o].owner
  <1>1. ASSUME at[h] \notin {"rows", "founder"}, NEW o \in Orgs, NEW u \in Users
        PROVE  row'[o][u].role = "owner" <=> row[o][u].role = "owner"
    <2>1. ASSUME WroteRow(h, o, u) PROVE row'[o][u].role # "owner" /\ row[o][u].role # "owner"
      <3>1. CASE at[h] = "save"
        BY <2>1, <3>1 DEF WroteRow, Current, CalledAs, NoRow
      <3>2. CASE at[h] = "join"
        BY <2>1, <3>2 DEF WroteRow, CalledAs, OpsAt, FoundedInv, NoRow
      <3> QED BY <1>1, <2>1, <3>1, <3>2 DEF WroteRow
    <2> QED BY <2>1, RowMoves
  <1>2. ASSUME at[h] \notin {"owner", "saveOrg"}, NEW o \in Orgs PROVE org'[o].owner = org[o].owner
    <2>1. ASSUME WroteOrg(h, o) PROVE org'[o].owner = org[o].owner
      BY <1>2, <2>1 DEF WroteOrg, Current
    <2> QED BY <2>1, OrgMoves
  <1> QED BY <1>1, <1>2 DEF OwnersOf

\* A transfer that has read what is there swaps the roles.
LEMMA RolesSwap ==
    ASSUME OrgTypeOK, NEW h \in Handlers, CalledAs(h), Current(h), SwapRoles(h)
    PROVE  /\ GoesTo(h, "owner") /\ UNCHANGED org
           /\ \A o \in Orgs : OwnersOf(o)' = IF o = run[h].org
                                             THEN (OwnersOf(o) \ {run[h].by}) \cup {run[h].target}
                                             ELSE OwnersOf(o)
  <1> USE TypeParts
  <1>r. PICK r \in RunRec : r = run[h]
    OBVIOUS
  <1>1. r.org \in Orgs /\ r.target \in Users /\ r.by \in Users /\ r.target # r.by /\ at[h] = "rows"
    BY <1>r DEF SwapRoles, CalledAs, Asking, OpsAt
  <1>2. /\ r.own = row[r.org][r.by] /\ r.tgt = row[r.org][r.target] /\ r.own \in MemRow /\ r.tgt \in MemRow
    BY <1>r, <1>1 DEF Current, CalledAs, OpsAt, RunRec
  <1>3. MaySave(r.org, r.by, r.own) /\ MaySave(r.org, r.target, r.tgt)
    BY <1>2 DEF MaySave
  <1>4. PICK m \in MemRow : m = [r.own EXCEPT !.role = "admin"]
    BY <1>2 DEF MemRow, Roles
  <1>5. PICK n \in MemRow : n = [r.tgt EXCEPT !.role = "owner"]
    BY <1>2 DEF MemRow, Roles
  <1>6. m.role = "admin" /\ n.role = "owner"
    BY <1>2, <1>4, <1>5 DEF MemRow
  <1>7. PICK t \in RowOf : t = Put(row, r.org, r.by, m)
    BY <1>1, RowWritten
  <1>8. row' = Put(t, r.org, r.target, n)
    BY <1>r, <1>3, <1>4, <1>5, <1>7 DEF SwapRoles, Put
  <1>9. \A o \in Orgs, u \in Users : t[o][u] = IF o = r.org /\ u = r.by THEN m ELSE row[o][u]
    BY <1>1, <1>7, RowPut
  <1>10. PICK p \in Orgs, v \in Users : p = r.org /\ v = r.target
    BY <1>1
  <1>11. \A o \in Orgs, u \in Users : row'[o][u] = IF o = p /\ u = v THEN n ELSE t[o][u]
    BY <1>1, <1>8, <1>10, RowPut
  <1>12. GoesTo(h, "owner") /\ UNCHANGED org
    BY <1>r, <1>1, <1>3 DEF SwapRoles, GoesTo, Follows
  <1>13. \A o \in Orgs \ {p}, u \in Users : row'[o][u] = row[o][u]
    BY <1>9, <1>10, <1>11
  <1>14. \A u \in Users : row'[p][u].role = "owner" <=> u = v \/ (row[p][u].role = "owner" /\ u # r.by)
    BY <1>6, <1>9, <1>10, <1>11
  <1>15. \A o \in Orgs \ {p} : OwnersOf(o)' = OwnersOf(o)
    BY <1>13 DEF OwnersOf
  <1>16. OwnersOf(p)' = (OwnersOf(p) \ {r.by}) \cup {v}
    BY <1>14 DEF OwnersOf
  <1> QED BY <1>r, <1>10, <1>12, <1>15, <1>16

LEMMA OwnersStep ==
    ASSUME OrgTypeOK, CallInv, FoundedInv, OverlapInv, CurrentInv, OwnersInv, [OrgNext]_ovars
    PROVE  OwnersInv'
  <1> USE TypeParts
  <1> DEFINE Owned(o) == /\ o \in Handlers /\ at'[o] = "founder" => OwnersOf(o)' = {}
                         /\ \A k \in Handlers : at'[k] = "owner" /\ run'[k].org = o
                                                => OwnersOf(o)' = {run'[k].target}
                         /\ \/ OwnersOf(o)' = {org'[o].owner} \ {NoOne}
                            \/ o \in Handlers /\ at'[o] = "founder"
                            \/ \E k \in Handlers : at'[k] = "owner" /\ run'[k].org = o
  <1> SUFFICES ASSUME clashed' = {}, broken' = {}, NEW o \in Orgs PROVE Owned(o)
    BY DEF OwnersInv
  <1>1. ASSUME NEW h \in Handlers, OrgStep(h) PROVE Owned(o)
    <2>1. h \in Active /\ CalledAs(h) /\ clashed = {} /\ broken = {}
      BY <1>1, StepAlone DEF CallInv
    <2>2. Current(h)
      BY <2>1 DEF CurrentInv
    <2>3. \A k \in Handlers \ {h} : at[k] \notin Reads \cup Writes
      BY <2>1 DEF OverlapInv, Active
    <2>4. \A k \in Handlers \ {h} : at'[k] = at[k] /\ run'[k] = run[k]
      BY <1>1, <2>1, RunMoves
    <2>5. ~Break(h)
      BY DEF Break
    <2>6. \A k \in Handlers : at[k] \in {"founder", "owner"} \/ at'[k] \in {"founder", "owner"} => k = h
      BY <2>3, <2>4 DEF Writes
    <2>7. CASE at[h] \notin {"rows", "founder", "owner", "saveOrg"}
      <3>1. at'[h] \notin {"founder", "owner"}
        BY <1>1, <2>1, <2>7, CameFrom
      <3>2. OwnersOf(o) = {org[o].owner} \ {NoOne}
        BY <2>1, <2>6, <2>7 DEF OwnersInv
      <3>3. OwnersOf(o)' = OwnersOf(o) /\ org'[o].owner = org[o].owner
        BY <1>1, <2>1, <2>2, <2>7, OwnersStay
      <3> QED BY <2>6, <3>1, <3>2, <3>3
    <2>8. CASE at[h] = "rows"
      <3>1. SwapRoles(h)
        BY <1>1, <2>1, <2>5, <2>8, StepAt
      <3>2. /\ at'[h] = "owner" /\ run' = run /\ org' = org
            /\ OwnersOf(o)' = IF o = run[h].org THEN (OwnersOf(o) \ {run[h].by}) \cup {run[h].target}
                                                ELSE OwnersOf(o)
        BY <2>1, <2>2, <3>1, RolesSwap DEF GoesTo, Go
      <3>3. OwnersOf(o) = {org[o].owner} \ {NoOne}
        BY <2>1, <2>6, <2>8 DEF OwnersInv
      <3>4. org[run[h].org].owner = run[h].by /\ run[h].by \in Users
        BY <2>1, <2>2, <2>8 DEF Current, CalledAs, OpsAt
      <3> QED BY <2>6, <3>2, <3>3, <3>4
    <2>9. CASE at[h] = "owner"
      <3>1. SaveOwner(h)
        BY <1>1, <2>1, <2>5, <2>9, StepAt
      <3>2. at'[h] = "done"
        BY <3>1, Ended DEF SaveOwner
      <3>3. run[h].org \in Orgs /\ run[h].target \in Users
        BY <2>1, <2>9 DEF CalledAs, OpsAt, Asking
      <3>4. org'[o].owner = IF o = run[h].org THEN run[h].target ELSE org[o].owner
        <4>1. PICK m \in OrgRow : m = run[h].snap
          BY DEF RunRec
        <4>2. PICK n \in OrgRow : n = [m EXCEPT !.owner = run[h].target]
          BY <3>3 DEF OrgRow
        <4>3. n.owner = run[h].target
          BY <4>2 DEF OrgRow
        <4>4. org' = [org EXCEPT ![run[h].org] = n]
          BY <3>1, <4>1, <4>2 DEF SaveOwner
        <4> QED BY <3>3, <4>3, <4>4
      <3>5. OwnersOf(o)' = OwnersOf(o)
        BY <1>1, <2>1, <2>2, <2>9, OwnersStay
      <3>6. OwnersOf(o) = IF o = run[h].org THEN {run[h].target} ELSE {org[o].owner} \ {NoOne}
        BY <2>1, <2>6, <2>9 DEF OwnersInv
      <3>7. run[h].target # NoOne
        BY <3>3, NoOneAssumption
      <3> QED BY <2>6, <3>2, <3>4, <3>5, <3>6, <3>7
    <2>10. CASE at[h] = "saveOrg"
      <3>1. InsertOrg(h)
        BY <1>1, <2>1, <2>5, <2>10, StepAt
      <3>2. at'[h] = "founder" /\ \A p \in Orgs \ {h} : org'[p] = org[p]
        BY <3>1 DEF InsertOrg, Go
      <3>3. OwnersOf(o)' = OwnersOf(o)
        BY <1>1, <2>1, <2>2, <2>10, OwnersStay
      <3>4. OwnersOf(o) = {org[o].owner} \ {NoOne}
        BY <2>1, <2>6, <2>10 DEF OwnersInv
      <3>5. org[h].owner = NoOne
        BY <2>10 DEF FoundedInv, Exists
      <3> QED BY <2>6, <3>2, <3>3, <3>4, <3>5
    <2>11. CASE at[h] = "founder"
      <3>1. InsertFounder(h)
        BY <1>1, <2>1, <2>5, <2>11, StepAt
      <3>2. at'[h] = "done" /\ org' = org /\ row' = Put(row, h, run[h].by, [role |-> "owner", id |-> h])
        BY <3>1, Ended DEF InsertFounder, Put
      <3>3. h \in Orgs /\ run[h].by \in Users /\ [role |-> "owner", id |-> h] \in MemRow
        BY <2>1 DEF Orgs, CalledAs, MemRow, Roles
      <3>4. \A u \in Users : row'[o][u] = IF o = h /\ u = run[h].by THEN [role |-> "owner", id |-> h] ELSE row[o][u]
        BY <3>2, <3>3, RowWritten
      <3>5. org[h].owner = run[h].by /\ \A u \in Users : row[h][u] = NoRow
        BY <2>2, <2>11 DEF Current
      <3>6. o # h => OwnersOf(o) = {org[o].owner} \ {NoOne}
        BY <2>1, <2>6, <2>11 DEF OwnersInv
      <3>7. OwnersOf(o)' = {org[o].owner} \ {NoOne}
        <4>1. CASE o = h
          BY <3>3, <3>4, <3>5, <4>1, NoOneAssumption DEF OwnersOf, NoRow
        <4>2. CASE o # h
          BY <3>4, <3>6, <4>2 DEF OwnersOf
        <4> QED BY <4>1, <4>2
      <3> QED BY <2>6, <3>2, <3>7
    <2> QED BY <2>7, <2>8, <2>9, <2>10, <2>11
  <1>2. ASSUME clashed = {}, broken = {}, OwnersOf(o)' = OwnersOf(o), org'[o].owner = org[o].owner,
               \A k \in Handlers : \/ at'[k] = at[k] /\ run'[k] = run[k]
                                   \/ {at[k], at'[k]} \cap {"founder", "owner"} = {}
        PROVE  Owned(o)
    <2>1. \A k \in Handlers : /\ at'[k] = "founder" <=> at[k] = "founder"
                              /\ at'[k] = "owner" <=> at[k] = "owner"
                              /\ at[k] = "owner" => run'[k] = run[k]
      BY <1>2
    <2>2. /\ o \in Handlers /\ at[o] = "founder" => OwnersOf(o) = {}
          /\ \A k \in Handlers : at[k] = "owner" /\ run[k].org = o => OwnersOf(o) = {run[k].target}
          /\ \/ OwnersOf(o) = {org[o].owner} \ {NoOne}
             \/ o \in Handlers /\ at[o] = "founder"
             \/ \E k \in Handlers : at[k] = "owner" /\ run[k].org = o
      BY <1>2 DEF OwnersInv
    <2> QED BY <1>2, <2>1, <2>2
  <1>3. ASSUME NEW h \in Handlers, NEW c \in RunRec, Enters(h, c) PROVE Owned(o)
    <2>1. /\ UNCHANGED <<org, row, broken>> /\ clashed = {}
          /\ \A k \in Handlers : \/ at'[k] = at[k] /\ run'[k] = run[k]
                                 \/ {at[k], at'[k]} \cap {"founder", "owner"} = {}
      BY <1>3, Entered DEF Tables
    <2> QED BY <1>2, <2>1 DEF OwnersOf
  <1>4. CASE \E p \in Orgs : Minted(p)
    <2>1. UNCHANGED <<row, run, at, broken>> /\ clashed = {} /\ org'[o].owner = org[o].owner
      BY <1>4, MintEnds
    <2> QED BY <1>2, <2>1 DEF OwnersOf
  <1>5. CASE (\E i \in Handlers : Lapse(i)) \/ UNCHANGED ovars
    <2>1. UNCHANGED <<org, row, run, at, broken, clashed>>
      BY <1>5 DEF Lapse, ovars, History
    <2> QED BY <1>2, <2>1 DEF OwnersOf
  <1> QED BY <1>1, <1>3, <1>4, <1>5, NextKinds


LEMMA OrgStarts == OrgInit => OrgIInv
  <1> SUFFICES ASSUME OrgInit PROVE OrgIInv
    OBVIOUS
  <1>1. PICK r \in [Users \ {Founder} -> {"none", "admin"}] :
           row = [o \in Orgs |-> [u \in Users |->
                    IF o # FirstOrg THEN NoRow
                    ELSE IF u = Founder THEN [role |-> "owner", id |-> FirstOrg]
                    ELSE IF r[u] = "none" THEN NoRow ELSE [role |-> r[u], id |-> FirstOrg]]]
    BY DEF OrgInit
  <1>2. \A q \in {"owner", "admin"} : [role |-> q, id |-> FirstOrg] \in MemRow
    BY DEF MemRow, Roles, Orgs
  <1>3. row \in RowOf
    BY <1>1, <1>2, TheEmptyOnes DEF RowOf
  <1>4. /\ Founder \in Users /\ FirstOrg \in Orgs /\ FirstOrg \notin Handlers /\ NoOne \notin Users
        /\ org[FirstOrg].owner = Founder /\ \A h \in Handlers : h \in Orgs /\ org[h] = NoOrg
    BY FounderAssumption, NoOneAssumption DEF OrgInit, Orgs
  <1>5. /\ \A h \in Handlers : at[h] = "idle" /\ run[h] = NoRun /\ invite[h] = NoInv
        /\ Active = {}
    BY DEF OrgInit, Active, Reads, Writes
  <1>6. OrgTypeOK
    <2>1. [owner |-> Founder, named |-> TRUE] \in OrgRow
      BY <1>4 DEF OrgRow
    <2>2. org \in [Orgs -> OrgRow]
      BY <2>1, TheEmptyOnes DEF OrgInit
    <2>3. at \in [Handlers -> Awaits]
      BY DEF OrgInit, Awaits
    <2>4. invite \in [Handlers -> InvRow] /\ run \in [Handlers -> RunRec]
      BY TheEmptyOnes DEF OrgInit
    <2> QED BY <1>3, <2>2, <2>3, <2>4, TypeParts DEF OrgInit
  <1>7. \A o \in Orgs, u \in Users : /\ row[o][u] # NoRow => o = FirstOrg
                                     /\ row[o][u].role = "owner" <=> o = FirstOrg /\ u = Founder
    BY <1>1 DEF NoRow
  <1>8. FoundedInv
    BY <1>4, <1>5, <1>7 DEF FoundedInv, Exists, NoInv, NoOrg
  <1>9. OwnersInv
    <2>1. \A o \in Orgs : OwnersOf(o) = {org[o].owner} \ {NoOne}
      <3> SUFFICES ASSUME NEW o \in Orgs PROVE OwnersOf(o) = {org[o].owner} \ {NoOne}
        OBVIOUS
      <3>1. CASE o = FirstOrg
        BY <1>4, <1>7, <3>1 DEF OwnersOf
      <3>2. CASE o # FirstOrg
        BY <1>4, <1>7, <3>2 DEF OwnersOf, Orgs, NoOrg
      <3> QED BY <3>1, <3>2
    <2> QED BY <1>5, <2>1 DEF OwnersInv
  <1>10. UsedInv /\ AdmittedOnce
    BY <1>5 DEF UsedInv, AdmittedOnce, UsedBy
  <1> QED BY <1>5, <1>6, <1>8, <1>9, <1>10 DEF OrgIInv, CallInv, OverlapInv, CurrentInv

LEMMA OrgKeeps == OrgIInv /\ [OrgNext]_ovars => OrgIInv'
  BY OrgTypeStep, CallStep, FoundedStep, OverlapStep, CurrentStep, UsedStep, AdmittedStep, OwnersStep DEF OrgIInv

\* The invariant that carries the properties of organizations holds in every state.
THEOREM OrgInductive == OrgSpec => []OrgIInv
  BY OrgStarts, OrgKeeps, PTL DEF OrgSpec

\* With any number of users and handlers: where nothing overlapped or failed, an organization has
\* one owner, the same in both tables; and an invitation admits one user, but for two that
\* accept at once or a mark that failed.
THEOREM OrgInvHolds == OrgSpec => []OrgInv
  <1>1. OrgIInv => OrgInv
    <2> SUFFICES ASSUME OrgIInv, clashed = {}, broken = {}, Active = {}, NEW o \in Orgs
                 PROVE  OwnersOf(o) = {org[o].owner} \ {NoOne}
      BY DEF OrgIInv, OrgInv, OneOwner
    <2>1. \A h \in Handlers : at[h] \notin {"founder", "owner"}
      BY DEF Active, Writes
    <2> QED BY <2>1 DEF OrgIInv, OwnersInv
  <1> QED BY <1>1, OrgInductive, PTL

\* What a step may have done to a row, and to an organization.
LEMMA RowStepBy ==
    ASSUME OrgIInv, [OrgNext]_ovars, NEW o \in Orgs, NEW u \in Users, row'[o][u] # row[o][u]
    PROVE  \E h \in Handlers : /\ OrgStep(h) /\ CalledAs(h) /\ WroteRow(h, o, u) /\ at'[h] # at[h]
                               /\ h \notin clashed => Current(h)
  <1>1. PICK h \in Handlers : OrgStep(h)
    BY NextKinds, Entered, MintEnds DEF OrgIInv, Tables, Lapse, ovars
  <1>2. CalledAs(h) /\ h \in Active
    BY <1>1, StepAlone DEF OrgIInv, CallInv
  <1> QED BY <1>1, <1>2, RowMoves, RunMoves DEF OrgIInv, CurrentInv

LEMMA OrgStepBy ==
    ASSUME OrgIInv, [OrgNext]_ovars, NEW o \in Orgs,
           org'[o].owner # org[o].owner \/ (org[o].named /\ ~org'[o].named)
    PROVE  \E h \in Handlers : /\ OrgStep(h) /\ CalledAs(h) /\ WroteOrg(h, o) /\ at'[h] # at[h]
                               /\ h \notin clashed => Current(h)
  <1>1. PICK h \in Handlers : OrgStep(h)
    BY NextKinds, Entered, MintEnds DEF OrgIInv, Tables, Lapse, ovars
  <1>2. CalledAs(h) /\ h \in Active
    BY <1>1, StepAlone DEF OrgIInv, CallInv
  <1> QED BY <1>1, <1>2, OrgMoves, RunMoves DEF OrgIInv, CurrentInv

\* Whatever overlaps or fails: who loses the role of an owner, who joins, who takes an organization
\* over or founds a second one, and through which save.
THEOREM OrgStepsHolds == OrgSpec => OrgSteps
  <1>1. OrgIInv /\ [OrgNext]_ovars
        => [\A o \in Orgs, u \in Users :
               row[o][u].role = "owner" /\ row'[o][u].role # "owner"
               => \E h \in Handlers : \/ Saves(h, "rows") /\ run[h].by = u
                                      \/ Saves(h, "save") /\ h \in clashed]_ovars
    <2> SUFFICES ASSUME OrgIInv, [OrgNext]_ovars, NEW o \in Orgs, NEW u \in Users,
                        row[o][u].role = "owner", row'[o][u].role # "owner"
                 PROVE  \E h \in Handlers : \/ Saves(h, "rows") /\ run[h].by = u
                                            \/ Saves(h, "save") /\ h \in clashed
      OBVIOUS
    <2>1. PICK h \in Handlers : WroteRow(h, o, u) /\ at'[h] # at[h] /\ (h \notin clashed => Current(h))
      BY RowStepBy
    <2> QED BY <2>1 DEF WroteRow, Saves, Current, NoRow
  <1>2. OrgIInv /\ [OrgNext]_ovars
        => [\A o \in Orgs, u \in Users :
               row[o][u] = NoRow /\ row'[o][u] # NoRow
               => \E h \in Handlers : \/ Saves(h, "join") /\ run[h].by = u /\ invite[run[h].inv].org = o
                                      \/ Saves(h, "founder") /\ run[h].by = u /\ h = o
                                      \/ (Saves(h, "save") \/ Saves(h, "rows")) /\ h \in clashed]_ovars
    <2> SUFFICES ASSUME OrgIInv, [OrgNext]_ovars, NEW o \in Orgs, NEW u \in Users,
                        row[o][u] = NoRow, row'[o][u] # NoRow
                 PROVE  \E h \in Handlers : \/ Saves(h, "join") /\ run[h].by = u /\ invite[run[h].inv].org = o
                                            \/ Saves(h, "founder") /\ run[h].by = u /\ h = o
                                            \/ (Saves(h, "save") \/ Saves(h, "rows")) /\ h \in clashed
      OBVIOUS
    <2>1. PICK h \in Handlers : WroteRow(h, o, u) /\ CalledAs(h) /\ at'[h] # at[h] /\ (h \notin clashed => Current(h))
      BY RowStepBy
    <2>2. at[h] = "rows" => run[h].op = "transfer"
      BY <2>1 DEF CalledAs, OpsAt
    <2> QED BY <2>1, <2>2 DEF WroteRow, Saves, Current, NoRow
  <1>3. OrgIInv /\ [OrgNext]_ovars
        => [\A o \in Orgs :
               Exists(o) /\ (org[o].owner # org'[o].owner \/ (org[o].named /\ ~org'[o].named))
               => \E h \in Handlers :
                     /\ run[h].org = o
                     /\ \/ h \in clashed /\ (Saves(h, "save") \/ Saves(h, "owner"))
                        \/ Saves(h, "owner") /\ run[h].by = org[o].owner /\ org'[o].named = org[o].named]_ovars
    <2> SUFFICES ASSUME OrgIInv, [OrgNext]_ovars, NEW o \in Orgs, Exists(o),
                        org[o].owner # org'[o].owner \/ (org[o].named /\ ~org'[o].named)
                 PROVE  \E h \in Handlers :
                           /\ run[h].org = o
                           /\ \/ h \in clashed /\ (Saves(h, "save") \/ Saves(h, "owner"))
                              \/ Saves(h, "owner") /\ run[h].by = org[o].owner /\ org'[o].named = org[o].named
      OBVIOUS
    <2>1. PICK h \in Handlers : WroteOrg(h, o) /\ CalledAs(h) /\ at'[h] # at[h] /\ (h \notin clashed => Current(h))
      BY OrgStepBy
    <2>2. CASE at[h] = "save"
      BY <2>1, <2>2 DEF WroteOrg, Saves, Current
    <2>3. CASE at[h] = "owner"
      <3>1. run[h].op = "transfer"
        BY <2>1, <2>3 DEF CalledAs, OpsAt
      <3> QED BY <2>1, <2>3, <3>1 DEF WroteOrg, Saves, Current
    <2>4. CASE at[h] = "saveOrg"
      BY <2>1, <2>4 DEF WroteOrg, OrgIInv, FoundedInv
    <2> QED BY <2>1, <2>2, <2>3, <2>4 DEF WroteOrg
  <1>4. OrgIInv /\ [OrgNext]_ovars
        => [\A u \in Users :
               OwnedBy(u) # {} /\ Cardinality({o \in Orgs : org'[o].owner = u}) > Cardinality(OwnedBy(u))
               => \E h \in Handlers : \/ Saves(h, "owner") /\ run[h].target = u
                                      \/ h \in clashed /\ (Saves(h, "saveOrg") \/ Saves(h, "save"))]_ovars
    <2> SUFFICES ASSUME OrgIInv, [OrgNext]_ovars, NEW u \in Users, OwnedBy(u) # {},
                        Cardinality({o \in Orgs : org'[o].owner = u}) > Cardinality(OwnedBy(u))
                 PROVE  \E h \in Handlers : \/ Saves(h, "owner") /\ run[h].target = u
                                            \/ h \in clashed /\ (Saves(h, "saveOrg") \/ Saves(h, "save"))
      OBVIOUS
    <2>1. PICK o \in Orgs : org'[o].owner = u /\ org[o].owner # u
      <3>1. SUFFICES ASSUME {o \in Orgs : org'[o].owner = u} \subseteq OwnedBy(u) PROVE FALSE
        BY DEF OwnedBy
      <3>2. IsFiniteSet(Orgs)
        BY HandlersAssumption, FS_AddElement DEF Orgs
      <3>3. IsFiniteSet(OwnedBy(u))
        BY <3>2, FS_Subset DEF OwnedBy
      <3>4. Cardinality({o \in Orgs : org'[o].owner = u}) <= Cardinality(OwnedBy(u))
        BY <3>1, <3>3, FS_Subset
      <3>5. /\ Cardinality({o \in Orgs : org'[o].owner = u}) \in Nat
            /\ Cardinality(OwnedBy(u)) \in Nat
        BY <3>1, <3>3, FS_Subset, FS_CardinalityType
      <3> QED BY <3>4, <3>5
    <2>2. PICK h \in Handlers : WroteOrg(h, o) /\ CalledAs(h) /\ at'[h] # at[h] /\ (h \notin clashed => Current(h))
      BY <2>1, OrgStepBy
    <2>3. CASE at[h] = "save"
      BY <2>1, <2>2, <2>3 DEF WroteOrg, Saves, Current
    <2>4. CASE at[h] \in {"owner", "saveOrg"}
      BY <2>1, <2>2, <2>4 DEF WroteOrg, Saves, Current
    <2> QED BY <2>2, <2>3, <2>4 DEF WroteOrg
  <1> QED BY <1>1, <1>2, <1>3, <1>4, OrgInductive, PTL DEF OrgSpec, OrgSteps, OwnerLostOnlyByTransfer,
             JoinsOnlyByInvitation, OrgRowLostOnlyToStaleSave, FoundsOnce

--------------------------------------------------------------------------------
(* The members page *)

\* Whoever is not known to have changed is in the copy, and in each answer under way, with
\* the role that he has.
CopyInv == \A u \in Others \ missed : list[u] = roles[u]
AnswerInv == \A l \in Loads : load[l].at \in {"members", "both"}
                              => \A u \in Others \ load[l].since : load[l].members[u] = roles[u]

\* A call or a dialog is about somebody.
AboutInv == /\ removing.at # "idle" => removing.user \in Others
            /\ inviting.at # "idle" => inviting.user \in Others
            /\ dialog.kind # "none" => dialog.user \in Others

MembersIInv == MembersTypeOK /\ CopyInv /\ AnswerInv /\ AboutInv

LEMMA MembersStarts == MembersInit => MembersIInv
  <1> SUFFICES ASSUME MembersInit PROVE MembersIInv
    OBVIOUS
  <1> USE NobodyAssumption DEF MembersInit
  <1>1. Nothing \in RolesOf /\ roles \in RolesOf
    BY DEF Nothing, RolesOf
  <1>2. MembersTypeOK
    BY <1>1 DEF MembersTypeOK, NewLoad, NoCall, NoDialog, CallStages
  <1> QED BY <1>2 DEF MembersIInv, CopyInv, AnswerInv, AboutInv, NewLoad, NoCall, NoDialog

\* What a load answers, and what a change leaves of the other answers.
LoadRec == [at : {"fresh", "asked", "members", "both", "failed", "over"}, members : RolesOf,
            invites : SUBSET Others, since : SUBSET Others]

LEMMA ChangedKeeps ==
    ASSUME MembersTypeOK, NEW u \in Others, Changed(u)
    PROVE  /\ load' \in [Loads -> LoadRec]
           /\ \A l \in Loads : /\ load'[l].at = load[l].at /\ load'[l].members = load[l].members
                               /\ load[l].since \subseteq load'[l].since
                               /\ load[l].at \in {"members", "both"} => u \in load'[l].since
  <1>1. ASSUME NEW l \in Loads
        PROVE  /\ load'[l] \in LoadRec
               /\ load'[l].at = load[l].at /\ load'[l].members = load[l].members
               /\ load[l].since \subseteq load'[l].since
               /\ load[l].at \in {"members", "both"} => u \in load'[l].since
    BY <1>1 DEF MembersTypeOK, Changed, LoadRec
  <1> QED BY <1>1 DEF Changed

LEMMA MembersKeeps == MembersIInv /\ [MembersNext]_membersVars => MembersIInv'
  <1> SUFFICES ASSUME MembersIInv, [MembersNext]_membersVars PROVE MembersIInv'
    OBVIOUS
  <1> USE NobodyAssumption
  <1>0. Nothing \in RolesOf
    BY DEF Nothing, RolesOf
  <1>1. ASSUME NEW l \in Loads, Ask(l) PROVE MembersIInv'
    BY <1>1 DEF MembersIInv, MembersTypeOK, CopyInv, AnswerInv, AboutInv, Ask, ServerRows, Copy, Working
  <1>2. CASE CloseTab
    <2>1. open' = FALSE /\ UNCHANGED <<ServerRows, view, loading, Copy, load, Working>>
      BY <1>2 DEF CloseTab
    <2>2. MembersTypeOK'
      BY <2>1 DEF MembersIInv, MembersTypeOK, ServerRows, Copy, Working
    <2> QED BY <2>1, <2>2 DEF MembersIInv, CopyInv, AnswerInv, AboutInv, ServerRows, Copy, Working
  <1>3. ASSUME NEW l \in Loads, GetMembers(l) PROVE MembersIInv'
    <2> USE <1>3 DEF GetMembers, ServerRows, Copy, Working
    <2>0. load \in [Loads -> LoadRec] /\ roles \in RolesOf /\ invites \subseteq Others
      BY DEF MembersIInv, MembersTypeOK, LoadRec
    <2>a. load' \in [Loads -> LoadRec]
      <3>1. load[l] \in LoadRec
        BY <2>0
      <3>2. load'[l] \in LoadRec
        BY <2>0, <3>1 DEF LoadRec
      <3> QED BY <2>0, <3>2
    <2>1. MembersTypeOK'
      BY <2>a DEF MembersIInv, MembersTypeOK, LoadRec
    <2>2. AnswerInv'
      BY <2>0 DEF MembersIInv, AnswerInv, LoadRec
    <2> QED BY <2>1, <2>2 DEF MembersIInv, CopyInv, AboutInv
  <1>4. ASSUME NEW l \in Loads, GetInvitations(l) PROVE MembersIInv'
    <2> USE <1>4 DEF GetInvitations, ServerRows, Copy, Working
    <2>0. load \in [Loads -> LoadRec] /\ roles \in RolesOf /\ invites \cup answered \subseteq Others
      BY DEF MembersIInv, MembersTypeOK, LoadRec
    <2>a. load' \in [Loads -> LoadRec]
      <3>1. load[l] \in LoadRec
        BY <2>0
      <3>2. load'[l] \in LoadRec
        BY <2>0, <3>1 DEF LoadRec
      <3> QED BY <2>0, <3>2
    <2>1. MembersTypeOK'
      BY <2>a DEF MembersIInv, MembersTypeOK, LoadRec
    <2>2. AnswerInv'
      BY <2>0 DEF MembersIInv, AnswerInv, LoadRec
    <2> QED BY <2>1, <2>2 DEF MembersIInv, CopyInv, AboutInv
  <1>5. ASSUME NEW l \in Loads, LoadFails(l) PROVE MembersIInv'
    <2> USE <1>5 DEF LoadFails, ServerRows, Copy, Working
    <2>1. MembersTypeOK'
      BY <1>0 DEF MembersIInv, MembersTypeOK, NewLoad
    <2>2. AnswerInv'
      BY DEF MembersIInv, MembersTypeOK, AnswerInv, NewLoad
    <2> QED BY <2>1, <2>2 DEF MembersIInv, CopyInv, AboutInv
  <1>6. ASSUME NEW l \in Loads, LoadAnswers(l) PROVE MembersIInv'
    <2> USE <1>6 DEF LoadAnswers, ServerRows, Working
    <2>1. MembersTypeOK'
      BY <1>0 DEF MembersIInv, MembersTypeOK, NewLoad
    <2>2. AnswerInv'
      BY DEF MembersIInv, MembersTypeOK, AnswerInv, NewLoad
    <2>3. CopyInv'
      BY DEF MembersIInv, MembersTypeOK, AnswerInv, CopyInv
    <2> QED BY <2>1, <2>2, <2>3 DEF MembersIInv, AboutInv
  <1>7. ASSUME NEW u \in Others, HandleRemoveRequest(u) \/ HandleRoleChangeRequest(u) \/ HandleInvite(u)
        PROVE  MembersIInv'
    <2> USE <1>7 DEF HandleRemoveRequest, HandleRoleChangeRequest, HandleInvite, ServerRows, Copy
    <2>1. MembersTypeOK'
      BY DEF MembersIInv, MembersTypeOK, CallStages
    <2> QED BY <2>1 DEF MembersIInv, CopyInv, AnswerInv, AboutInv
  <1>8. CASE CancelDialog \/ ConfirmRoleChange \/ ConfirmRemove
    <2> USE <1>8 DEF CancelDialog, ConfirmRoleChange, ConfirmRemove, ServerRows, Copy
    <2>1. MembersTypeOK'
      BY DEF MembersIInv, MembersTypeOK, NoDialog, CallStages
    <2> QED BY <2>1 DEF MembersIInv, MembersTypeOK, CopyInv, AnswerInv, AboutInv, NoDialog
  <1>9. CASE DeleteMember
    <2>1. CASE roles[removing.user] # "none" /\ roles' = [roles EXCEPT ![removing.user] = "none"] /\ Changed(removing.user)
               /\ missed' = missed \cup {removing.user}
               /\ \E s \in {"done", "failed"} : removing' = [removing EXCEPT !.at = s]
      <3> DEFINE u == removing.user
      <3>1. u \in Others
        BY <1>9 DEF MembersIInv, AboutInv, DeleteMember
      <3>2. /\ load' \in [Loads -> LoadRec]
            /\ \A l \in Loads : /\ load'[l].at = load[l].at /\ load'[l].members = load[l].members
                                /\ load[l].since \subseteq load'[l].since
                                /\ load[l].at \in {"members", "both"} => u \in load'[l].since
        BY <2>1, <3>1, ChangedKeeps DEF MembersIInv
      <3>3. MembersTypeOK'
        BY <1>9, <2>1, <3>1, <3>2 DEF MembersIInv, MembersTypeOK, DeleteMember, LoadRec, CallStages, RolesOf
      <3>4. roles'[u] = "none" /\ \A v \in Others \ {u} : roles'[v] = roles[v]
        BY <2>1, <3>1 DEF MembersIInv, MembersTypeOK, RolesOf
      <3>5. CopyInv' /\ AnswerInv'
        BY <1>9, <2>1, <3>1, <3>2, <3>4 DEF MembersIInv, CopyInv, AnswerInv, DeleteMember
      <3> QED BY <1>9, <2>1, <3>1, <3>3, <3>5 DEF MembersIInv, MembersTypeOK, AboutInv, DeleteMember
    <2>2. CASE removing' = [removing EXCEPT !.at = "failed"] /\ UNCHANGED <<roles, load, missed>>
      <3>1. removing.user \in Others
        BY <1>9 DEF MembersIInv, AboutInv, DeleteMember
      <3> QED BY <1>9, <2>2, <3>1 DEF MembersIInv, MembersTypeOK, CopyInv, AnswerInv, AboutInv, DeleteMember, CallStages
    <2> QED BY <1>9, <2>1, <2>2 DEF DeleteMember
  <1>10. CASE RemovalAnswers
    <2> USE <1>10 DEF RemovalAnswers, ServerRows
    <2>1. removing.user \in Others
      BY DEF MembersIInv, AboutInv
    <2>2. list' \in RolesOf /\ missed' \subseteq Others
      BY <2>1 DEF MembersIInv, MembersTypeOK, RolesOf
    <2>3. MembersTypeOK'
      BY <2>2 DEF MembersIInv, MembersTypeOK, NoCall, CallStages
    <2>4. CopyInv'
      BY <2>1 DEF MembersIInv, MembersTypeOK, RolesOf, CopyInv
    <2> QED BY <2>3, <2>4 DEF MembersIInv, AnswerInv, AboutInv, NoCall
  <1>11. CASE PostInvitation
    <2> USE <1>11 DEF PostInvitation, Copy
    <2>1. inviting.user \in Others
      BY DEF MembersIInv, AboutInv
    <2>2. MembersTypeOK'
      BY <2>1 DEF MembersIInv, MembersTypeOK, CallStages
    <2> QED BY <2>1, <2>2 DEF MembersIInv, MembersTypeOK, CopyInv, AnswerInv, AboutInv
  <1>12. CASE InviteAnswers
    <2> USE <1>12 DEF InviteAnswers, ServerRows, Copy
    <2>1. MembersTypeOK'
      BY DEF MembersIInv, MembersTypeOK, NoCall, CallStages
    <2> QED BY <2>1 DEF MembersIInv, CopyInv, AnswerInv, AboutInv, NoCall
  <1>13. ASSUME NEW u \in Others, Elsewhere(u) PROVE MembersIInv'
    <2> USE <1>13 DEF Elsewhere, Working
    <2>1. /\ load' \in [Loads -> LoadRec]
          /\ \A l \in Loads : /\ load'[l].at = load[l].at /\ load'[l].members = load[l].members
                              /\ load[l].since \subseteq load'[l].since
                              /\ load[l].at \in {"members", "both"} => u \in load'[l].since
      BY ChangedKeeps DEF MembersIInv
    <2>0. roles \in RolesOf
      BY DEF MembersIInv, MembersTypeOK
    <2>2. roles' \in RolesOf /\ \A v \in Others \ {u} : roles'[v] = roles[v]
      BY <2>0 DEF RolesOf
    <2>3. MembersTypeOK'
      BY <2>1, <2>2 DEF MembersIInv, MembersTypeOK, LoadRec
    <2>4. CopyInv' /\ AnswerInv'
      BY <2>1, <2>2 DEF MembersIInv, CopyInv, AnswerInv
    <2> QED BY <2>3, <2>4 DEF MembersIInv, AboutInv
  <1>14. CASE UNCHANGED membersVars
    BY <1>14 DEF MembersIInv, MembersTypeOK, CopyInv, AnswerInv, AboutInv, membersVars
  <1> QED BY <1>1, <1>2, <1>3, <1>4, <1>5, <1>6, <1>7, <1>8, <1>9, <1>10, <1>11, <1>12, <1>13, <1>14
          DEF MembersNext, OpenMembersTab, LoadMembers

LEMMA ComesBack ==
    ASSUME MembersIInv, [MembersNext]_membersVars, NEW u \in Others,
           list[u] = "none", list'[u] # "none", roles[u] = "none"
    PROVE  \E l \in Loads : load[l].at = "both" /\ load'[l].at = "over" /\ u \in load[l].since
  <1>1. list' # list
    OBVIOUS
  <1>2. ~RemovalAnswers
    BY DEF RemovalAnswers, MembersIInv, MembersTypeOK, RolesOf
  <1>3. PICK l \in Loads : LoadAnswers(l)
    BY <1>1, <1>2 DEF MembersNext, membersVars, OpenMembersTab, LoadMembers, Ask, GetMembers, GetInvitations, LoadFails,
       HandleRemoveRequest, HandleRoleChangeRequest, HandleInvite, Elsewhere, CloseTab, CancelDialog,
       ConfirmRoleChange, ConfirmRemove, DeleteMember, PostInvitation, InviteAnswers, Copy
  <1>4. load[l].members[u] # roles[u]
    BY <1>3 DEF LoadAnswers
  <1>5. u \in load[l].since
    BY <1>3, <1>4 DEF LoadAnswers, MembersIInv, AnswerInv
  <1>6. load'[l].at = "over"
    BY <1>3 DEF LoadAnswers, MembersIInv, MembersTypeOK, NewLoad
  <1> QED BY <1>3, <1>5, <1>6 DEF LoadAnswers

--------------------------------------------------------------------------------
(* The settings of an organization *)

\* What is shown while which call is under way: a page that is loading waits for its read,
\* and calls are made only where their form is.
StageInv ==
    /\ reading.at = "idle" <=> page # "loading"
    /\ creating \in {"sent", "extras", "failed"} => page = "create"
    /\ creating = "done" => page \in {"create", "loading"}
    /\ saving # "idle" => page = "dashboard" \/ (page = "loading" /\ saving = "done" /\ screen = "tab")

\* What an answer says is still so, but for the fields written since it was read, and an organization gained since.
ReadInv ==
    /\ reading.at = "got" /\ ~reading.owned /\ owned => gained
    /\ reading.at = "got" /\ reading.owned /\ owned => \A f \in Fields : reading.got[f] # profile[f] => f \in stale

\* What is shown against the row.
ShownInv ==
    /\ page = "create" /\ owned /\ creating \notin {"done", "extras"} => half \/ gained
    /\ page = "dashboard" /\ owned /\ saving = "done"
         => \A f \in Fields : form[f] \in {Blank, profile[f]} \/ f \in stale
    /\ page = "dashboard" /\ owned
         => \A f \in Fields : form[f] \in {Blank, profile[f]} \/ f \in typed \cup stale

SettingsIInv == SettingsTypeOK /\ StageInv /\ ReadInv /\ ShownInv

LEMMA SettingsStarts == SettingsInit => SettingsIInv
  <1> SUFFICES ASSUME SettingsInit PROVE SettingsIInv
    OBVIOUS
  <1> USE DEF SettingsInit
  <1>1. Empty \in Values /\ profile \in Values
    BY DEF Empty, Values
  <1>2. SettingsTypeOK
    BY <1>1 DEF SettingsTypeOK, NotAsked, CallStage
  <1> QED BY <1>2 DEF SettingsIInv, StageInv, ReadInv, ShownInv, NotAsked

\* A record with the stage of a read is a read.
LEMMA Asked == /\ Empty \in Values
               /\ NotAsked \in [at : {"idle", "asked", "got", "failed"}, owned : BOOLEAN, got : Values]
               /\ NotAsked.at = "idle"
               /\ [NotAsked EXCEPT !.at = "asked"] \in [at : {"idle", "asked", "got", "failed"}, owned : BOOLEAN, got : Values]
               /\ [NotAsked EXCEPT !.at = "asked"].at = "asked"
  <1>1. Empty \in Values
    BY DEF Empty, Values
  <1> QED BY <1>1 DEF NotAsked

LEMMA SettingsTypeStep == SettingsIInv /\ [SettingsNext]_settingsVars => SettingsTypeOK'
  <1> SUFFICES ASSUME SettingsTypeOK, [SettingsNext]_settingsVars PROVE SettingsTypeOK'
    BY DEF SettingsIInv
  <1> USE DEF SettingsTypeOK, CallStage, Pending, Marks
  <1>1. CASE GetOwnOrganization
    <2>1. reading' \in [at : {"idle", "asked", "got", "failed"}, owned : BOOLEAN, got : Values]
      BY <1>1 DEF GetOwnOrganization
    <2>2. stale' \subseteq Fields /\ gained' \in BOOLEAN
      BY <1>1 DEF GetOwnOrganization
    <2>3. UNCHANGED <<owned, profile, screen, page, form, draft, saving, creating, transferring, success, typed, half>>
      BY <1>1 DEF GetOwnOrganization
    <2> QED BY <2>1, <2>2, <2>3
  <1>2. CASE LoadOrg \/ LoadOrgFails
    <2>1. CASE LoadOrg
      BY <2>1, Asked DEF LoadOrg
    <2>2. CASE LoadOrgFails
      BY <2>2, Asked DEF LoadOrgFails
    <2> QED BY <1>2, <2>1, <2>2
  <1>3. CASE Return \/ TabSaved \/ Created
    <2>1. CASE Return
      BY <2>1, Asked DEF Return
    <2>2. CASE TabSaved
      BY <2>2, Asked DEF TabSaved
    <2>3. CASE Created
      BY <2>3, Asked DEF Created
    <2> QED BY <1>3, <2>1, <2>2, <2>3
  <1>4. ASSUME NEW f \in Fields, NEW w \in Words \cup {Blank}, Type(f, w) PROVE SettingsTypeOK'
    <2>1. form' \in Values
      BY <1>4 DEF Type, Values
    <2> QED BY <1>4, <2>1 DEF Type
  <1>5. ASSUME NEW f \in Fields, NEW w \in Words \cup {Blank}, WrittenElsewhere(f, w) PROVE SettingsTypeOK'
    <2>1. profile' \in Values
      BY <1>5 DEF WrittenElsewhere, Values
    <2> QED BY <1>5, <2>1 DEF WrittenElsewhere
  <1>6. CASE HandleSettingsSubmit \/ PageSaved \/ SettingsRefused
    <2>1. CASE HandleSettingsSubmit
      <3>1. UNCHANGED <<owned, profile, screen, page, form, draft, reading, creating, transferring, typed, stale, half, gained>>
        BY <2>1 DEF HandleSettingsSubmit
      <3>2. saving' \in CallStage /\ success' \in BOOLEAN
        BY <2>1 DEF HandleSettingsSubmit
      <3> QED BY <3>1, <3>2
    <2>2. CASE PageSaved
      BY <2>2 DEF PageSaved
    <2>3. CASE SettingsRefused
      BY <2>3 DEF SettingsRefused
    <2> QED BY <1>6, <2>1, <2>2, <2>3
  <1>7. CASE PutProfile
    <2>1. Merged(form) \in Values
      BY DEF Merged, Values
    <2> QED BY <1>7, <2>1 DEF PutProfile
  <1>8. ASSUME NEW v \in Values, HandleCreate(v) PROVE SettingsTypeOK'
    BY <1>8 DEF HandleCreate
  <1>9. CASE PostOrganization
    <2>1. profile' \in Values
      BY <1>9 DEF PostOrganization, Values, Empty, Fields
    <2>2. owned' \in BOOLEAN /\ creating' \in CallStage
      BY <1>9 DEF PostOrganization
    <2>3. half' \in BOOLEAN
      BY <1>9 DEF PostOrganization
    <2>4. UNCHANGED <<screen, page, form, draft, reading, saving, transferring, success, typed, stale, gained>>
      BY <1>9 DEF PostOrganization
    <2> QED BY <2>1, <2>2, <2>3, <2>4
  <1>10. CASE PutExtras
    <2>1. profile' \in Values
      BY <1>10 DEF PutExtras, Values, Fields
    <2> QED BY <1>10, <2>1 DEF PutExtras
  <1>11. CASE CreationRefused \/ HandleTransferOwnership \/ TransferAnswers
    <2>1. CASE CreationRefused
      BY <2>1 DEF CreationRefused
    <2>2. CASE HandleTransferOwnership
      BY <2>2 DEF HandleTransferOwnership
    <2>3. CASE TransferAnswers
      BY <2>3 DEF TransferAnswers
    <2> QED BY <1>11, <2>1, <2>2, <2>3
  <1>12. CASE PostTransfer
    <2>1. profile' \in Values
      BY <1>12, Asked DEF PostTransfer
    <2>2. owned' \in BOOLEAN /\ transferring' \in CallStage
      BY <1>12 DEF PostTransfer
    <2>3. UNCHANGED <<screen, page, form, draft, reading, saving, creating, success, Marks>>
      BY <1>12 DEF PostTransfer
    <2> QED BY <2>1, <2>2, <2>3
  <1>13. CASE UNCHANGED settingsVars
    BY <1>13 DEF settingsVars
  <1>14. ASSUME NEW v \in Values, GainedElsewhere(v) PROVE SettingsTypeOK'
    BY <1>14 DEF GainedElsewhere
  <1>15. CASE PassedOnElsewhere
    <2>1. profile' \in Values /\ owned' \in BOOLEAN
      BY <1>15, Asked DEF PassedOnElsewhere
    <2>2. UNCHANGED <<screen, page, form, draft, reading, saving, creating, transferring, success, typed, stale, half, gained>>
      BY <1>15 DEF PassedOnElsewhere
    <2> QED BY <2>1, <2>2
  <1> QED BY <1>1, <1>2, <1>3, <1>4, <1>5, <1>6, <1>7, <1>8, <1>9, <1>10, <1>11, <1>12, <1>13, <1>14, <1>15 DEF SettingsNext

LEMMA StageStep == SettingsIInv /\ [SettingsNext]_settingsVars => StageInv'
  <1> SUFFICES ASSUME SettingsTypeOK, StageInv, [SettingsNext]_settingsVars PROVE StageInv'
    BY DEF SettingsIInv
  <1> USE DEF StageInv, Pending, Marks
  <1>1. CASE GetOwnOrganization
    BY <1>1 DEF GetOwnOrganization, SettingsTypeOK
  <1>2. CASE LoadOrg \/ LoadOrgFails
    BY <1>2, Asked DEF LoadOrg, LoadOrgFails
  <1>3. CASE Return \/ TabSaved \/ Created
    BY <1>3, Asked DEF Return, TabSaved, Created
  <1>4. CASE \E f \in Fields, w \in Words \cup {Blank} : Type(f, w) \/ WrittenElsewhere(f, w)
    BY <1>4 DEF Type, WrittenElsewhere
  <1>5. CASE HandleSettingsSubmit \/ PageSaved \/ SettingsRefused \/ PutProfile
    BY <1>5 DEF HandleSettingsSubmit, PageSaved, SettingsRefused, PutProfile
  <1>6. CASE (\E v \in Values : HandleCreate(v)) \/ PostOrganization \/ PutExtras \/ CreationRefused
    BY <1>6 DEF HandleCreate, PostOrganization, PutExtras, CreationRefused
  <1>7. CASE HandleTransferOwnership \/ TransferAnswers \/ PostTransfer
    BY <1>7 DEF HandleTransferOwnership, TransferAnswers, PostTransfer
  <1>8. CASE UNCHANGED settingsVars
    BY <1>8 DEF settingsVars
  <1>9. CASE (\E v \in Values : GainedElsewhere(v)) \/ PassedOnElsewhere
    BY <1>9 DEF GainedElsewhere, PassedOnElsewhere
  <1> QED BY <1>1, <1>2, <1>3, <1>4, <1>5, <1>6, <1>7, <1>8, <1>9 DEF SettingsNext

LEMMA ReadStep == SettingsIInv /\ [SettingsNext]_settingsVars => ReadInv'
  <1> SUFFICES ASSUME SettingsTypeOK, StageInv, ReadInv, [SettingsNext]_settingsVars PROVE ReadInv'
    BY DEF SettingsIInv
  <1> USE DEF ReadInv, Pending, Marks
  <1>1. CASE GetOwnOrganization
    BY <1>1 DEF GetOwnOrganization, SettingsTypeOK
  <1>2. CASE LoadOrg \/ LoadOrgFails \/ Return \/ TabSaved \/ Created
    BY <1>2, Asked DEF LoadOrg, LoadOrgFails, Return, TabSaved, Created
  <1>3. ASSUME NEW f \in Fields, NEW w \in Words \cup {Blank}, WrittenElsewhere(f, w) PROVE ReadInv'
    BY <1>3 DEF WrittenElsewhere, SettingsTypeOK, Values
  <1>4. CASE (\E f \in Fields, w \in Words \cup {Blank} : Type(f, w)) \/ HandleSettingsSubmit \/ PageSaved \/ SettingsRefused
    BY <1>4 DEF Type, HandleSettingsSubmit, PageSaved, SettingsRefused
  <1>5. CASE PutProfile \/ PostOrganization \/ PutExtras
    BY <1>5 DEF PutProfile, PostOrganization, PutExtras, StageInv
  <1>6. CASE (\E v \in Values : HandleCreate(v)) \/ CreationRefused \/ HandleTransferOwnership \/ TransferAnswers
    BY <1>6 DEF HandleCreate, CreationRefused, HandleTransferOwnership, TransferAnswers
  <1>7. CASE PostTransfer
    BY <1>7 DEF PostTransfer
  <1>8. CASE UNCHANGED settingsVars
    BY <1>8 DEF settingsVars
  <1>9. CASE (\E v \in Values : GainedElsewhere(v)) \/ PassedOnElsewhere
    BY <1>9 DEF GainedElsewhere, PassedOnElsewhere
  <1> QED BY <1>1, <1>2, <1>3, <1>4, <1>5, <1>6, <1>7, <1>8, <1>9 DEF SettingsNext

LEMMA ShownStep == SettingsIInv /\ [SettingsNext]_settingsVars => ShownInv'
  <1> SUFFICES ASSUME SettingsTypeOK, StageInv, ReadInv, ShownInv, [SettingsNext]_settingsVars PROVE ShownInv'
    BY DEF SettingsIInv
  <1> USE DEF ShownInv, Pending, Marks
  <1>1. CASE GetOwnOrganization
    BY <1>1 DEF GetOwnOrganization, StageInv
  <1>2. CASE LoadOrg
    BY <1>2 DEF LoadOrg, ReadInv
  <1>3. CASE LoadOrgFails \/ Return \/ TabSaved \/ Created
    BY <1>3 DEF LoadOrgFails, Return, TabSaved, Created
  <1>4. ASSUME NEW f \in Fields, NEW w \in Words \cup {Blank}, Type(f, w) PROVE ShownInv'
    BY <1>4 DEF Type, SettingsTypeOK, Values
  <1>5. ASSUME NEW f \in Fields, NEW w \in Words \cup {Blank}, WrittenElsewhere(f, w) PROVE ShownInv'
    BY <1>5 DEF WrittenElsewhere, SettingsTypeOK, Values
  <1>6. CASE HandleSettingsSubmit \/ PageSaved \/ SettingsRefused
    BY <1>6 DEF HandleSettingsSubmit, PageSaved, SettingsRefused
  <1>7. CASE PutProfile
    BY <1>7 DEF PutProfile, Merged, StageInv
  <1>8. ASSUME NEW v \in Values, HandleCreate(v) PROVE ShownInv'
    BY <1>8 DEF HandleCreate
  <1>9. CASE PostOrganization \/ PutExtras
    BY <1>9 DEF PostOrganization, PutExtras, StageInv
  <1>10. CASE CreationRefused \/ HandleTransferOwnership \/ TransferAnswers
    BY <1>10 DEF CreationRefused, HandleTransferOwnership, TransferAnswers
  <1>11. CASE PostTransfer
    BY <1>11 DEF PostTransfer
  <1>12. CASE UNCHANGED settingsVars
    BY <1>12 DEF settingsVars
  <1>13. CASE (\E v \in Values : GainedElsewhere(v)) \/ PassedOnElsewhere
    BY <1>13 DEF GainedElsewhere, PassedOnElsewhere
  <1> QED BY <1>1, <1>2, <1>3, <1>4, <1>5, <1>6, <1>7, <1>8, <1>9, <1>10, <1>11, <1>12, <1>13 DEF SettingsNext

LEMMA SettingsKeeps == SettingsIInv /\ [SettingsNext]_settingsVars => SettingsIInv'
  BY SettingsTypeStep, StageStep, ReadStep, ShownStep DEF SettingsIInv

\* What the page says of a save, and what a save changes.
SaidStep  == ~success /\ success' => ~owned \/ \A f \in Fields : form[f] \in {Blank, profile[f]} \/ f \in stale
FieldStep == saving = "sent" /\ saving' # "sent"
             => \A f \in Fields : profile'[f] # profile[f] => f \in typed \cup stale

LEMMA SettingsStep == SettingsIInv /\ [SettingsNext]_settingsVars => SaidStep /\ FieldStep
  <1> SUFFICES ASSUME SettingsTypeOK, StageInv, ReadInv, ShownInv, [SettingsNext]_settingsVars
               PROVE  SaidStep /\ FieldStep
    BY DEF SettingsIInv
  <1> USE DEF SaidStep, FieldStep, Pending, Marks
  <1>1. CASE TabSaved \/ PageSaved
    BY <1>1 DEF TabSaved, PageSaved, StageInv, ShownInv
  <1>2. CASE PutProfile
    BY <1>2 DEF PutProfile, Merged, StageInv, ShownInv
  <1>3. CASE Return \/ LoadOrg \/ LoadOrgFails \/ GetOwnOrganization
    BY <1>3 DEF Return, LoadOrg, LoadOrgFails, GetOwnOrganization
  <1>4. CASE \E f \in Fields, w \in Words \cup {Blank} : Type(f, w) \/ WrittenElsewhere(f, w)
    BY <1>4 DEF Type, WrittenElsewhere
  <1>5. CASE HandleSettingsSubmit \/ SettingsRefused \/ (\E v \in Values : HandleCreate(v))
    BY <1>5 DEF HandleSettingsSubmit, SettingsRefused, HandleCreate
  <1>6. CASE PostOrganization \/ PutExtras \/ Created \/ CreationRefused
    BY <1>6 DEF PostOrganization, PutExtras, Created, CreationRefused
  <1>7. CASE HandleTransferOwnership \/ PostTransfer \/ TransferAnswers
    BY <1>7 DEF HandleTransferOwnership, PostTransfer, TransferAnswers
  <1>8. CASE UNCHANGED settingsVars
    BY <1>8 DEF settingsVars
  <1>9. CASE (\E v \in Values : GainedElsewhere(v)) \/ PassedOnElsewhere
    BY <1>9 DEF GainedElsewhere, PassedOnElsewhere
  <1> QED BY <1>1, <1>2, <1>3, <1>4, <1>5, <1>6, <1>7, <1>8, <1>9 DEF SettingsNext

--------------------------------------------------------------------------------
(* Both pages *)

LEMMA PagesKeep ==
    MembersIInv /\ SettingsIInv /\ [MCNext]_<<ovars, membersVars, settingsVars, part>> => (MembersIInv /\ SettingsIInv)'
  <1> SUFFICES ASSUME MembersIInv, SettingsIInv, [MCNext]_<<ovars, membersVars, settingsVars, part>>
               PROVE  MembersIInv' /\ SettingsIInv'
    OBVIOUS
  <1>1. [MembersNext]_membersVars /\ [SettingsNext]_settingsVars
    BY DEF MCNext
  <1> QED BY <1>1, MembersKeeps, SettingsKeeps

\* For every number of members, loads and words: the list of the members page shows every
\* member's role but for those changed behind its back, and the owner of an organization is
\* asked to create one only after a creation that did not come to its end or when he became
\* the owner elsewhere since.
THEOREM PagesInvHolds == MCSpec => []PagesInv
  <1>1. MCInit => MembersIInv /\ SettingsIInv
    BY MembersStarts, SettingsStarts DEF MCInit
  <1>2. MembersIInv /\ SettingsIInv => PagesInv
    BY DEF MembersIInv, SettingsIInv, CopyInv, ShownInv, PagesInv, MembersInv, ListIsTrue, SettingsInv, CreateFormOnlyWithoutOrg
  <1> QED BY <1>1, <1>2, PagesKeep, PTL DEF MCSpec

\* A member who was removed comes back into the list only with a load that was under way when
\* he was removed; "Changes saved successfully" is true of what is in the row; and a save
\* changes a field that the user did not type into only if it was written elsewhere.
THEOREM PagesStepsHolds == MCSpec => PagesSteps
  <1>1. MCInit => MembersIInv /\ SettingsIInv
    BY MembersStarts, SettingsStarts DEF MCInit
  <1>2. MembersIInv /\ [MCNext]_<<ovars, membersVars, settingsVars, part>>
        => [\A u \in Others :
               list[u] = "none" /\ list'[u] # "none" /\ roles[u] = "none"
               => \E l \in Loads : load[l].at = "both" /\ load'[l].at = "over" /\ u \in load[l].since]_membersVars
    BY ComesBack DEF MCNext
  <1>3. SettingsIInv /\ [MCNext]_<<ovars, membersVars, settingsVars, part>>
        => [~success /\ success' =>
               ~owned \/ \A f \in Fields : form[f] \in {Blank, profile[f]} \/ f \in stale]_settingsVars
    BY SettingsStep DEF MCNext, SaidStep
  <1>4. SettingsIInv /\ [MCNext]_<<ovars, membersVars, settingsVars, part>>
        => [saving = "sent" /\ saving' # "sent"
            => \A f \in Fields : profile'[f] # profile[f] => f \in typed \cup stale]_settingsVars
    BY SettingsStep DEF MCNext, FieldStep
  <1> QED BY <1>1, <1>2, <1>3, <1>4, PagesKeep, PTL
          DEF MCSpec, PagesSteps, RemovedComesBackOnlyWithOldLoad, SettingsSteps, SaidSavedIsSaved, FieldLostOnlyToStaleForm
====
