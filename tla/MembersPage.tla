---- MODULE MembersPage ----
(***************************************************************************)
(* The members of an organization in the owner's browser: the members tab  *)
(* of organization/page.tsx and organization/members/page.tsx.  The page   *)
(* keeps a copy of the members and of the invitations; loads overlap, and  *)
(* a load that was under way during a removal still replaces the copy.     *)
(***************************************************************************)
EXTENDS Naturals, FiniteSets

CONSTANTS
    Others,        \* users other than the owner; each with an email address
    Loads,         \* loads of the lists: a bound on their number
    Nobody

ASSUME NobodyAssumption == Nobody \notin Others

VARIABLES
    roles,         \* organization_members of the others
    invites,       \* addresses with a pending invitation
    answered,      \* addresses with one that was accepted
    view,          \* the tab of the dashboard, or the page of its own
    open,          \* is the tab, or the page, shown?
    loading,       \* membersLoading
    list, listed,  \* members, pendingInvitations
    load,          \* each load: how far it is, what it read, who has changed since
    dialog,        \* pendingRemoval, pendingRoleChange
    removing,      \* removingUserId, and how far the call is
    inviting,      \* isInviting, and how far the call is
    told,          \* the address of inviteSuccess
    missed         \* users changed behind the back of the page (history)

membersVars == <<roles, invites, answered, view, open, loading, list, listed, load, dialog, removing, inviting, told, missed>>

RolesOf   == [Others -> {"none", "admin", "viewer"}]
CallStages    == {"idle", "sent", "done", "failed"}
NoCall      == [user |-> Nobody, at |-> "idle"]
NoDialog  == [kind |-> "none", user |-> Nobody]
Nothing   == [u \in Others |-> "none"]
NewLoad   == [at |-> "fresh", members |-> Nothing, invites |-> {}, since |-> {}]

MembersTypeOK ==
    /\ roles \in RolesOf /\ list \in RolesOf
    /\ invites \subseteq Others /\ answered \subseteq Others /\ listed \subseteq Others /\ missed \subseteq Others
    /\ view \in {"tab", "page"} /\ open \in BOOLEAN /\ loading \in BOOLEAN
    /\ load \in [Loads -> [at : {"fresh", "asked", "members", "both", "failed", "over"}, members : RolesOf,
                           invites : SUBSET Others, since : SUBSET Others]]
    /\ dialog \in [kind : {"none", "remove", "role"}, user : Others \cup {Nobody}]
    /\ removing \in [user : Others \cup {Nobody}, at : CallStages]
    /\ inviting \in [user : Others \cup {Nobody}, at : CallStages]
    /\ told \in Others \cup {Nobody}

MembersInit ==
    /\ roles \in [Others -> {"none", "admin"}]
    /\ invites = {} /\ answered = {}
    /\ view \in {"tab", "page"}
    /\ open = FALSE /\ loading = FALSE
    /\ list = Nothing /\ listed = {}
    /\ load = [l \in Loads |-> NewLoad]
    /\ dialog = NoDialog /\ removing = NoCall /\ inviting = NoCall
    /\ told = Nobody
    /\ missed = Others

--------------------------------------------------------------------------------

ServerRows  == <<roles, invites, answered>>
Copy    == <<list, listed, missed>>
Working == <<dialog, removing, inviting, told>>

(* Loads: nothing cancels one, or compares it with a later one *)

Ask(l) ==
    /\ load[l].at = "fresh"
    /\ load' = [load EXCEPT ![l].at = "asked"]
    /\ open' = TRUE /\ loading' = TRUE
    /\ UNCHANGED <<ServerRows, view, Copy, Working>>

\* The effect of [activeTab, org]: the tab is chosen, or a saved profile reloads `org`
\* while the tab is shown.
OpenMembersTab(l) == view = "tab" /\ Ask(l)

\* The page of its own loads when it is mounted.
LoadMembers(l) == view = "page" /\ ~open /\ Ask(l)

CloseTab ==
    /\ view = "tab" /\ open /\ dialog = NoDialog
    /\ open' = FALSE
    /\ UNCHANGED <<ServerRows, view, loading, Copy, load, Working>>

\* GET me/members: the rows, and then the users' names.
GetMembers(l) ==
    /\ load[l].at = "asked"
    /\ load' = [load EXCEPT ![l].at = "members", ![l].members = roles, ![l].since = {}]
    /\ UNCHANGED <<ServerRows, view, open, loading, Copy, Working>>

\* GET me/invitations: whatever their status, though both pages call them pending.
GetInvitations(l) ==
    /\ load[l].at = "members"
    /\ load' = [load EXCEPT ![l].at = "both", ![l].invites = invites \cup answered]
    /\ UNCHANGED <<ServerRows, view, open, loading, Copy, Working>>

\* Promise.all: one failure, and neither list is replaced.
LoadFails(l) ==
    /\ load[l].at \in {"asked", "members", "both"}
    /\ load' = [load EXCEPT ![l] = [NewLoad EXCEPT !.at = "over"]]
    /\ loading' = FALSE
    /\ UNCHANGED <<ServerRows, view, open, Copy, Working>>

LoadAnswers(l) ==
    /\ load[l].at = "both"
    /\ list' = load[l].members /\ listed' = load[l].invites
    /\ missed' = load[l].since
    /\ loading' = FALSE
    /\ load' = [load EXCEPT ![l] = [NewLoad EXCEPT !.at = "over"]]
    /\ UNCHANGED <<ServerRows, view, open, Working>>

(* What the owner clicks *)

Shown == open /\ ~loading /\ dialog = NoDialog

\* Offered for everybody but the owner.
HandleRemoveRequest(u) ==
    /\ Shown /\ list[u] # "none" /\ removing.user # u
    /\ dialog' = [kind |-> "remove", user |-> u]
    /\ UNCHANGED <<ServerRows, view, open, loading, Copy, load, removing, inviting, told>>

HandleRoleChangeRequest(u) ==
    /\ Shown /\ list[u] # "none"
    /\ dialog' = [kind |-> "role", user |-> u]
    /\ UNCHANGED <<ServerRows, view, open, loading, Copy, load, removing, inviting, told>>

CancelDialog ==
    /\ dialog # NoDialog
    /\ dialog' = NoDialog
    /\ UNCHANGED <<ServerRows, view, open, loading, Copy, load, removing, inviting, told>>

\* The client sends PATCH me/members/:userId; the API serves PUT me/members/:userId/role.
\* Every change is answered with 404, and the list stays.
ConfirmRoleChange ==
    /\ dialog.kind = "role"
    /\ dialog' = NoDialog
    /\ UNCHANGED <<ServerRows, view, open, loading, Copy, load, removing, inviting, told>>

ConfirmRemove ==
    /\ dialog.kind = "remove" /\ removing = NoCall
    /\ dialog' = NoDialog
    /\ removing' = [user |-> dialog.user, at |-> "sent"]
    /\ UNCHANGED <<ServerRows, view, open, loading, Copy, load, inviting, told>>

Changed(u) == load' = [l \in Loads |-> IF load[l].at \in {"members", "both"}
                                       THEN [load[l] EXCEPT !.since = @ \cup {u}] ELSE load[l]]

\* DELETE me/members/:userId; its answer may be lost.
DeleteMember ==
    LET u == removing.user IN
    /\ removing.at = "sent"
    /\ \/ roles[u] # "none" /\ roles' = [roles EXCEPT ![u] = "none"] /\ Changed(u)
          /\ missed' = missed \cup {u}
          /\ \E s \in {"done", "failed"} : removing' = [removing EXCEPT !.at = s]
       \/ removing' = [removing EXCEPT !.at = "failed"] /\ UNCHANGED <<roles, load, missed>>
    /\ UNCHANGED <<invites, answered, view, open, loading, list, listed, dialog, inviting, told>>

\* A slip: the list is left to the next load.
KeepListed ==
    /\ removing.at \in {"done", "failed"}
    /\ removing' = NoCall
    /\ missed' = IF removing.at = "done" THEN missed \ {removing.user} ELSE missed
    /\ UNCHANGED <<ServerRows, view, open, loading, list, listed, load, dialog, inviting, told>>

RemovalAnswers ==
    LET u == removing.user IN
    /\ removing.at \in {"done", "failed"}
    /\ removing' = NoCall
    /\ list' = IF removing.at = "done" THEN [list EXCEPT ![u] = "none"] ELSE list
    /\ missed' = IF removing.at = "failed" THEN missed
                 ELSE IF roles[u] = "none" THEN missed \ {u} ELSE missed \cup {u}
    /\ UNCHANGED <<ServerRows, view, open, loading, listed, load, dialog, inviting, told>>

HandleInvite(u) ==
    /\ open /\ dialog = NoDialog /\ inviting = NoCall
    /\ inviting' = [user |-> u, at |-> "sent"]
    /\ told' = Nobody
    /\ UNCHANGED <<ServerRows, view, open, loading, Copy, load, dialog, removing>>

\* POST me/invitations: refused for a member or an address already invited.
PostInvitation ==
    LET u == inviting.user IN
    /\ inviting.at = "sent"
    /\ \/ roles[u] = "none" /\ u \notin invites /\ invites' = invites \cup {u}
          /\ \E s \in {"done", "failed"} : inviting' = [inviting EXCEPT !.at = s]
       \/ inviting' = [inviting EXCEPT !.at = "failed"] /\ UNCHANGED invites
    /\ UNCHANGED <<roles, answered, view, open, loading, Copy, load, dialog, removing, told>>

\* The page thanks, and does not load the invitations again.
InviteAnswers ==
    /\ inviting.at \in {"done", "failed"}
    /\ told' = IF inviting.at = "done" THEN inviting.user ELSE told
    /\ inviting' = NoCall
    /\ UNCHANGED <<ServerRows, view, open, loading, Copy, load, dialog, removing>>

(* Meanwhile, elsewhere *)

\* The invitation is accepted, the member is removed in another tab.
Elsewhere(u) ==
    /\ \/ /\ u \in invites /\ roles' = [roles EXCEPT ![u] = "viewer"]
          /\ invites' = invites \ {u} /\ answered' = answered \cup {u}
       \/ roles[u] # "none" /\ roles' = [roles EXCEPT ![u] = "none"] /\ UNCHANGED <<invites, answered>>
    /\ Changed(u)
    /\ missed' = missed \cup {u}
    /\ UNCHANGED <<view, open, loading, list, listed, Working>>

MembersNext ==
    \/ \E l \in Loads : \/ OpenMembersTab(l) \/ LoadMembers(l) \/ GetMembers(l)
                        \/ GetInvitations(l) \/ LoadFails(l) \/ LoadAnswers(l)
    \/ \E u \in Others : \/ HandleRemoveRequest(u) \/ HandleRoleChangeRequest(u)
                         \/ HandleInvite(u) \/ Elsewhere(u)
    \/ CloseTab \/ CancelDialog \/ ConfirmRoleChange \/ ConfirmRemove
    \/ DeleteMember \/ RemovalAnswers \/ PostInvitation \/ InviteAnswers

MembersSpec == MembersInit /\ [][MembersNext]_membersVars

--------------------------------------------------------------------------------

\* The list shows the members with their roles, but for those who were changed behind the
\* back of the page, or while the load it shows was under way.
ListIsTrue ==
    removing = NoCall => \A u \in Others \ missed : list[u] = roles[u]

\* Whoever was removed comes back into the list only with a load that was under way when he
\* was removed, or because he has joined again.
RemovedComesBackOnlyWithOldLoad ==
    [][\A u \in Others :
          list[u] = "none" /\ list'[u] # "none" /\ roles[u] = "none"
          => \E l \in Loads : load[l].at = "both" /\ load'[l].at = "over" /\ u \in load[l].since]_membersVars

MembersInv == MembersTypeOK /\ ListIsTrue

\* Not kept by the code (README.md, section 3): "Change X's role from admin to viewer?" and
\* Confirm changes the role.
RoleChangeTakesEffect ==
    [][dialog.kind = "role" /\ dialog' = NoDialog => removing' # removing \/ roles' # roles]_membersVars

\* Not kept by the code (README.md, section 3): an address that was invited is among the
\* pending invitations.
InvitedIsListed == told \in invites /\ ~loading => told \in listed

\* Not kept by the code (README.md, section 3): "List pending invitations": what a load brings
\* is pending.
OnlyPendingBrought == \A l \in Loads : load[l].at = "both" => load[l].invites \cap answered \subseteq invites

================================================================================
