---- MODULE SettingsForm ----
(***************************************************************************)
(* The profile of an organization in its owner's browser: the form that    *)
(* creates one, the settings tab of organization/page.tsx, which loads the *)
(* organization again after a save, and organization/settings/page.tsx,    *)
(* which does not.  A save sends every field as the form has it, changed   *)
(* or not, and leaves out those that are empty.                            *)
(***************************************************************************)
EXTENDS Naturals

CONSTANTS Words, Blank

ASSUME BlankAssumption == Blank \notin Words

VARIABLES
    owned,         \* does the user own an organization?
    profile,       \* its row
    screen,        \* the tab of the dashboard, or the page of its own
    page,          \* what is shown
    form,          \* settingsName, settingsBio
    draft,         \* the form that creates an organization
    reading,       \* loadOrg: the stage of GET organizations/me, and its answer
    saving, creating, transferring,  \* stages of the calls
    success,       \* settingsSuccess
    typed,         \* fields typed into since they were loaded (history)
    stale,         \* fields written elsewhere since they were read (history)
    half,          \* a creation that did not come to its end (history)
    gained         \* an organization was gained elsewhere since they were read (history)

settingsVars == <<owned, profile, screen, page, form, draft, reading, saving, creating,
                  transferring, success, typed, stale, half, gained>>

Fields    == {"name", "bio"}
Values    == [Fields -> Words \cup {Blank}]
Empty     == [f \in Fields |-> Blank]
NotAsked  == [at |-> "idle", owned |-> FALSE, got |-> Empty]
CallStage == {"idle", "sent", "extras", "done", "failed"}

SettingsTypeOK ==
    /\ owned \in BOOLEAN /\ success \in BOOLEAN /\ half \in BOOLEAN /\ gained \in BOOLEAN
    /\ profile \in Values /\ form \in Values /\ draft \in Values
    /\ screen \in {"tab", "page"}
    /\ page \in {"loading", "create", "none", "dashboard", "error"}
    /\ reading \in [at : {"idle", "asked", "got", "failed"}, owned : BOOLEAN, got : Values]
    /\ saving \in CallStage /\ creating \in CallStage /\ transferring \in CallStage
    /\ typed \subseteq Fields /\ stale \subseteq Fields

SettingsInit ==
    /\ owned \in BOOLEAN
    /\ profile \in IF owned THEN {v \in Values : v["name"] # Blank} ELSE {Empty}
    /\ screen \in {"tab", "page"}
    /\ page = "loading" /\ form = Empty /\ draft = Empty
    /\ reading = [NotAsked EXCEPT !.at = "asked"]
    /\ saving = "idle" /\ creating = "idle" /\ transferring = "idle"
    /\ success = FALSE /\ typed = {} /\ stale = {} /\ half = FALSE /\ gained = FALSE

--------------------------------------------------------------------------------

Pending  == <<saving, creating, transferring>>
Marks == <<typed, stale, half, gained>>

(* loadOrg *)

GetOwnOrganization ==
    /\ reading.at = "asked"
    /\ \/ reading' = [at |-> "got", owned |-> owned, got |-> profile] /\ stale' = {} /\ gained' = FALSE
       \/ reading' = [reading EXCEPT !.at = "failed"] /\ UNCHANGED <<stale, gained>>
    /\ UNCHANGED <<owned, profile, screen, page, form, draft, Pending, success, typed, half>>

\* A slip: the form keeps what it had.
TakeOrgOnly ==
    /\ reading.at = "got"
    /\ page' = IF reading.owned THEN "dashboard" ELSE IF screen = "tab" THEN "create" ELSE "none"
    /\ typed' = {}
    /\ form' = IF form = Empty THEN reading.got ELSE form
    /\ reading' = NotAsked
    /\ saving' = "idle" /\ creating' = "idle"
    /\ UNCHANGED <<owned, profile, screen, draft, transferring, success, stale, half, gained>>

\* The answer, null for a 404: the fields of the form are set from it, and the handler
\* that waited for it ends.
LoadOrg ==
    /\ reading.at = "got"
    /\ page' = IF reading.owned THEN "dashboard" ELSE IF screen = "tab" THEN "create" ELSE "none"
    /\ form' = IF reading.owned THEN reading.got ELSE form
    /\ typed' = IF reading.owned THEN {} ELSE typed
    /\ reading' = NotAsked
    /\ saving' = "idle" /\ creating' = "idle"
    /\ UNCHANGED <<owned, profile, screen, draft, transferring, success, stale, half, gained>>

\* The error takes the place of the page; nothing but leaving it helps.
LoadOrgFails ==
    /\ reading.at = "failed"
    /\ page' = "error"
    /\ reading' = NotAsked
    /\ saving' = "idle" /\ creating' = "idle"
    /\ UNCHANGED <<owned, profile, screen, form, draft, transferring, success, Marks>>

\* The user leaves the page, whatever is under way, and comes back to it.  What a call of the
\* page that was left still does is done elsewhere, for the page that is shown.
Return ==
    /\ page # "loading"
    /\ page' = "loading" /\ form' = Empty /\ draft' = Empty
    /\ reading' = [NotAsked EXCEPT !.at = "asked"]
    /\ saving' = "idle" /\ creating' = "idle" /\ transferring' = "idle"
    /\ success' = FALSE /\ typed' = {} /\ half' = FALSE
    /\ UNCHANGED <<owned, profile, screen, stale, gained>>

(* Settings *)

\* The inputs are disabled while a save is under way.
Type(f, w) ==
    /\ page = "dashboard" /\ saving = "idle" /\ form[f] # w
    /\ form' = [form EXCEPT ![f] = w]
    /\ typed' = typed \cup {f}
    /\ UNCHANGED <<owned, profile, screen, page, draft, reading, Pending, success, stale, half, gained>>

HandleSettingsSubmit ==
    /\ page = "dashboard" /\ saving = "idle"
    /\ saving' = "sent" /\ success' = FALSE
    /\ UNCHANGED <<owned, profile, screen, page, form, draft, reading, creating, transferring, Marks>>

\* Fields that are not sent stay as they are.
Merged(v) == [f \in Fields |-> IF v[f] = Blank THEN profile[f] ELSE v[f]]

\* PUT organizations/me; refused when the user owns none, or the address is no URL; the
\* answer may be lost.
PutProfile ==
    /\ saving = "sent"
    /\ \/ owned /\ profile' = Merged(form) /\ saving' \in {"done", "failed"}
       \/ saving' = "failed" /\ UNCHANGED profile
    /\ UNCHANGED <<owned, screen, page, form, draft, reading, creating, transferring, success, Marks>>

\* The tab loads the organization again, and the form is filled anew.
TabSaved ==
    /\ screen = "tab" /\ saving = "done" /\ reading.at = "idle"
    /\ success' = TRUE /\ page' = "loading"
    /\ reading' = [NotAsked EXCEPT !.at = "asked"]
    /\ UNCHANGED <<owned, profile, screen, form, draft, Pending, Marks>>

\* The page of its own does not.
PageSaved ==
    /\ screen = "page" /\ saving = "done"
    /\ success' = TRUE /\ saving' = "idle"
    /\ UNCHANGED <<owned, profile, screen, page, form, draft, reading, creating, transferring, Marks>>

SettingsRefused ==
    /\ saving = "failed"
    /\ saving' = "idle"
    /\ UNCHANGED <<owned, profile, screen, page, form, draft, reading, creating, transferring, success, Marks>>

(* Creating *)

\* The name must be there; category, bio and website need not.
HandleCreate(v) ==
    /\ page = "create" /\ creating = "idle" /\ v["name"] # Blank
    /\ draft' = v /\ creating' = "sent"
    /\ UNCHANGED <<owned, profile, screen, page, form, reading, saving, transferring, success, Marks>>

\* POST organizations, refused for an owner.
PostOrganization ==
    /\ creating = "sent"
    /\ \/ /\ ~owned
          /\ owned' = TRUE /\ profile' = [Empty EXCEPT !["name"] = draft["name"]]
          /\ \/ creating' = IF draft["bio"] = Blank THEN "done" ELSE "extras"
             \/ creating' = "failed"
       \/ creating' = "failed" /\ UNCHANGED <<owned, profile>>
    /\ half' = (half \/ (owned' # owned /\ creating' = "failed"))
    /\ UNCHANGED <<screen, page, form, draft, reading, saving, transferring, success, typed, stale, gained>>

\* The other fields follow in a second call.
PutExtras ==
    /\ creating = "extras"
    /\ \/ owned /\ profile' = [profile EXCEPT !["bio"] = draft["bio"]] /\ creating' \in {"done", "failed"}
       \/ creating' = "failed" /\ UNCHANGED profile
    /\ half' = (half \/ creating' = "failed")
    /\ UNCHANGED <<owned, screen, page, form, draft, reading, saving, transferring, success, typed, stale, gained>>

Created ==
    /\ creating = "done" /\ reading.at = "idle"
    /\ page' = "loading" /\ reading' = [NotAsked EXCEPT !.at = "asked"]
    /\ UNCHANGED <<owned, profile, screen, form, draft, Pending, success, Marks>>

\* The form stays, also when the organization is there.
CreationRefused ==
    /\ creating = "failed"
    /\ creating' = "idle"
    /\ UNCHANGED <<owned, profile, screen, page, form, draft, reading, saving, transferring, success, Marks>>

(* Passing the organization on *)

HandleTransferOwnership ==
    /\ page = "dashboard" /\ transferring = "idle"
    /\ transferring' = "sent"
    /\ UNCHANGED <<owned, profile, screen, page, form, draft, reading, saving, creating, success, Marks>>

PostTransfer ==
    /\ transferring = "sent"
    /\ \/ owned /\ owned' = FALSE /\ profile' = Empty /\ transferring' \in {"done", "failed"}
       \/ transferring' = "failed" /\ UNCHANGED <<owned, profile>>
    /\ UNCHANGED <<screen, page, form, draft, reading, saving, creating, success, Marks>>

\* The dialog closes; the page stays as it is.
TransferAnswers ==
    /\ transferring \in {"done", "failed"}
    /\ transferring' = "idle"
    /\ UNCHANGED <<owned, profile, screen, page, form, draft, reading, saving, creating, success, Marks>>

(* Elsewhere: in another tab, by an API client or a call of a page that was left *)

WrittenElsewhere(f, w) ==
    /\ owned /\ w # Blank /\ profile[f] # w
    /\ profile' = [profile EXCEPT ![f] = w]
    /\ stale' = stale \cup {f}
    /\ UNCHANGED <<owned, screen, page, form, draft, reading, Pending, success, typed, half, gained>>

\* Founded there, or passed on to the user by the owner of another organization.
GainedElsewhere(v) ==
    /\ ~owned /\ v["name"] # Blank
    /\ owned' = TRUE /\ profile' = v
    /\ stale' = Fields /\ gained' = TRUE
    /\ UNCHANGED <<screen, page, form, draft, reading, Pending, success, typed, half>>

PassedOnElsewhere ==
    /\ owned
    /\ owned' = FALSE /\ profile' = Empty
    /\ UNCHANGED <<screen, page, form, draft, reading, Pending, success, Marks>>

SettingsNext ==
    \/ GetOwnOrganization \/ LoadOrg \/ LoadOrgFails \/ Return
    \/ \E f \in Fields, w \in Words \cup {Blank} : Type(f, w) \/ WrittenElsewhere(f, w)
    \/ HandleSettingsSubmit \/ PutProfile \/ TabSaved \/ PageSaved \/ SettingsRefused
    \/ \E v \in Values : HandleCreate(v) \/ GainedElsewhere(v)
    \/ PostOrganization \/ PutExtras \/ Created \/ CreationRefused
    \/ HandleTransferOwnership \/ PostTransfer \/ TransferAnswers \/ PassedOnElsewhere

SettingsSpec == SettingsInit /\ [][SettingsNext]_settingsVars

--------------------------------------------------------------------------------

\* The owner of an organization is asked to create one only after a creation that did not
\* come to its end - the second call failed, or the answer was lost (handleCreate) - or when
\* he became the owner elsewhere after the answer the page shows.
CreateFormOnlyWithoutOrg ==
    page = "create" /\ creating = "idle" /\ owned => half \/ gained

\* "Changes saved successfully": the row has what the form says, unless the field was
\* emptied or written elsewhere meanwhile, or the organization was passed on.
SaidSavedIsSaved ==
    [][~success /\ success' =>
          ~owned \/ \A f \in Fields : form[f] \in {Blank, profile[f]} \/ f \in stale]_settingsVars

\* A save changes a field that the user did not type into only when it was written
\* elsewhere after the form was filled: the form puts the old value back.
FieldLostOnlyToStaleForm ==
    [][saving = "sent" /\ saving' # "sent"
       => \A f \in Fields : profile'[f] # profile[f] => f \in typed \cup stale]_settingsVars

SettingsInv   == SettingsTypeOK /\ CreateFormOnlyWithoutOrg
SettingsSteps == SaidSavedIsSaved /\ FieldLostOnlyToStaleForm

\* Not kept by the code (README.md, section 3): a field the user emptied is empty after
\* "Changes saved successfully".
EmptiedIsEmpty ==
    [][~success /\ success' => ~owned \/ \A f \in Fields : form[f] = Blank => profile[f] = Blank]_settingsVars

\* Not kept by the code (README.md, section 3): "You will lose owner privileges": the
\* dashboard is the owner's.
DashboardOnlyOfOwner == page = "dashboard" /\ transferring = "idle" => owned

================================================================================
