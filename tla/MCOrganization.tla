---- MODULE MCOrganization ----
(* The endpoints of organizations, and the two pages of the owner's browser, *)
(* do not meet: the run explores one of them (`part`).                       *)
EXTENDS Organization, MembersPage, SettingsForm, TLC
CONSTANTS ann, bob, cat, h1, h2, h3, l1, l2, w1, w2
VARIABLE part

MCInit == /\ OrgInit /\ MembersInit /\ SettingsInit
          /\ part \in {"endpoints", "members", "settings"}
          /\ part # "endpoints" => \A u \in Users : row[FirstOrg][u].role # "admin"
          /\ \E u \in Users : row[FirstOrg][u].role = "none"
          /\ part # "members" => roles = Nothing /\ view = "tab"
          /\ part # "settings" => ~owned /\ screen = "tab"
MCNext == \/ part = "endpoints" /\ OrgNext /\ UNCHANGED <<membersVars, settingsVars, part>>
          \/ part = "members" /\ MembersNext /\ UNCHANGED <<ovars, settingsVars, part>>
          \/ part = "settings" /\ SettingsNext /\ UNCHANGED <<ovars, membersVars, part>>
MCSpec == MCInit /\ [][MCNext]_<<ovars, membersVars, settingsVars, part>>

\* What the pages show, and what their calls do.
PagesInv   == MembersInv /\ SettingsInv
PagesSteps == RemovedComesBackOnlyWithOldLoad /\ SettingsSteps

MCSymmetry == Permutations(Handlers) \cup Permutations({bob, cat}) \cup Permutations(Words)
================================================================================
