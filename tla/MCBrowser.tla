---- MODULE MCBrowser ----
(* The session of a browser, the screens of the onboarding, its              *)
(* notifications, the comments that it shows and the sockets that it opens do *)
(* not meet: the run explores one of them (`part`).  At most one comment is   *)
(* deleted.                                                                   *)
EXTENDS Session, OnboardingWizard, NotificationCenter, CommentList, ChatPresence, TLC
CONSTANTS r1, r2, ann, bob, w1, w2
VARIABLE part

browserVars == <<svars, wizardVars, noticeVars, cvars, pvars, part>>

BrowserInit == /\ SessionInit /\ WizardInit /\ NoticesInit /\ CommentsInit /\ ChatInit
               /\ part \in {"session", "onboarding", "notifications", "comments", "chat"}
               /\ part # "chat" => hash = "presence"
               /\ part # "onboarding" => configured
BrowserNext == \/ part = "session" /\ SessionNext /\ UNCHANGED <<wizardVars, noticeVars, cvars, pvars, part>>
               \/ part = "onboarding" /\ WizardNext /\ UNCHANGED <<svars, noticeVars, cvars, pvars, part>>
               \/ part = "notifications" /\ NoticesNext /\ UNCHANGED <<svars, wizardVars, cvars, pvars, part>>
               \/ /\ part = "comments"
                  /\ CommentsNext /\ Cardinality(deleted') <= 1
                  /\ UNCHANGED <<svars, wizardVars, noticeVars, pvars, part>>
               \/ part = "chat" /\ ChatNext /\ UNCHANGED <<svars, wizardVars, noticeVars, cvars, part>>
BrowserSpec == BrowserInit /\ [][BrowserNext]_browserVars

BrowserSymmetry == Permutations(Requests)
================================================================================
