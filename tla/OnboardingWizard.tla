--------------------------- MODULE OnboardingWizard ---------------------------
(***************************************************************************)
(* The screens that lead a new user from the registration to the feed:     *)
(* register, code, wallet, verification, its polling and success, with the *)
(* auth store, which survives a reload, as their only memory; the client   *)
(* of Mirsad AI behind the verification.  The handlers of the API are      *)
(* those of KycOnboarding, each taken as one step here.  Pages are opened  *)
(* by their address as well, and left while calls are under way; of each   *)
(* kind one call is followed.                                              *)
(***************************************************************************)
EXTENDS Naturals

CONSTANTS
    KycOffered,    \* NEXT_PUBLIC_ENABLE_KYC
    MaxPolls       \* MAX_POLL_ATTEMPTS

ASSUME WizardAssumption == KycOffered \in BOOLEAN /\ MaxPolls \in Nat \ {0}

VARIABLES
    wallet, status,       \* the row of the user who is, or gets, signed in; "" before there is one
    configured,           \* of MirsadAiService
    screen,               \* "their code": that of another address than the user's is asked for
    signedIn, step,       \* isAuthenticated, onboardingStep
    shownUser,            \* user of the auth store: null, or its account and status
    screening,            \* is there a screeningId in the store?
    creating,             \* createWallet: stage; "theirs" when another user is signed in since
    submitting,           \* submit...Kyc: stage, as above
    form,                 \* the kind of account and the fields filled in
    polls,                \* attempts of pollLoop
    profileCall,          \* getProfile('me'): stage, the account it read, and is it of the success page?
    lost,                 \* a wallet was made of which the store had no answer (history)
    assumed,              \* a profile made the store say "active" of a row that is not (history)
    skipped,              \* "Skip Verification" (history)
    switched              \* another user signed in over what the store, or a call, had of one (history)

wizardVars == <<wallet, status, configured, screen, signedIn, step, shownUser, screening, creating,
                submitting, form, polls, profileCall, lost, assumed, skipped, switched>>

NoUser    == [is |-> FALSE, account |-> FALSE, active |-> FALSE]
Kinds     == {"individual", "business"}
AllFields == [individual |-> {"name", "birth", "id", "city", "address"},
              business   |-> {"entity", "number", "address"}]
Defaults  == {"nationality", "residence", "incorporation"}   \* 'US' until it is changed
EmptyForm == [kind |-> "individual", filled |-> {}]
NoProfile == [at |-> "idle", account |-> FALSE, success |-> FALSE]
Rows      == {<<FALSE, "pending_wallet">>} \cup {TRUE} \X {"pending_kyc", "kyc_submitted", "kyc_rejected", "active"}
Forms     == {[kind |-> k, filled |-> AllFields[k] \ x] :
                k \in Kinds, x \in {{}} \cup {{f} : f \in AllFields["individual"] \cup AllFields["business"]}}

\* validateForm and handleSubmit of the page; validateIndividualData and validateCorporateData.
PageRequires(kind)   == AllFields[kind]
MirsadRequires(kind) == IF kind = "individual" THEN {"name", "birth", "nationality", "residence", "address", "id"}
                        ELSE {"entity", "incorporation", "number", "address"}

WizardTypeOK ==
    /\ wallet \in BOOLEAN
    /\ status \in {"", "pending_wallet", "pending_kyc", "kyc_submitted", "kyc_rejected", "active"}
    /\ screen \in {"home", "register", "code", "their code", "login", "wallet", "kyc", "polling", "success", "feed"}
    /\ step \in {"idle", "register", "create_wallet", "submit_kyc", "kyc_polling", "success"}
    /\ shownUser \in [is : BOOLEAN, account : BOOLEAN, active : BOOLEAN]
    /\ creating \in {"idle", "sent", "made", "refused", "theirs"}
    /\ submitting \in {"idle", "sent", "accepted", "refused", "invalid", "theirs"}
    /\ form \in Forms \cup {EmptyForm} /\ polls \in 0 .. MaxPolls
    /\ profileCall \in [at : {"idle", "loaded"}, account : BOOLEAN, success : BOOLEAN]
    /\ configured \in BOOLEAN /\ signedIn \in BOOLEAN /\ screening \in BOOLEAN
    /\ lost \in BOOLEAN /\ assumed \in BOOLEAN /\ skipped \in BOOLEAN /\ switched \in BOOLEAN

WizardInit ==
    /\ wallet = FALSE /\ status = ""
    /\ \E enabled, apiUrl, callbackUrl \in BOOLEAN : configured = (enabled /\ apiUrl /\ callbackUrl)
    /\ screen = "home" /\ signedIn = FALSE /\ step = "idle" /\ shownUser = NoUser /\ screening = FALSE
    /\ creating = "idle" /\ submitting = "idle" /\ form = EmptyForm /\ polls = 0 /\ profileCall = NoProfile
    /\ lost = FALSE /\ assumed = FALSE /\ skipped = FALSE /\ switched = FALSE

row      == <<wallet, status, configured>>
stored   == <<signedIn, step, shownUser, screening>>
calls    == <<creating, submitting, form, polls, profileCall>>
marks    == <<lost, assumed, skipped, switched>>

--------------------------------------------------------------------------------
(* Where a page leads *)

KycPage(active, screened) == IF active THEN "success" ELSE IF screened THEN "polling" ELSE "kyc"

RegisterPage == {"register", "code", "their code"}

\* The effects of the pages: on arrival, and whenever the store has changed.
Led(page, in, st, active, screened) ==
    CASE page \in RegisterPage /\ in /\ st = "create_wallet" -> "wallet"
      [] page \in RegisterPage /\ in /\ st = "submit_kyc"    -> KycPage(active, screened)
      [] page \in RegisterPage /\ in /\ st = "success"       -> "success"
      [] page = "login" /\ in                                        -> "feed"
      [] page = "feed" /\ ~in                                        -> "home"
      [] page \in {"kyc", "polling", "success"} /\ ~in               -> "register"
      [] page \in {"kyc", "polling"} /\ in /\ active                 -> "success"
      [] OTHER                                                       -> page

\* The wallet page asks who is signed in when it is mounted, KycPage for the screening.
Mounted(page) == IF page = "wallet" /\ ~signedIn THEN "register"
                 ELSE IF page \in {"kyc", "polling"} THEN IF screening THEN "polling" ELSE "kyc"
                 ELSE IF page \in RegisterPage THEN "register" ELSE page
Arrive(page)  == Led(Mounted(page), signedIn, step, shownUser.active, screening)

\* By its address, a link or the way back: any page, also of a step that is not due.
Open(page) ==
    /\ screen' = Arrive(page) /\ polls' = 0
    /\ UNCHANGED <<row, stored, creating, submitting, form, profileCall, marks>>

--------------------------------------------------------------------------------
(* Register and login *)

\* The form is there for a user who is signed in, too; refused for whoever has come further
\* than the code.
HandleRegister(whose) ==
    /\ screen = "register"
    /\ IF whose = "code" THEN /\ status \in {"", "pending_wallet"}
                              /\ status' = "pending_wallet"
                         ELSE UNCHANGED status
    /\ \/ step' = "register" /\ screen' = whose
       \/ UNCHANGED <<step, screen>>
    /\ UNCHANGED <<wallet, configured, signedIn, shownUser, screening, calls, marks>>

\* What another user finds in the store, or what is still to come into it.
InUse == \/ signedIn \/ screening \/ shownUser.is \/ step \notin {"idle", "register"}
         \/ creating # "idle" \/ submitting # "idle" \/ profileCall.at # "idle"

SameUser == UNCHANGED <<wallet, status, creating, submitting, lost, switched>>

\* The row is that of another user, as far as he has come; the store and the calls stay.
OtherUser ==
    /\ \E other \in Rows : wallet' = other[1] /\ status' = other[2]
    /\ creating' = IF creating = "idle" THEN "idle" ELSE "theirs"
    /\ submitting' = IF submitting = "idle" THEN "idle" ELSE "theirs"
    /\ lost' = wallet' /\ switched' = (switched \/ InUse)

\* The code (see OtpLogin, Session) signs a user in; the user of the store stays.
HandleOtpSuccess ==
    /\ signedIn' = TRUE
    /\ \/ screen = "code" /\ step' = "create_wallet" /\ screen' = "wallet" /\ status # "" /\ SameUser
       \/ screen = "their code" /\ step' = "create_wallet" /\ screen' = "wallet" /\ OtherUser
       \/ screen = "login" /\ UNCHANGED step /\ screen' = "feed"
          /\ ((status # "" /\ SameUser) \/ OtherUser)
    /\ UNCHANGED <<configured, shownUser, screening, form, polls, profileCall, assumed, skipped>>

\* From the menu, or because the tokens are not renewed (Session).
Logout ==
    /\ signedIn
    /\ signedIn' = FALSE /\ step' = "idle" /\ shownUser' = NoUser /\ screening' = FALSE
    /\ screen' = Led(screen, FALSE, "idle", FALSE, FALSE) /\ polls' = 0
    /\ assumed' = FALSE /\ skipped' = FALSE
    /\ switched' = (switched /\ (creating # "idle" \/ submitting # "idle" \/ profileCall.at # "idle"))
    /\ UNCHANGED <<row, creating, submitting, form, profileCall, lost>>

--------------------------------------------------------------------------------
(* Wallet *)

\* On arrival, unless the store knows of an account, and again by "Try Again".
CreateWallet ==
    /\ screen = "wallet" /\ signedIn /\ creating = "idle" /\ ~shownUser.account
    /\ creating' = "sent"
    /\ UNCHANGED <<row, screen, stored, submitting, form, polls, profileCall, marks>>

\* createWallet, which may be refused because there is an account, fail, or do all that it
\* does and lose its answer.
PostWallet ==
    /\ creating = "sent"
    /\ \/ status = "pending_wallet" /\ wallet' = TRUE /\ status' = "pending_kyc" /\ creating' \in {"made", "refused"}
       \/ creating' = "refused" /\ UNCHANGED <<wallet, status>>
    /\ lost' = (lost \/ (wallet' # wallet /\ creating' = "refused"))
    /\ UNCHANGED <<configured, screen, stored, submitting, form, polls, profileCall, assumed, skipped, switched>>

\* setTokens, setUser, setOnboardingStep, whatever page is shown by now.
TakeWallet ==
    /\ step' = "submit_kyc" /\ signedIn' = TRUE
    /\ shownUser' = [is |-> TRUE, account |-> TRUE, active |-> FALSE]
    /\ screen' = Led(screen, TRUE, "submit_kyc", FALSE, screening)

WalletAnswers ==
    /\ creating \in {"made", "refused"}
    /\ creating' = "idle"
    /\ IF creating = "made" THEN TakeWallet ELSE UNCHANGED <<step, signedIn, shownUser, screen>>
    /\ UNCHANGED <<row, screening, submitting, form, polls, profileCall, marks>>

\* The tokens are those of the user who asked for the wallet: he is signed in again.
TheirWalletAnswers ==
    /\ creating = "theirs"
    /\ creating' = "idle"
    /\ \/ /\ TakeWallet
          /\ \E other \in Rows : other[1] /\ wallet' = TRUE /\ status' = other[2]
          /\ submitting' = IF submitting = "idle" THEN "idle" ELSE "theirs"
       \/ UNCHANGED <<step, signedIn, shownUser, screen, wallet, status, submitting>>
    /\ UNCHANGED <<configured, screening, form, polls, profileCall, marks>>

\* "Continue to Verification", and the way past a wallet that is there.
GoToKyc ==
    /\ screen = "wallet" /\ signedIn /\ shownUser.account
    /\ Open("kyc")

--------------------------------------------------------------------------------
(* Verification *)

HandleSubmit(f) ==
    /\ screen = "kyc" /\ submitting = "idle" /\ PageRequires(f.kind) \subseteq f.filled
    /\ form' = f /\ submitting' = "sent"
    /\ UNCHANGED <<row, screen, stored, creating, polls, profileCall, marks>>

\* submitIndividualOnboarding, submitCorporateOnboarding: the data are validated again before
\* they are posted.
Valid(f) == MirsadRequires(f.kind) \subseteq f.filled \cup Defaults

\* postOnboarding, for at most REQUEST_TIMEOUT_MS; the answer is stored, and may yet be lost.
Posted(f) == IF Valid(f) THEN {<<"accepted", "kyc_submitted">>, <<"refused", "kyc_submitted">>, <<"refused", status>>}
             ELSE {<<"invalid", status>>}

\* validateUserForKyc; without Mirsad the user is approved at once.
SubmitToMirsad ==
    /\ submitting = "sent"
    /\ \E o \in IF status \notin {"pending_kyc", "kyc_rejected"} THEN {<<"refused", status>>}
                ELSE IF configured THEN Posted(form) ELSE {"accepted", "refused"} \X {"active"} :
          submitting' = o[1] /\ status' = o[2]
    /\ UNCHANGED <<wallet, configured, screen, stored, creating, form, polls, profileCall, marks>>

\* A page that was left and opened again stays as it is.
KycAnswers ==
    /\ submitting \in {"accepted", "refused", "invalid", "theirs"}
    /\ submitting' = "idle" /\ form' = EmptyForm
    /\ \/ /\ submitting \in {"accepted", "theirs"}
          /\ screening' = TRUE /\ step' = "kyc_polling" /\ polls' = 0
          /\ \/ submitting = "accepted" /\ screen = "kyc" /\ screen' = "polling"
             \/ UNCHANGED screen
       \/ submitting # "accepted" /\ UNCHANGED <<screening, step, polls, screen>>
    /\ UNCHANGED <<row, signedIn, shownUser, creating, profileCall, marks>>

\* The callback of Mirsad; what is on hold stays as it is.
Callback ==
    /\ status = "kyc_submitted"
    /\ status' \in {"active", "kyc_rejected"}
    /\ UNCHANGED <<wallet, configured, screen, stored, calls, marks>>

\* On another device, or by a call of a page that was reloaded.
DoneElsewhere ==
    /\ \/ status = "pending_wallet" /\ wallet' = TRUE /\ status' = "pending_kyc" /\ lost' = TRUE
       \/ /\ status \in {"pending_kyc", "kyc_rejected"}
          /\ status' = (IF configured THEN "kyc_submitted" ELSE "active") /\ UNCHANGED <<wallet, lost>>
    /\ UNCHANGED <<configured, screen, stored, calls, assumed, skipped, switched>>

\* A slip: the status that follows a submission is taken for approval.
SubmittedIsApproved ==
    /\ screen = "polling" /\ polls < MaxPolls
    /\ \/ /\ status \in {"kyc_submitted", "active"}
          /\ step' = "success" /\ screen' = "success" /\ polls' = 0
       \/ polls' = polls + 1 /\ UNCHANGED <<step, screen>>
    /\ UNCHANGED <<row, signedIn, shownUser, screening, creating, submitting, form, profileCall, marks>>

\* pollLoop: it waits for 'approved', 'active' or 'rejected'; of these the API answers
\* 'active' only (a rejected user is 'kyc_rejected').  A poll that fails is one of the
\* attempts, and after the last the loop ends without a word.
Poll ==
    /\ screen = "polling" /\ polls < MaxPolls
    /\ \/ /\ status = "active"
          /\ step' = "success" /\ screen' = "success" /\ polls' = 0
       \/ polls' = polls + 1 /\ UNCHANGED <<step, screen>>
    /\ UNCHANGED <<row, signedIn, shownUser, screening, creating, submitting, form, profileCall, marks>>

\* The effect depends on handlers that are new at every rendering: when the tokens are
\* renewed (Session) the loop begins anew.
PollAnew ==
    /\ screen = "polling" /\ polls > 0
    /\ polls' = 0
    /\ UNCHANGED <<row, screen, stored, creating, submitting, form, profileCall, marks>>

SkipVerification ==
    /\ screen = "kyc" /\ ~KycOffered
    /\ step' = "success" /\ screen' = "success" /\ skipped' = TRUE
    /\ UNCHANGED <<row, signedIn, shownUser, screening, calls, lost, assumed, switched>>

--------------------------------------------------------------------------------
(* Success, and the feed *)

\* The effect of the success page, and that of the feed while the store has no user.
FetchProfile ==
    /\ screen = "success" \/ (screen = "feed" /\ ~shownUser.is)
    /\ profileCall.at = "idle"
    /\ profileCall' = [at |-> "loaded", account |-> wallet, success |-> screen = "success"]
    /\ UNCHANGED <<row, screen, stored, creating, submitting, form, polls, marks>>

\* Whatever the row says and whatever page is shown, the store then has an active user; or
\* the call failed.
ProfileAnswers ==
    /\ profileCall.at = "loaded"
    /\ profileCall' = NoProfile
    /\ \/ /\ shownUser' = [is |-> TRUE, account |-> profileCall.account, active |-> TRUE]
          /\ step' = IF profileCall.success THEN "success" ELSE step
          /\ signedIn' = TRUE
          /\ assumed' = (assumed \/ status # "active")
          /\ screen' = Led(screen, TRUE, step', TRUE, screening)
       \/ UNCHANGED <<shownUser, step, signedIn, assumed, screen>>
    /\ UNCHANGED <<row, screening, creating, submitting, form, polls, lost, skipped, switched>>

HandleContinue == screen = "success" /\ Open("feed")

\* A reload: no answer comes back, and what the API still does is DoneElsewhere.
Reload ==
    /\ creating' = "idle" /\ submitting' = "idle" /\ form' = EmptyForm /\ polls' = 0 /\ profileCall' = NoProfile
    /\ lost' = (lost \/ creating = "made")
    /\ screen' = Arrive(screen)
    /\ UNCHANGED <<row, stored, assumed, skipped, switched>>

Pages == {"home", "register", "login", "wallet", "kyc", "success", "feed"}

WizardNext ==
    \/ \E page \in Pages : Open(page)
    \/ \E whose \in {"code", "their code"} : HandleRegister(whose)
    \/ HandleOtpSuccess \/ Logout
    \/ CreateWallet \/ PostWallet \/ WalletAnswers \/ TheirWalletAnswers \/ GoToKyc
    \/ \E f \in Forms : HandleSubmit(f)
    \/ SubmitToMirsad \/ KycAnswers \/ Callback \/ DoneElsewhere \/ Poll \/ PollAnew \/ SkipVerification
    \/ FetchProfile \/ ProfileAnswers \/ HandleContinue \/ Reload

WizardSpec == WizardInit /\ [][WizardNext]_wizardVars

--------------------------------------------------------------------------------
\* What survives a reload is never ahead of the row, so that the screen it leads to can work:
\* success is an approval, unless verification was skipped or the store took the user for
\* active on the strength of a profile; all of it as long as nobody signed in over what the
\* store had of another user (handleApproved, createWallet, handleSubmit, the auth store).
StoreIsNotAhead == ~switched =>
    /\ step = "submit_kyc" \/ shownUser.account => wallet
    /\ step = "kyc_polling" \/ screening => status \in {"kyc_submitted", "kyc_rejected", "active"}
    /\ step = "success" => status = "active" \/ skipped \/ assumed
    /\ shownUser.active => status = "active" \/ assumed

\* It is behind the row only when the wallet was made elsewhere, or its answer was lost.
StoreIsNotBehind == step = "create_wallet" /\ wallet => lost \/ creating = "made"

\* What validateForm lets through, Mirsad's client does not refuse.
ValidFormIsValid == submitting # "invalid"

WizardInv == WizardTypeOK /\ StoreIsNotAhead /\ StoreIsNotBehind /\ ValidFormIsValid

\* Not kept by the code (README.md, section 3): the store has an active user only if there
\* is one.
ActiveIsActive == shownUser.active => status = "active"

\* Not kept by the code (README.md, section 3): the success screen is that of a user who was
\* approved, or who skipped the verification.
SuccessIsEarned == screen = "success" => status = "active" \/ skipped

\* Not kept by the code (README.md, section 3): what the store says is said of the user who is
\* signed in.
StoreIsOfUser == shownUser.account => wallet

\* Not kept by the code (README.md, section 3): "Verification Failed": the polling of a
\* rejected user comes to an end.
RejectionIsShown == (screen = "polling" /\ status = "kyc_rejected") ~> screen # "polling"

\* Not kept by the code (README.md, section 3): "Try Again" may succeed.
TryAgainMayHelp == screen = "wallet" /\ creating = "idle" /\ ~shownUser.account => ~wallet

================================================================================
