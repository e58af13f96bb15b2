---- MODULE KycOnboarding ----
(***************************************************************************)
(* One user of the identity modules: wallet creation (WalletService), KYC  *)
(* submission and the Mirsad callback (KycService, KycWebhookController),  *)
(* the DID NFT (OnboardingService, DidNftService) and its refresh after a  *)
(* profile change (ProfileService).  A handler is one call of the user or  *)
(* one delivery of a Mirsad callback; it advances one await at a time.     *)
(***************************************************************************)
EXTENDS Naturals, FiniteSets, TLC

CONSTANTS
    Calls,              \* calls of the user
    Deliveries,         \* HTTP deliveries of Mirsad's callbacks (a bound)
    None, Demo,         \* no id; the kycRequestId "demo-<user id>"
    Offered,            \* the calls clients make (a bound of the model checking)
    MirsadConfigured,   \* mirsadAiService.isConfigured()
    Concurrent,         \* may a handler start while another one is running?
    Faults              \* may awaits fail, processes die and answers get lost?

Handlers == Calls \cup Deliveries

ASSUME NullsAssumption ==
    /\ Calls \cap Deliveries = {}
    /\ None \notin Handlers /\ Demo \notin Handlers /\ None # Demo
ASSUME SwitchAssumption == {MirsadConfigured, Concurrent, Faults} \subseteq BOOLEAN
ASSUME OfferedAssumption == Offered \subseteq {"wallet", "submit", "profile"}

VARIABLES
    user,      \* the user's row
    job,       \* what each handler is for, and the row it loaded
    pc,        \* the await each handler has reached
    vaults,    \* wallet calls whose vault and account exist at Tamam and Hedera
    mirsad,    \* decisions that Mirsad has taken on the submissions it received
    inbox,     \* callbacks that Mirsad has still to deliver
    nft,       \* where the DID NFT that a handler minted is
    attested   \* serials on the KYC attestation topic

vars == <<user, job, pc, vaults, mirsad, inbox, nft, attested>>

Statuses  == {"pending_wallet", "pending_kyc", "kyc_submitted", "kyc_rejected", "active"}
Decisions == {"approved", "rejected", "on_hold"}

\* A wallet call stands for the vault, the Hedera account and the two topics it
\* creates, a submission for its request_id, and a handler for the serial it mints.
User == [status : Statuses, account : Calls \cup {None}, topics : Calls \cup {None},
         kycReq : Calls \cup {None, Demo}, completed : BOOLEAN,
         serial : Handlers \cup {None}]

NewUser == [status |-> "pending_wallet", account |-> None, topics |-> None,
            kycReq |-> None, completed |-> FALSE, serial |-> None]

Callback == [req : Calls, decision : Decisions]
Job      == [op : {"none", "wallet", "submit", "profile", "callback"},
             decision : Decisions \cup {"none"}, snap : User]
NoJob    == [op |-> "none", decision |-> "none", snap |-> NewUser]

Running == {"vault", "topics", "saveWallet", "fund", "post", "posted", "demo", "saveDecision",
            "reread", "onboard", "wipe", "mint", "transfer", "attest", "saveDid"}
Pcs     == Running \cup {"idle", "returned", "threw"}

TypeOK ==
    /\ user \in User
    /\ job \in [Handlers -> Job]
    /\ pc  \in [Handlers -> Pcs]
    /\ vaults \subseteq Calls
    /\ mirsad \in [Calls -> SUBSET (Decisions \cup {"received"})]
    /\ inbox \subseteq Callback
    /\ nft \in [Handlers -> {"none", "treasury", "account", "wiped"}]
    /\ attested \subseteq Handlers

Init ==
    /\ user = NewUser
    /\ job = [h \in Handlers |-> NoJob]
    /\ pc  = [h \in Handlers |-> "idle"]
    /\ vaults = {}
    /\ mirsad = [c \in Calls |-> {}]
    /\ inbox = {}
    /\ nft = [h \in Handlers |-> "none"]
    /\ attested = {}

--------------------------------------------------------------------------------

Goto(h, l) == pc' = [pc EXCEPT ![h] = l]
external   == <<vaults, mirsad, inbox, nft, attested>>

Alone(h) == Concurrent \/ \A g \in Handlers : pc[g] \notin Running

\* A handler loads the row; a call whose guards reject it changes nothing and is
\* left out.
Start(h, op, l) ==
    /\ op \in Offered
    /\ pc[h] = "idle"
    /\ Alone(h)
    /\ job' = [job EXCEPT ![h] = [op |-> op, decision |-> "none", snap |-> user]]
    /\ Goto(h, l)
    /\ UNCHANGED <<user, external>>

(* WalletService.createWallet *)

CreateWallet(c) ==
    /\ user.account = None
    /\ Start(c, "wallet", "vault")

\* createUserVault, and the account that comes with the vault or is created for it.
CreateVault(c) ==
    /\ pc[c] = "vault"
    /\ vaults' = vaults \cup {c}
    /\ Goto(c, "topics")
    /\ UNCHANGED <<user, job, mirsad, inbox, nft, attested>>

CreateUserTopics(c) ==
    /\ pc[c] = "topics"
    /\ Goto(c, "saveWallet")
    /\ UNCHANGED <<user, job, external>>

\* A slip: the status is left as it is.
SaveWalletOnly(c) ==
    /\ pc[c] = "saveWallet"
    /\ user' = [user EXCEPT !.account = c, !.topics = c]
    /\ Goto(c, "fund")
    /\ UNCHANGED <<job, external>>

SaveWallet(c) ==
    /\ pc[c] = "saveWallet"
    /\ user' = [user EXCEPT !.account = c, !.topics = c, !.status = "pending_kyc"]
    /\ Goto(c, "fund")
    /\ UNCHANGED <<job, external>>

\* fundWithTmusd: a failure is only logged.
FundWithTmusd(c) ==
    /\ pc[c] = "fund"
    /\ Goto(c, "returned")
    /\ UNCHANGED <<user, job, external>>

(* KycService.submitIndividualKyc and submitCorporateKyc *)

\* A slip: the status is not looked at.
HasWallet == user.account # None
MaySubmit == user.status \in {"pending_kyc", "kyc_rejected"} /\ user.account # None

SubmitKyc(c) ==
    /\ MaySubmit
    /\ Start(c, "submit", IF MirsadConfigured THEN "post" ELSE "demo")

\* The POST reaches Mirsad, which may decide before its response is handled.
PostOnboarding(c) ==
    /\ pc[c] = "post"
    /\ mirsad' = [mirsad EXCEPT ![c] = @ \cup {"received"}]
    /\ Goto(c, "posted")
    /\ UNCHANGED <<user, job, vaults, inbox, nft, attested>>

\* kycCompletedAt is given as undefined, which an update skips.
SaveSubmission(c) ==
    /\ pc[c] = "posted"
    /\ user' = [user EXCEPT !.status = "kyc_submitted", !.kycReq = c]
    /\ Goto(c, "returned")
    /\ UNCHANGED <<job, external>>

\* autoApproveForDemo, up to completeOnboarding.
AutoApproveForDemo(c) ==
    /\ pc[c] = "demo"
    /\ user' = [user EXCEPT !.kycReq = Demo]
    /\ Goto(c, "onboard")
    /\ UNCHANGED <<job, external>>

\* The kycRequestId of a submission is stored: Mirsad's, or one of the demo mode.
StoreRequest(c) == pc[c] \in {"posted", "demo"} /\ (SaveSubmission(c) \/ AutoApproveForDemo(c))

(* Mirsad: it decides once, or puts on hold and decides later, and POSTs each *)
(* decision to the callback_url; a delivery that got no answer is repeated.   *)

MirsadDecides(c, d) ==
    /\ "received" \in mirsad[c]
    /\ mirsad[c] \cap {"approved", "rejected", d} = {}
    /\ mirsad' = [mirsad EXCEPT ![c] = @ \cup {d}]
    /\ inbox' = inbox \cup {[req |-> c, decision |-> d]}
    /\ UNCHANGED <<user, job, pc, vaults, nft, attested>>

(* KycWebhookController.handleMirsadKycCallback and KycService.handleKycCallback *)

\* Whether the controller goes on to completeOnboarding, given the user returned;
\* the slip asks whether the callback was processed before.
OnboardsOnce(d) == d = "approved" /\ ~user.completed
Onboards(d) == d = "approved" /\ user.status # "active"

KnownRequest(m) == user.kycReq = m.req

AlreadyProcessed == user.completed

\* A callback with an unknown request_id is answered with 200 and lost.
Receive(h, m) ==
    /\ pc[h] = "idle"
    /\ Alone(h)
    /\ m \in inbox
    /\ inbox' \in IF Faults THEN {inbox, inbox \ {m}} ELSE {inbox \ {m}}
    /\ job' = [job EXCEPT ![h] = [op |-> "callback", decision |-> m.decision, snap |-> user]]
    /\ Goto(h, IF ~KnownRequest(m) THEN "returned"
               ELSE IF ~AlreadyProcessed THEN "saveDecision"
               ELSE IF Onboards(m.decision) THEN "onboard" ELSE "returned")
    /\ UNCHANGED <<user, vaults, mirsad, nft, attested>>

\* A slip: all that is not a rejection activates.
UnlessRejected(d) == IF d = "rejected" THEN "kyc_rejected" ELSE "active"
StatusAfter(d) == CASE d = "approved" -> "active"
                    [] d = "rejected" -> "kyc_rejected"
                    [] OTHER          -> user.status

SaveDecision(h) ==
    /\ pc[h] = "saveDecision"
    /\ user' = [user EXCEPT !.completed = TRUE, !.status = StatusAfter(job[h].decision)]
    /\ Goto(h, "reread")
    /\ UNCHANGED <<job, external>>

Reread(h) ==
    /\ pc[h] = "reread"
    /\ Goto(h, IF Onboards(job[h].decision) THEN "onboard" ELSE "returned")
    /\ UNCHANGED <<user, job, external>>

(* OnboardingService.completeOnboarding and DidNftService.mintDidNft *)

Onboard(h) ==
    /\ pc[h] = "onboard"
    /\ job' = [job EXCEPT ![h].snap = user]
    /\ Goto(h, IF user.account = None THEN "threw" ELSE "mint")
    /\ UNCHANGED <<user, external>>

MintDidNft(h) ==
    /\ pc[h] = "mint"
    /\ nft' = [nft EXCEPT ![h] = "treasury"]
    /\ Goto(h, "transfer")
    /\ UNCHANGED <<user, job, vaults, mirsad, inbox, attested>>

\* transferNft and freezeToken: failures are only logged.
TransferNft(h) ==
    /\ pc[h] = "transfer"
    /\ \E place \in {"treasury", "account"} : nft' = [nft EXCEPT ![h] = place]
    /\ Goto(h, IF job[h].op = "profile" THEN "saveDid" ELSE "attest")
    /\ UNCHANGED <<user, job, vaults, mirsad, inbox, attested>>

\* The attestation may fail, or no topic be configured.
SubmitKycAttestation(h) ==
    /\ pc[h] = "attest"
    /\ attested' \in {attested, attested \cup {h}}
    /\ Goto(h, "saveDid")
    /\ UNCHANGED <<user, job, vaults, mirsad, inbox, nft>>

\* A slip: the refresh stores nothing.
SaveOnboarding(h) ==
    /\ pc[h] = "saveDid"
    /\ user' = IF job[h].op = "profile" THEN user
               ELSE [user EXCEPT !.serial = h, !.status = "active", !.topics = job[h].snap.topics]
    /\ Goto(h, "returned")
    /\ UNCHANGED <<job, external>>

\* The last update of completeOnboarding writes back the topics it loaded; that
\* of a refresh only the NFT.
SaveDid(h) ==
    /\ pc[h] = "saveDid"
    /\ user' = IF job[h].op = "profile"
               THEN [user EXCEPT !.serial = h]
               ELSE [user EXCEPT !.serial = h, !.status = "active", !.topics = job[h].snap.topics]
    /\ Goto(h, "returned")
    /\ UNCHANGED <<job, external>>

(* ProfileService.updateProfile and refreshDidNft *)

\* A change of the displayed fields; the refresh goes on behind the response.
UpdateProfile(c) ==
    /\ user.status \in {"active", "pending_kyc"}
    /\ user.serial # None
    /\ user.account # None
    /\ Start(c, "profile", "wipe")

\* wipeNft from the user's account, else from the treasury, else a warning.
WipeOldNft(h) ==
    /\ pc[h] = "wipe"
    /\ LET s == job[h].snap.serial IN
       \/ nft' = [nft EXCEPT ![s] = "wiped"]
       \/ Faults /\ UNCHANGED nft
    /\ Goto(h, "mint")
    /\ UNCHANGED <<user, job, vaults, mirsad, inbox, attested>>

\* A statement throws out of the handler, or the process dies under it.
Abort(h) ==
    /\ Faults
    /\ pc[h] \in Running
    /\ Goto(h, "threw")
    /\ UNCHANGED <<user, job, external>>

--------------------------------------------------------------------------------

Begin(c) == CreateWallet(c) \/ SubmitKyc(c) \/ UpdateProfile(c)

Advance(h) ==
    \/ CreateVault(h) \/ CreateUserTopics(h) \/ SaveWallet(h) \/ FundWithTmusd(h)
    \/ PostOnboarding(h) \/ StoreRequest(h)
    \/ SaveDecision(h) \/ Reread(h)
    \/ Onboard(h) \/ MintDidNft(h) \/ TransferNft(h) \/ SubmitKycAttestation(h) \/ SaveDid(h)
    \/ WipeOldNft(h)

Next ==
    \/ \E c \in Calls : Begin(c)
    \/ \E h \in Handlers : Advance(h) \/ Abort(h)
    \/ \E c \in Calls, d \in Decisions : MirsadDecides(c, d)
    \/ \E h \in Deliveries, m \in inbox : Receive(h, m)

Spec == Init /\ [][Next]_vars

\* Every await of a handler ends, and Mirsad delivers what it decided.
FairSpec ==
    /\ Spec
    /\ \A h \in Handlers : WF_vars(Advance(h))
    /\ WF_vars(\E h \in Deliveries, m \in inbox : Receive(h, m))

--------------------------------------------------------------------------------
(* Properties *)

\* Somebody vouched for the user: Mirsad, or the demo mode.
Vouched == \/ \E c \in Calls : "approved" \in mirsad[c]
           \/ ~MirsadConfigured /\ user.kycReq = Demo

Idle == \A h \in Handlers : pc[h] \notin Running
Live(h) == nft[h] \in {"treasury", "account"}

\* Whatever the order of calls and callbacks, and whatever fails: nobody is active,
\* holds a DID NFT or is attested on the KYC topic unless some request of his was
\* approved (handleKycCallback, completeOnboarding, refreshDidNft).
ActiveIsVouched ==
    (user.status = "active" \/ attested # {} \/ \E h \in Handlers : nft[h] # "none") => Vouched

\* The row names only things that exist, and a status that presupposes a wallet is
\* never stored without one: the vault of the account, the request Mirsad
\* received, the NFT that was minted.
RowIsBacked ==
    /\ user.status # "pending_wallet" <=> user.account # None
    /\ user.account # None => user.account \in vaults
    /\ user.kycReq \notin {None, Demo} => "received" \in mirsad[user.kycReq]
    /\ user.serial # None => nft[user.serial] # "none"

\* A DID NFT that the row names was wiped only by a refresh that is about to name
\* another one (refreshDidNft, whose last update is not awaited).  Needs that
\* nothing fails: a refresh that stops after the wipe leaves the row dangling.
NamedNftLives ==
    user.serial # None /\ nft[user.serial] = "wiped"
    => \E h \in Handlers : /\ pc[h] \in Running /\ job[h].op = "profile"
                           /\ job[h].snap.serial = user.serial

\* Serially and without failures, the user has at most one DID NFT, and the row
\* names it.  Two overlapping refreshes, or one that fails, leave another behind.
OneNft == Idle => {h \in Handlers : Live(h)} = {user.serial} \ {None}

\* Serially and without failures, every vault is the user's, and the row's topics
\* are those created with its account.
OneWallet == Idle => vaults = {user.account} \ {None} /\ user.topics = user.account

\* Serially and without failures, an approval of the current request that has been
\* delivered leaves the user active: also after an earlier request was rejected, and
\* after on_hold, where kycCompletedAt is already set and only the onboarding of
\* the controller activates.
ApprovedIsActive ==
    \A c \in Calls :
        /\ Idle /\ user.kycReq = c /\ "approved" \in mirsad[c]
        /\ [req |-> c, decision |-> "approved"] \notin inbox
        => user.status = "active"

\* What calls that do not overlap and do not fail leave behind: one vault, one living NFT,
\* and an approved user who is active.
SettledIsRight == OneNft /\ OneWallet /\ ApprovedIsActive

\* Not kept by the code (README.md, section 3): "If status is 'approved', triggers
\* the full onboarding flow: Mint DID NFT ..." (handleMirsadKycCallback): an approved user has a DID NFT.  handleKycCallback has
\* already made the user active when the controller looks, and nothing is minted.
ApprovedIsOnboarded ==
    \A c \in Calls :
        /\ Idle /\ user.kycReq = c /\ "approved" \in mirsad[c]
        /\ [req |-> c, decision |-> "approved"] \notin inbox
        => user.serial # None

\* Not kept by the code (README.md, section 3):
\* "If status is 'rejected', updates user status to allow resubmission": a rejection
\* of the current request that has been delivered shows in the status.
RejectedMayResubmit ==
    \A c \in Calls :
        /\ Idle /\ user.kycReq = c /\ "rejected" \in mirsad[c]
        /\ [req |-> c, decision |-> "rejected"] \notin inbox
        => user.status = "kyc_rejected"

\* Not kept by the code (README.md, section 3):
\* "throws WalletAlreadyExistsException if user already has a wallet" (createWallet):
\* the account of a user never changes.
WalletNeverReplaced == [][user.account # None => user'.account = user.account]_vars

\* An active user is demoted only by a handler that loaded the row before: the slow
\* second wallet, the late second submission, the late rejection.
DemotedOnlyByStaleHandler ==
    [][user.status = "active" /\ user'.status # "active"
       => \E h \in Handlers : /\ pc[h] \in Running /\ pc'[h] # pc[h]
                              /\ job[h].snap.status # "active"]_vars

\* Serially and without failures, an approval that Mirsad sent for the current
\* request makes the user active in the end.
ApprovalActivates ==
    \A c \in Calls :
        user.kycReq = c /\ [req |-> c, decision |-> "approved"] \in inbox ~> user.status = "active"

\* For TLC: calls, and deliveries, differ only by name until they start.
HandlerSymmetry == Permutations(Calls) \cup Permutations(Deliveries)

====
