---- MODULE KycProofs ----
(***************************************************************************)
(* Proofs that the properties of KycOnboarding hold for every number of    *)
(* calls and of deliveries.                                                *)
(***************************************************************************)
EXTENDS KycOnboarding, TLAPS

Minting == {"onboard", "mint", "transfer", "attest", "saveDid"}

\* Which handler can be at which await, and what exists when it is there.
AwaitInv ==
    \A h \in Handlers :
        /\ pc[h] \in {"vault", "topics", "saveWallet", "fund", "post", "posted", "demo", "wipe"}
              => h \in Calls
        /\ pc[h] \in {"topics", "saveWallet"} => h \in vaults
        /\ pc[h] \in {"post", "posted", "demo", "saveDecision", "reread", "wipe"} \cup Minting
              => user.account # None
        /\ pc[h] = "posted" => "received" \in mirsad[h]
        /\ pc[h] = "wipe" => job[h].op = "profile" /\ job[h].snap.serial # None
        /\ pc[h] \in {"transfer", "attest", "saveDid"} => nft[h] # "none"

\* What the handlers and the messages on their way to the row are entitled to write.
VouchInv ==
    /\ \A h \in Handlers :
          /\ pc[h] \in {"saveDecision", "reread"} =>
                 /\ job[h].decision \in Decisions
                 /\ job[h].decision = "approved" => Vouched
          /\ pc[h] \in {"wipe"} \cup Minting => Vouched
    /\ \A m \in inbox : m.decision \in mirsad[m.req]
    /\ \A c \in Calls : mirsad[c] # {} => "received" \in mirsad[c]
    /\ user.kycReq # None => user.account # None

\* Mirsad and the demo mode exclude each other.
ModeInv ==
    /\ \A h \in Handlers : /\ pc[h] \in {"post", "posted"} => MirsadConfigured
                           /\ pc[h] = "demo" => ~MirsadConfigured
    /\ ~MirsadConfigured => \A c \in Calls : mirsad[c] = {}

\* With Mirsad, an active user was decided on, and so was everybody being onboarded:
\* kycCompletedAt is never cleared, and no handler that loaded the row of an active
\* user is on its way to a write of the status.
DecidedInv ==
    /\ MirsadConfigured /\ user.status = "active" => user.completed
    /\ \A h \in Handlers :
          /\ MirsadConfigured /\ job[h].op # "profile" /\ pc[h] \in {"reread"} \cup Minting
                => user.completed
          /\ pc[h] \in {"vault", "topics", "saveWallet", "post", "posted", "saveDecision"}
                => job[h].snap.status # "active"

KycInv == TypeOK /\ RowIsBacked /\ ActiveIsVouched /\ AwaitInv /\ VouchInv /\ ModeInv /\ DecidedInv

--------------------------------------------------------------------------------

\* Type correctness is preserved by every step.
LEMMA KycTypeStep == TypeOK /\ AwaitInv /\ [Next]_vars => TypeOK'
  <1> SUFFICES ASSUME TypeOK, AwaitInv, [Next]_vars PROVE TypeOK'
    OBVIOUS
  <1> USE DEF TypeOK, Goto, external, Handlers, Pcs, Running
  <1>1. ASSUME NEW c \in Calls, Begin(c) PROVE TypeOK'
    <2> DEFINE x(op) == [op |-> op, decision |-> "none", snap |-> user]
    <2>1. \A op \in {"wallet", "submit", "profile"} : x(op) \in Job
      BY DEF Job
    <2> HIDE DEF x
    <2>2. \A op \in {"wallet", "submit", "profile"}, l \in Pcs :
             Start(c, op, l) => TypeOK'
      <3> SUFFICES ASSUME NEW op \in {"wallet", "submit", "profile"}, NEW l \in Pcs, Start(c, op, l)
                   PROVE  TypeOK'
        OBVIOUS
      <3>1. job' = [job EXCEPT ![c] = x(op)]
        BY DEF Start, x
      <3> QED BY <2>1, <3>1 DEF Start
    <2>3. (IF MirsadConfigured THEN "post" ELSE "demo") \in Pcs
      OBVIOUS
    <2> QED BY <1>1, <2>2, <2>3 DEF Begin, CreateWallet, SubmitKyc, UpdateProfile
  <1>2. ASSUME NEW h \in Handlers, Advance(h) PROVE TypeOK'
    <2>1. CASE CreateVault(h)
      BY <2>1 DEF CreateVault, AwaitInv
    <2>2. CASE CreateUserTopics(h) \/ FundWithTmusd(h)
      BY <2>2 DEF CreateUserTopics, FundWithTmusd
    <2>3. CASE SaveWallet(h)
      BY <2>3 DEF SaveWallet, AwaitInv, User, Statuses
    <2>4. CASE PostOnboarding(h)
      BY <2>4 DEF PostOnboarding, AwaitInv
    <2>5. CASE SaveSubmission(h)
      BY <2>5 DEF SaveSubmission, AwaitInv, User, Statuses
    <2>6. CASE AutoApproveForDemo(h)
      BY <2>6 DEF AutoApproveForDemo, User
    <2>7. CASE SaveDecision(h)
      <3>1. StatusAfter(job[h].decision) \in Statuses
        BY DEF StatusAfter, Statuses, User
      <3> QED BY <2>7, <3>1 DEF SaveDecision, User
    <2>8. CASE Reread(h)
      BY <2>8 DEF Reread
    <2>9. CASE Onboard(h)
      <3>1. [job[h] EXCEPT !.snap = user] \in Job
        BY DEF Job
      <3> QED BY <2>9, <3>1 DEF Onboard
    <2>10. CASE MintDidNft(h)
      BY <2>10 DEF MintDidNft
    <2>11. CASE TransferNft(h)
      BY <2>11 DEF TransferNft
    <2>12. CASE SubmitKycAttestation(h)
      BY <2>12 DEF SubmitKycAttestation
    <2>13. CASE SaveDid(h)
      <3>1. job[h].snap.topics \in Calls \cup {None}
        BY DEF Job, User
      <3> QED BY <2>13, <3>1 DEF SaveDid, User, Statuses
    <2>14. CASE WipeOldNft(h)
      BY <2>14 DEF WipeOldNft
    <2> QED BY <1>2, <2>1, <2>2, <2>3, <2>4, <2>5, <2>6, <2>7, <2>8, <2>9, <2>10, <2>11, <2>12,
               <2>13, <2>14 DEF Advance, StoreRequest
  <1>3. ASSUME NEW h \in Handlers, Abort(h) PROVE TypeOK'
    BY <1>3 DEF Abort
  <1>4. ASSUME NEW c \in Calls, NEW d \in Decisions, MirsadDecides(c, d) PROVE TypeOK'
    <2>1. [req |-> c, decision |-> d] \in Callback
      BY DEF Callback
    <2>2. mirsad[c] \cup {d} \in SUBSET (Decisions \cup {"received"})
      OBVIOUS
    <2> QED BY <1>4, <2>1, <2>2 DEF MirsadDecides
  <1>5. ASSUME NEW h \in Deliveries, NEW m \in inbox, Receive(h, m) PROVE TypeOK'
    <2> DEFINE x == [op |-> "callback", decision |-> m.decision, snap |-> user]
    <2>1. x \in Job
      BY DEF Job, Callback
    <2> HIDE DEF x
    <2>2. job' = [job EXCEPT ![h] = x]
      BY <1>5 DEF Receive, x
    <2>3. inbox' \subseteq inbox
      BY <1>5 DEF Receive
    <2> QED BY <1>5, <2>1, <2>2, <2>3 DEF Receive
  <1>6. CASE UNCHANGED vars
    BY <1>6 DEF vars
  <1> QED BY <1>1, <1>2, <1>3, <1>4, <1>5, <1>6 DEF Next

\* An approval is never taken back: Mirsad's decisions stay, and the demo request is
\* overwritten only where Mirsad decides.
LEMMA VouchedStays == KycInv /\ [Next]_vars /\ Vouched => Vouched'
  <1> SUFFICES ASSUME KycInv, [Next]_vars, Vouched PROVE Vouched'
    OBVIOUS
  <1> USE DEF KycInv, TypeOK, Handlers, external
  <1>1. ASSUME NEW c \in Calls, "approved" \in mirsad[c] PROVE "approved" \in mirsad'[c]
    <2>1. ASSUME NEW h \in Handlers, Advance(h), ~PostOnboarding(h) PROVE UNCHANGED mirsad
      BY <2>1 DEF Advance, StoreRequest, CreateVault, CreateUserTopics, FundWithTmusd, SaveWallet, SaveSubmission,
         AutoApproveForDemo, SaveDecision, Reread, Onboard, MintDidNft, TransferNft, SubmitKycAttestation,
         SaveDid, WipeOldNft
    <2>2. ASSUME NEW h \in Handlers, PostOnboarding(h) PROVE "approved" \in mirsad'[c]
      BY <1>1, <2>2 DEF PostOnboarding
    <2>3. ASSUME NEW b \in Calls, NEW d \in Decisions, MirsadDecides(b, d) PROVE "approved" \in mirsad'[c]
      BY <1>1, <2>3 DEF MirsadDecides
    <2>4. ASSUME \/ UNCHANGED vars
                 \/ \E b \in Calls : Begin(b)
                 \/ \E h \in Handlers : Abort(h)
                 \/ \E h \in Deliveries, m \in inbox : Receive(h, m)
          PROVE  UNCHANGED mirsad
      BY <2>4 DEF Begin, CreateWallet, SubmitKyc, UpdateProfile, Start, Abort, Receive, vars
    <2> HIDE DEF TypeOK, KycInv, external
    <2> QED BY <1>1, <2>1, <2>2, <2>3, <2>4 DEF Next
  <1>2. CASE MirsadConfigured
    BY <1>1, <1>2 DEF Vouched
  <1>3. CASE ~MirsadConfigured
    <2>1. user.kycReq = Demo
      BY <1>3 DEF Vouched, ModeInv
    <2>2. ASSUME NEW h \in Handlers, SaveSubmission(h) PROVE FALSE
      BY <1>3, <2>2 DEF SaveSubmission, ModeInv
    <2>3. user'.kycReq = Demo
      <3>1. ASSUME NEW h \in Handlers, SaveWallet(h) \/ AutoApproveForDemo(h) \/ SaveDecision(h) \/ SaveDid(h)
            PROVE  user'.kycReq = Demo
        <4>1. CASE SaveWallet(h)
          BY <2>1, <4>1 DEF SaveWallet, User
        <4>2. CASE AutoApproveForDemo(h)
          BY <4>2 DEF AutoApproveForDemo, User
        <4>3. CASE SaveDecision(h)
          BY <2>1, <4>3 DEF SaveDecision, User
        <4>4. CASE SaveDid(h)
          BY <2>1, <4>4 DEF SaveDid, User
        <4> QED BY <3>1, <4>1, <4>2, <4>3, <4>4
      <3>2. ASSUME NEW h \in Handlers, Advance(h) PROVE user'.kycReq = Demo
        BY <2>1, <2>2, <3>1, <3>2 DEF Advance, StoreRequest, CreateVault, CreateUserTopics, FundWithTmusd,
           PostOnboarding, Reread, Onboard, MintDidNft, TransferNft, SubmitKycAttestation, WipeOldNft
      <3>3. ASSUME \/ UNCHANGED vars
                   \/ \E c \in Calls : Begin(c)
                   \/ \E h \in Handlers : Abort(h)
                   \/ \E c \in Calls, d \in Decisions : MirsadDecides(c, d)
                   \/ \E h \in Deliveries, m \in inbox : Receive(h, m)
            PROVE  UNCHANGED user
        BY <3>3 DEF Begin, CreateWallet, SubmitKyc, UpdateProfile, Start, Abort, MirsadDecides, Receive, vars
      <3> HIDE DEF TypeOK, KycInv, external
      <3> QED BY <2>1, <3>2, <3>3 DEF Next
    <2> QED BY <1>3, <2>3 DEF Vouched
  <1> QED BY <1>2, <1>3

\* createUserVault: the vault exists before the row names it.
LEMMA CreateVaultStep ==
    ASSUME KycInv, TypeOK', Vouched => Vouched', NEW h \in Handlers, CreateVault(h)
    PROVE  KycInv'
  <1> USE NullsAssumption DEF KycInv, Handlers, Minting
  <1>1. /\ pc[h] = "vault"
        /\ pc'[h] = "topics"
        /\ \A g \in Handlers : g # h => pc'[g] = pc[g]
        /\ user' = user
        /\ job' = job
        /\ UNCHANGED <<mirsad, inbox, nft, attested>>
        /\ vaults' = vaults \cup {h}
    BY DEF TypeOK, Goto, external, User, Statuses, Job, Pcs, Running, CreateVault
  <1>2. RowIsBacked'
    BY <1>1 DEF TypeOK, RowIsBacked, AwaitInv, User
  <1>3. ActiveIsVouched'
    BY <1>1 DEF TypeOK, ActiveIsVouched, AwaitInv, VouchInv, User
  <1>4. AwaitInv'
    BY <1>1 DEF TypeOK, AwaitInv, RowIsBacked, VouchInv, User
  <1>5. VouchInv'
    BY <1>1 DEF TypeOK, VouchInv, RowIsBacked, AwaitInv, ModeInv, User
  <1>6. ModeInv'
    BY <1>1 DEF TypeOK, ModeInv, AwaitInv, User
  <1>7. DecidedInv'
    BY <1>1 DEF TypeOK, DecidedInv, RowIsBacked, AwaitInv, VouchInv, ModeInv, User
  <1> QED BY <1>2, <1>3, <1>4, <1>5, <1>6, <1>7

\* The topics of a wallet.
LEMMA CreateUserTopicsStep ==
    ASSUME KycInv, TypeOK', Vouched => Vouched', NEW h \in Handlers, CreateUserTopics(h)
    PROVE  KycInv'
  <1> USE NullsAssumption DEF KycInv, Handlers, Minting
  <1>1. /\ pc[h] = "topics"
        /\ pc'[h] = "saveWallet"
        /\ \A g \in Handlers : g # h => pc'[g] = pc[g]
        /\ user' = user
        /\ job' = job
        /\ UNCHANGED <<vaults, mirsad, inbox, nft, attested>>
    BY DEF TypeOK, Goto, external, User, Statuses, Job, Pcs, Running, CreateUserTopics
  <1>2. RowIsBacked'
    BY <1>1 DEF TypeOK, RowIsBacked, AwaitInv, User
  <1>3. ActiveIsVouched'
    BY <1>1 DEF TypeOK, ActiveIsVouched, AwaitInv, VouchInv, User
  <1>4. AwaitInv'
    BY <1>1 DEF TypeOK, AwaitInv, RowIsBacked, VouchInv, User
  <1>5. VouchInv'
    BY <1>1 DEF TypeOK, VouchInv, RowIsBacked, AwaitInv, ModeInv, User
  <1>6. ModeInv'
    BY <1>1 DEF TypeOK, ModeInv, AwaitInv, User
  <1>7. DecidedInv'
    BY <1>1 DEF TypeOK, DecidedInv, RowIsBacked, AwaitInv, VouchInv, ModeInv, User
  <1> QED BY <1>2, <1>3, <1>4, <1>5, <1>6, <1>7

\* The wallet is stored, also over another one.
LEMMA SaveWalletStep ==
    ASSUME KycInv, TypeOK', Vouched => Vouched', NEW h \in Handlers, SaveWallet(h)
    PROVE  KycInv'
  <1> USE NullsAssumption DEF KycInv, Handlers, Minting
  <1>1. /\ pc[h] = "saveWallet"
        /\ pc'[h] = "fund"
        /\ \A g \in Handlers : g # h => pc'[g] = pc[g]
        /\ user'.status = "pending_kyc"
        /\ user'.account = h
        /\ user'.kycReq = user.kycReq
        /\ user'.completed = user.completed
        /\ user'.serial = user.serial
        /\ job' = job
        /\ UNCHANGED <<vaults, mirsad, inbox, nft, attested>>
    BY DEF TypeOK, Goto, external, User, Statuses, Job, Pcs, Running, SaveWallet
  <1>2. RowIsBacked'
    BY <1>1 DEF TypeOK, RowIsBacked, AwaitInv, User
  <1>3. ActiveIsVouched'
    BY <1>1 DEF TypeOK, ActiveIsVouched, AwaitInv, VouchInv, User
  <1>4. AwaitInv'
    BY <1>1 DEF TypeOK, AwaitInv, RowIsBacked, VouchInv, User
  <1>5. VouchInv'
    BY <1>1 DEF TypeOK, VouchInv, RowIsBacked, AwaitInv, ModeInv, User
  <1>6. ModeInv'
    BY <1>1 DEF TypeOK, ModeInv, AwaitInv, User
  <1>7. DecidedInv'
    BY <1>1 DEF TypeOK, DecidedInv, RowIsBacked, AwaitInv, VouchInv, ModeInv, User
  <1> QED BY <1>2, <1>3, <1>4, <1>5, <1>6, <1>7

\* The faucet.
LEMMA FundWithTmusdStep ==
    ASSUME KycInv, TypeOK', Vouched => Vouched', NEW h \in Handlers, FundWithTmusd(h)
    PROVE  KycInv'
  <1> USE NullsAssumption DEF KycInv, Handlers, Minting
  <1>1. /\ pc[h] = "fund"
        /\ pc'[h] = "returned"
        /\ \A g \in Handlers : g # h => pc'[g] = pc[g]
        /\ user' = user
        /\ job' = job
        /\ UNCHANGED <<vaults, mirsad, inbox, nft, attested>>
    BY DEF TypeOK, Goto, external, User, Statuses, Job, Pcs, Running, FundWithTmusd
  <1>2. RowIsBacked'
    BY <1>1 DEF TypeOK, RowIsBacked, AwaitInv, User
  <1>3. ActiveIsVouched'
    BY <1>1 DEF TypeOK, ActiveIsVouched, AwaitInv, VouchInv, User
  <1>4. AwaitInv'
    BY <1>1 DEF TypeOK, AwaitInv, RowIsBacked, VouchInv, User
  <1>5. VouchInv'
    BY <1>1 DEF TypeOK, VouchInv, RowIsBacked, AwaitInv, ModeInv, User
  <1>6. ModeInv'
    BY <1>1 DEF TypeOK, ModeInv, AwaitInv, User
  <1>7. DecidedInv'
    BY <1>1 DEF TypeOK, DecidedInv, RowIsBacked, AwaitInv, VouchInv, ModeInv, User
  <1> QED BY <1>2, <1>3, <1>4, <1>5, <1>6, <1>7

\* Mirsad receives a submission.
LEMMA PostOnboardingStep ==
    ASSUME KycInv, TypeOK', Vouched => Vouched', NEW h \in Handlers, PostOnboarding(h)
    PROVE  KycInv'
  <1> USE NullsAssumption DEF KycInv, Handlers, Minting
  <1>1. /\ pc[h] = "post"
        /\ pc'[h] = "posted"
        /\ \A g \in Handlers : g # h => pc'[g] = pc[g]
        /\ user' = user
        /\ job' = job
        /\ UNCHANGED <<vaults, inbox, nft, attested>>
        /\ mirsad' = [mirsad EXCEPT ![h] = @ \cup {"received"}]
    BY DEF TypeOK, Goto, external, User, Statuses, Job, Pcs, Running, PostOnboarding
  <1>2. RowIsBacked'
    BY <1>1 DEF TypeOK, RowIsBacked, AwaitInv, User
  <1>3. ActiveIsVouched'
    BY <1>1 DEF TypeOK, ActiveIsVouched, AwaitInv, VouchInv, User
  <1>4. AwaitInv'
    BY <1>1 DEF TypeOK, AwaitInv, RowIsBacked, VouchInv, User
  <1>5. VouchInv'
    BY <1>1 DEF TypeOK, VouchInv, RowIsBacked, AwaitInv, ModeInv, User
  <1>6. ModeInv'
    BY <1>1 DEF TypeOK, ModeInv, AwaitInv, User
  <1>7. DecidedInv'
    BY <1>1 DEF TypeOK, DecidedInv, RowIsBacked, AwaitInv, VouchInv, ModeInv, User
  <1> QED BY <1>2, <1>3, <1>4, <1>5, <1>6, <1>7

\* The submission is stored.
LEMMA SaveSubmissionStep ==
    ASSUME KycInv, TypeOK', Vouched => Vouched', NEW h \in Handlers, SaveSubmission(h)
    PROVE  KycInv'
  <1> USE NullsAssumption DEF KycInv, Handlers, Minting
  <1>1. /\ pc[h] = "posted"
        /\ pc'[h] = "returned"
        /\ \A g \in Handlers : g # h => pc'[g] = pc[g]
        /\ user'.status = "kyc_submitted"
        /\ user'.account = user.account
        /\ user'.kycReq = h
        /\ user'.completed = user.completed
        /\ user'.serial = user.serial
        /\ job' = job
        /\ UNCHANGED <<vaults, mirsad, inbox, nft, attested>>
    BY DEF TypeOK, Goto, external, User, Statuses, Job, Pcs, Running, SaveSubmission
  <1>2. RowIsBacked'
    BY <1>1 DEF TypeOK, RowIsBacked, AwaitInv, User
  <1>3. ActiveIsVouched'
    BY <1>1 DEF TypeOK, ActiveIsVouched, AwaitInv, VouchInv, User
  <1>4. AwaitInv'
    BY <1>1 DEF TypeOK, AwaitInv, RowIsBacked, VouchInv, User
  <1>5. VouchInv'
    BY <1>1 DEF TypeOK, VouchInv, RowIsBacked, AwaitInv, ModeInv, User
  <1>6. ModeInv'
    BY <1>1 DEF TypeOK, ModeInv, AwaitInv, User
  <1>7. DecidedInv'
    BY <1>1 DEF TypeOK, DecidedInv, RowIsBacked, AwaitInv, VouchInv, ModeInv, User
  <1> QED BY <1>2, <1>3, <1>4, <1>5, <1>6, <1>7

\* The demo approval.
LEMMA AutoApproveStep ==
    ASSUME KycInv, TypeOK', Vouched => Vouched', NEW h \in Handlers, AutoApproveForDemo(h)
    PROVE  KycInv'
  <1> USE NullsAssumption DEF KycInv, Handlers, Minting
  <1>1. /\ pc[h] = "demo"
        /\ pc'[h] = "onboard"
        /\ \A g \in Handlers : g # h => pc'[g] = pc[g]
        /\ user'.status = user.status
        /\ user'.account = user.account
        /\ user'.kycReq = Demo
        /\ user'.completed = user.completed
        /\ user'.serial = user.serial
        /\ job' = job
        /\ UNCHANGED <<vaults, mirsad, inbox, nft, attested>>
    BY DEF TypeOK, Goto, external, User, Statuses, Job, Pcs, Running, AutoApproveForDemo
  <1>2. RowIsBacked'
    BY <1>1 DEF TypeOK, RowIsBacked, AwaitInv, User, Vouched
  <1>3. ActiveIsVouched'
    BY <1>1 DEF TypeOK, ActiveIsVouched, AwaitInv, VouchInv, User, Vouched
  <1>4. AwaitInv'
    BY <1>1 DEF TypeOK, AwaitInv, RowIsBacked, VouchInv, User, Vouched
  <1>5. VouchInv'
    BY <1>1 DEF TypeOK, VouchInv, RowIsBacked, AwaitInv, ModeInv, User, Vouched
  <1>6. ModeInv'
    BY <1>1 DEF TypeOK, ModeInv, AwaitInv, User, Vouched
  <1>7. DecidedInv'
    BY <1>1 DEF TypeOK, DecidedInv, RowIsBacked, AwaitInv, VouchInv, ModeInv, User, Vouched
  <1> QED BY <1>2, <1>3, <1>4, <1>5, <1>6, <1>7

\* The decision of a callback is stored.
LEMMA SaveDecisionStep ==
    ASSUME KycInv, TypeOK', Vouched => Vouched', NEW h \in Handlers, SaveDecision(h)
    PROVE  KycInv'
  <1> USE NullsAssumption DEF KycInv, Handlers, Minting
  <1>1. /\ pc[h] = "saveDecision"
        /\ pc'[h] = "reread"
        /\ \A g \in Handlers : g # h => pc'[g] = pc[g]
        /\ user'.status = StatusAfter(job[h].decision)
        /\ user'.account = user.account
        /\ user'.kycReq = user.kycReq
        /\ user'.completed = TRUE
        /\ user'.serial = user.serial
        /\ job' = job
        /\ UNCHANGED <<vaults, mirsad, inbox, nft, attested>>
    BY DEF TypeOK, Goto, external, User, Statuses, Job, Pcs, Running, SaveDecision
  <1>2. RowIsBacked'
    BY <1>1 DEF TypeOK, RowIsBacked, AwaitInv, User, StatusAfter, Decisions
  <1>3. ActiveIsVouched'
    BY <1>1 DEF TypeOK, ActiveIsVouched, AwaitInv, VouchInv, User, StatusAfter, Decisions
  <1>4. AwaitInv'
    BY <1>1 DEF TypeOK, AwaitInv, RowIsBacked, VouchInv, User, StatusAfter, Decisions
  <1>5. VouchInv'
    BY <1>1 DEF TypeOK, VouchInv, RowIsBacked, AwaitInv, ModeInv, User, StatusAfter, Decisions
  <1>6. ModeInv'
    BY <1>1 DEF TypeOK, ModeInv, AwaitInv, User, StatusAfter, Decisions
  <1>7. DecidedInv'
    BY <1>1 DEF TypeOK, DecidedInv, RowIsBacked, AwaitInv, VouchInv, ModeInv, User, StatusAfter, Decisions
  <1> QED BY <1>2, <1>3, <1>4, <1>5, <1>6, <1>7

\* The controller looks at the row again.
LEMMA RereadStep ==
    ASSUME KycInv, TypeOK', Vouched => Vouched', NEW h \in Handlers, Reread(h)
    PROVE  KycInv'
  <1> USE NullsAssumption DEF KycInv, Handlers, Minting
  <1>1. /\ pc[h] = "reread"
        /\ pc'[h] = IF Onboards(job[h].decision) THEN "onboard" ELSE "returned"
        /\ \A g \in Handlers : g # h => pc'[g] = pc[g]
        /\ user' = user
        /\ job' = job
        /\ UNCHANGED <<vaults, mirsad, inbox, nft, attested>>
    BY DEF TypeOK, Goto, external, User, Statuses, Job, Pcs, Running, Reread
  <1>2. RowIsBacked'
    BY <1>1 DEF TypeOK, RowIsBacked, AwaitInv, User, Onboards
  <1>3. ActiveIsVouched'
    BY <1>1 DEF TypeOK, ActiveIsVouched, AwaitInv, VouchInv, User, Onboards
  <1>4. AwaitInv'
    BY <1>1 DEF TypeOK, AwaitInv, RowIsBacked, VouchInv, User, Onboards
  <1>5. VouchInv'
    BY <1>1 DEF TypeOK, VouchInv, RowIsBacked, AwaitInv, ModeInv, User, Onboards
  <1>6. ModeInv'
    BY <1>1 DEF TypeOK, ModeInv, AwaitInv, User, Onboards
  <1>7. DecidedInv'
    BY <1>1 DEF TypeOK, DecidedInv, RowIsBacked, AwaitInv, VouchInv, ModeInv, User, Onboards
  <1> QED BY <1>2, <1>3, <1>4, <1>5, <1>6, <1>7

\* completeOnboarding loads the row.
LEMMA OnboardStep ==
    ASSUME KycInv, TypeOK', Vouched => Vouched', NEW h \in Handlers, Onboard(h)
    PROVE  KycInv'
  <1> USE NullsAssumption DEF KycInv, Handlers, Minting
  <1>1. /\ pc[h] = "onboard"
        /\ pc'[h] = IF user.account = None THEN "threw" ELSE "mint"
        /\ \A g \in Handlers : g # h => pc'[g] = pc[g]
        /\ user' = user
        /\ job'[h].op = job[h].op
        /\ job'[h].decision = job[h].decision
        /\ \A g \in Handlers : g # h => job'[g] = job[g]
        /\ UNCHANGED <<vaults, mirsad, inbox, nft, attested>>
    BY DEF TypeOK, Goto, external, User, Statuses, Job, Pcs, Running, Onboard
  <1>2. RowIsBacked'
    BY <1>1 DEF TypeOK, RowIsBacked, AwaitInv, User
  <1>3. ActiveIsVouched'
    BY <1>1 DEF TypeOK, ActiveIsVouched, AwaitInv, VouchInv, User
  <1>4. AwaitInv'
    BY <1>1 DEF TypeOK, AwaitInv, RowIsBacked, VouchInv, User
  <1>5. VouchInv'
    BY <1>1 DEF TypeOK, VouchInv, RowIsBacked, AwaitInv, ModeInv, User
  <1>6. ModeInv'
    BY <1>1 DEF TypeOK, ModeInv, AwaitInv, User
  <1>7. DecidedInv'
    BY <1>1 DEF TypeOK, DecidedInv, RowIsBacked, AwaitInv, VouchInv, ModeInv, User
  <1> QED BY <1>2, <1>3, <1>4, <1>5, <1>6, <1>7

\* The NFT is minted.
LEMMA MintStep ==
    ASSUME KycInv, TypeOK', Vouched => Vouched', NEW h \in Handlers, MintDidNft(h)
    PROVE  KycInv'
  <1> USE NullsAssumption DEF KycInv, Handlers, Minting
  <1>1. /\ pc[h] = "mint"
        /\ pc'[h] = "transfer"
        /\ \A g \in Handlers : g # h => pc'[g] = pc[g]
        /\ user' = user
        /\ job' = job
        /\ UNCHANGED <<vaults, mirsad, inbox, attested>>
        /\ nft'[h] = "treasury"
        /\ \A g \in Handlers : g # h => nft'[g] = nft[g]
    BY DEF TypeOK, Goto, external, User, Statuses, Job, Pcs, Running, MintDidNft
  <1>2. RowIsBacked'
    BY <1>1 DEF TypeOK, RowIsBacked, AwaitInv, User
  <1>3. ActiveIsVouched'
    BY <1>1 DEF TypeOK, ActiveIsVouched, AwaitInv, VouchInv, User
  <1>4. AwaitInv'
    BY <1>1 DEF TypeOK, AwaitInv, RowIsBacked, VouchInv, User
  <1>5. VouchInv'
    BY <1>1 DEF TypeOK, VouchInv, RowIsBacked, AwaitInv, ModeInv, User
  <1>6. ModeInv'
    BY <1>1 DEF TypeOK, ModeInv, AwaitInv, User
  <1>7. DecidedInv'
    BY <1>1 DEF TypeOK, DecidedInv, RowIsBacked, AwaitInv, VouchInv, ModeInv, User
  <1> QED BY <1>2, <1>3, <1>4, <1>5, <1>6, <1>7

\* The NFT is transferred and frozen, or neither.
LEMMA TransferStep ==
    ASSUME KycInv, TypeOK', Vouched => Vouched', NEW h \in Handlers, TransferNft(h)
    PROVE  KycInv'
  <1> USE NullsAssumption DEF KycInv, Handlers, Minting
  <1>1. /\ pc[h] = "transfer"
        /\ pc'[h] = IF job[h].op = "profile" THEN "saveDid" ELSE "attest"
        /\ \A g \in Handlers : g # h => pc'[g] = pc[g]
        /\ user' = user
        /\ job' = job
        /\ UNCHANGED <<vaults, mirsad, inbox, attested>>
        /\ nft'[h] \in {"treasury", "account"}
        /\ \A g \in Handlers : g # h => nft'[g] = nft[g]
    BY DEF TypeOK, Goto, external, User, Statuses, Job, Pcs, Running, TransferNft
  <1>2. RowIsBacked'
    BY <1>1 DEF TypeOK, RowIsBacked, AwaitInv, User
  <1>3. ActiveIsVouched'
    BY <1>1 DEF TypeOK, ActiveIsVouched, AwaitInv, VouchInv, User
  <1>4. AwaitInv'
    BY <1>1 DEF TypeOK, AwaitInv, RowIsBacked, VouchInv, User
  <1>5. VouchInv'
    BY <1>1 DEF TypeOK, VouchInv, RowIsBacked, AwaitInv, ModeInv, User
  <1>6. ModeInv'
    BY <1>1 DEF TypeOK, ModeInv, AwaitInv, User
  <1>7. DecidedInv'
    BY <1>1 DEF TypeOK, DecidedInv, RowIsBacked, AwaitInv, VouchInv, ModeInv, User
  <1> QED BY <1>2, <1>3, <1>4, <1>5, <1>6, <1>7

\* The attestation.
LEMMA AttestStep ==
    ASSUME KycInv, TypeOK', Vouched => Vouched', NEW h \in Handlers, SubmitKycAttestation(h)
    PROVE  KycInv'
  <1> USE NullsAssumption DEF KycInv, Handlers, Minting
  <1>1. /\ pc[h] = "attest"
        /\ pc'[h] = "saveDid"
        /\ \A g \in Handlers : g # h => pc'[g] = pc[g]
        /\ user' = user
        /\ job' = job
        /\ UNCHANGED <<vaults, mirsad, inbox, nft>>
        /\ attested' \in {attested, attested \cup {h}}
    BY DEF TypeOK, Goto, external, User, Statuses, Job, Pcs, Running, SubmitKycAttestation
  <1>2. RowIsBacked'
    BY <1>1 DEF TypeOK, RowIsBacked, AwaitInv, User
  <1>3. ActiveIsVouched'
    BY <1>1 DEF TypeOK, ActiveIsVouched, AwaitInv, VouchInv, User
  <1>4. AwaitInv'
    BY <1>1 DEF TypeOK, AwaitInv, RowIsBacked, VouchInv, User
  <1>5. VouchInv'
    BY <1>1 DEF TypeOK, VouchInv, RowIsBacked, AwaitInv, ModeInv, User
  <1>6. ModeInv'
    BY <1>1 DEF TypeOK, ModeInv, AwaitInv, User
  <1>7. DecidedInv'
    BY <1>1 DEF TypeOK, DecidedInv, RowIsBacked, AwaitInv, VouchInv, ModeInv, User
  <1> QED BY <1>2, <1>3, <1>4, <1>5, <1>6, <1>7

\* The NFT is stored; after onboarding the user is active.
LEMMA SaveDidStep ==
    ASSUME KycInv, TypeOK', Vouched => Vouched', NEW h \in Handlers, SaveDid(h)
    PROVE  KycInv'
  <1> USE NullsAssumption DEF KycInv, Handlers, Minting
  <1>1. /\ pc[h] = "saveDid"
        /\ pc'[h] = "returned"
        /\ \A g \in Handlers : g # h => pc'[g] = pc[g]
        /\ user'.status = (IF job[h].op = "profile" THEN user.status ELSE "active")
        /\ user'.account = user.account
        /\ user'.kycReq = user.kycReq
        /\ user'.completed = user.completed
        /\ user'.serial = h
        /\ job' = job
        /\ UNCHANGED <<vaults, mirsad, inbox, nft, attested>>
    BY DEF TypeOK, Goto, external, User, Statuses, Job, Pcs, Running, SaveDid
  <1>2. RowIsBacked'
    BY <1>1 DEF TypeOK, RowIsBacked, AwaitInv, User
  <1>3. ActiveIsVouched'
    BY <1>1 DEF TypeOK, ActiveIsVouched, AwaitInv, VouchInv, User
  <1>4. AwaitInv'
    BY <1>1 DEF TypeOK, AwaitInv, RowIsBacked, VouchInv, User
  <1>5. VouchInv'
    BY <1>1 DEF TypeOK, VouchInv, RowIsBacked, AwaitInv, ModeInv, User
  <1>6. ModeInv'
    BY <1>1 DEF TypeOK, ModeInv, AwaitInv, User
  <1>7. DecidedInv'
    BY <1>1 DEF TypeOK, DecidedInv, RowIsBacked, AwaitInv, VouchInv, ModeInv, User
  <1> QED BY <1>2, <1>3, <1>4, <1>5, <1>6, <1>7

\* The NFT the refresh loaded is wiped, or not.
LEMMA WipeStep ==
    ASSUME KycInv, TypeOK', Vouched => Vouched', NEW h \in Handlers, WipeOldNft(h)
    PROVE  KycInv'
  <1> USE NullsAssumption DEF KycInv, Handlers, Minting
  <1>1. /\ pc[h] = "wipe"
        /\ pc'[h] = "mint"
        /\ \A g \in Handlers : g # h => pc'[g] = pc[g]
        /\ user' = user
        /\ job' = job
        /\ UNCHANGED <<vaults, mirsad, inbox, attested>>
        /\ \A g \in Handlers : nft'[g] = nft[g] \/ nft'[g] = "wiped"
        /\ \A g \in Handlers : nft[g] = "none" => nft'[g] = "none" \/ g = job[h].snap.serial
    BY DEF TypeOK, Goto, external, User, Statuses, Job, Pcs, Running, WipeOldNft
  <1>2. RowIsBacked'
    BY <1>1 DEF TypeOK, RowIsBacked, AwaitInv, User
  <1>3. ActiveIsVouched'
    BY <1>1 DEF TypeOK, ActiveIsVouched, AwaitInv, VouchInv, User
  <1>4. AwaitInv'
    BY <1>1 DEF TypeOK, AwaitInv, RowIsBacked, VouchInv, User
  <1>5. VouchInv'
    BY <1>1 DEF TypeOK, VouchInv, RowIsBacked, AwaitInv, ModeInv, User
  <1>6. ModeInv'
    BY <1>1 DEF TypeOK, ModeInv, AwaitInv, User
  <1>7. DecidedInv'
    BY <1>1 DEF TypeOK, DecidedInv, RowIsBacked, AwaitInv, VouchInv, ModeInv, User
  <1> QED BY <1>2, <1>3, <1>4, <1>5, <1>6, <1>7

\* A handler dies.
LEMMA AbortStep ==
    ASSUME KycInv, TypeOK', Vouched => Vouched', NEW h \in Handlers, Abort(h)
    PROVE  KycInv'
  <1> USE NullsAssumption DEF KycInv, Handlers, Minting
  <1>1. /\ pc'[h] = "threw"
        /\ \A g \in Handlers : g # h => pc'[g] = pc[g]
        /\ user' = user
        /\ job' = job
        /\ UNCHANGED <<vaults, mirsad, inbox, nft, attested>>
    BY DEF TypeOK, Goto, external, User, Statuses, Job, Pcs, Running, Abort
  <1>2. RowIsBacked'
    BY <1>1 DEF TypeOK, RowIsBacked, AwaitInv, User
  <1>3. ActiveIsVouched'
    BY <1>1 DEF TypeOK, ActiveIsVouched, AwaitInv, VouchInv, User
  <1>4. AwaitInv'
    BY <1>1 DEF TypeOK, AwaitInv, RowIsBacked, VouchInv, User
  <1>5. VouchInv'
    BY <1>1 DEF TypeOK, VouchInv, RowIsBacked, AwaitInv, ModeInv, User
  <1>6. ModeInv'
    BY <1>1 DEF TypeOK, ModeInv, AwaitInv, User
  <1>7. DecidedInv'
    BY <1>1 DEF TypeOK, DecidedInv, RowIsBacked, AwaitInv, VouchInv, ModeInv, User
  <1> QED BY <1>2, <1>3, <1>4, <1>5, <1>6, <1>7

\* Mirsad decides.
LEMMA MirsadStep ==
    ASSUME KycInv, TypeOK', Vouched => Vouched', NEW c \in Calls, NEW d \in Decisions, MirsadDecides(c, d)
    PROVE  KycInv'
  <1> USE NullsAssumption DEF KycInv, Handlers, Minting
  <1>1. /\ user' = user
        /\ job' = job
        /\ pc' = pc
        /\ "received" \in mirsad[c]
        /\ mirsad' = [mirsad EXCEPT ![c] = @ \cup {d}]
        /\ inbox' = inbox \cup {[req |-> c, decision |-> d]}
        /\ UNCHANGED <<vaults, nft, attested>>
    BY DEF TypeOK, Goto, external, User, Statuses, Job, Pcs, Running, MirsadDecides
  <1>2. RowIsBacked'
    BY <1>1 DEF TypeOK, RowIsBacked, AwaitInv, User, Callback
  <1>3. ActiveIsVouched'
    BY <1>1 DEF TypeOK, ActiveIsVouched, AwaitInv, VouchInv, User, Callback
  <1>4. AwaitInv'
    BY <1>1 DEF TypeOK, AwaitInv, RowIsBacked, VouchInv, User, Callback
  <1>5. VouchInv'
    BY <1>1 DEF TypeOK, VouchInv, RowIsBacked, AwaitInv, ModeInv, User, Callback
  <1>6. ModeInv'
    BY <1>1 DEF TypeOK, ModeInv, AwaitInv, User, Callback
  <1>7. DecidedInv'
    BY <1>1 DEF TypeOK, DecidedInv, RowIsBacked, AwaitInv, VouchInv, ModeInv, User, Callback
  <1> QED BY <1>2, <1>3, <1>4, <1>5, <1>6, <1>7

\* A call of the user begins: from a row whose status its checks have looked at.
LEMMA BeginStep ==
    ASSUME KycInv, TypeOK', Vouched => Vouched', NEW h \in Calls, Begin(h)
    PROVE  KycInv'
  <1> USE NullsAssumption DEF KycInv, Handlers, Minting
  <1>1. /\ pc[h] = "idle"
        /\ \/ pc'[h] = "vault" /\ user.account = None /\ job'[h].op = "wallet"
           \/ pc'[h] = "post" /\ MirsadConfigured /\ MaySubmit /\ job'[h].op = "submit"
           \/ pc'[h] = "demo" /\ ~MirsadConfigured /\ MaySubmit /\ job'[h].op = "submit"
           \/ /\ pc'[h] = "wipe" /\ user.serial # None /\ user.account # None
              /\ job'[h].op = "profile"
        /\ job'[h].snap = user
        /\ \A g \in Handlers : g # h => pc'[g] = pc[g] /\ job'[g] = job[g]
        /\ UNCHANGED <<user, vaults, mirsad, inbox, nft, attested>>
    BY DEF TypeOK, Goto, external, Begin, CreateWallet, SubmitKyc, MaySubmit, UpdateProfile, Start
  <1>2. RowIsBacked'
    BY <1>1 DEF TypeOK, RowIsBacked, AwaitInv, User, MaySubmit
  <1>3. ActiveIsVouched'
    BY <1>1 DEF TypeOK, ActiveIsVouched, AwaitInv, VouchInv, User, MaySubmit
  <1>4. AwaitInv'
    BY <1>1 DEF TypeOK, AwaitInv, RowIsBacked, VouchInv, User, MaySubmit
  <1>5. VouchInv'
    BY <1>1 DEF TypeOK, VouchInv, RowIsBacked, AwaitInv, ModeInv, ActiveIsVouched, User, MaySubmit
  <1>6. ModeInv'
    BY <1>1 DEF TypeOK, ModeInv, AwaitInv, User, MaySubmit
  <1>7. DecidedInv'
    BY <1>1 DEF TypeOK, DecidedInv, RowIsBacked, AwaitInv, VouchInv, ModeInv, User, MaySubmit
  <1> QED BY <1>2, <1>3, <1>4, <1>5, <1>6, <1>7

\* A callback arrives, for a request Mirsad has decided.
LEMMA ReceiveStep ==
    ASSUME KycInv, TypeOK', Vouched => Vouched', NEW h \in Deliveries, NEW m \in inbox, Receive(h, m)
    PROVE  KycInv'
  <1> USE NullsAssumption DEF KycInv, Handlers, Minting
  <1>1. /\ pc[h] = "idle"
        /\ \/ pc'[h] = "returned"
           \/ pc'[h] = "saveDecision" /\ user.kycReq = m.req /\ ~user.completed
           \/ /\ pc'[h] = "onboard" /\ user.kycReq = m.req /\ user.completed
              /\ m.decision = "approved"
        /\ job'[h].decision = m.decision /\ job'[h].snap = user /\ job'[h].op = "callback"
        /\ \A g \in Handlers : g # h => pc'[g] = pc[g] /\ job'[g] = job[g]
        /\ inbox' \subseteq inbox
        /\ UNCHANGED <<user, vaults, mirsad, nft, attested>>
    BY DEF TypeOK, Goto, Receive, KnownRequest, AlreadyProcessed, Onboards
  <1>2. m.req \in Calls /\ m.decision \in Decisions /\ m.decision \in mirsad[m.req]
    BY DEF TypeOK, Callback, VouchInv
  <1>3. m.decision = "approved" => Vouched
    BY <1>2 DEF Vouched
  <1>4. MirsadConfigured
    BY <1>2 DEF ModeInv
  <1>5. RowIsBacked'
    BY <1>1, <1>2, <1>3, <1>4 DEF TypeOK, RowIsBacked, AwaitInv, User
  <1>6. ActiveIsVouched'
    BY <1>1, <1>2, <1>3, <1>4 DEF TypeOK, ActiveIsVouched, AwaitInv, VouchInv, User
  <1>7. AwaitInv'
    BY <1>1, <1>2, <1>3, <1>4 DEF TypeOK, AwaitInv, RowIsBacked, VouchInv, User
  <1>8. VouchInv'
    BY <1>1, <1>2, <1>3, <1>4 DEF TypeOK, VouchInv, RowIsBacked, AwaitInv, ModeInv, ActiveIsVouched, User
  <1>9. ModeInv'
    BY <1>1, <1>2, <1>3, <1>4 DEF TypeOK, ModeInv, AwaitInv, User
  <1>10. DecidedInv'
    BY <1>1, <1>2, <1>3, <1>4 DEF TypeOK, DecidedInv, RowIsBacked, AwaitInv, VouchInv, ModeInv, User
  <1> QED BY <1>5, <1>6, <1>7, <1>8, <1>9, <1>10

LEMMA KycStarts == Init => KycInv
  BY NullsAssumption DEF Init, KycInv, TypeOK, NewUser, NoJob, User, Job, Statuses, Pcs, Running, Handlers,
     RowIsBacked, ActiveIsVouched, AwaitInv, VouchInv, ModeInv, DecidedInv, Minting

\* Every step preserves the inductive invariant.
LEMMA KycKeeps == KycInv /\ [Next]_vars => KycInv'
  <1> SUFFICES ASSUME KycInv, [Next]_vars PROVE KycInv'
    OBVIOUS
  <1>1. TypeOK'
    BY KycTypeStep DEF KycInv
  <1>2. Vouched => Vouched'
    BY VouchedStays
  <1>3. CASE UNCHANGED vars
    BY <1>3 DEF vars, KycInv, TypeOK, RowIsBacked, ActiveIsVouched, AwaitInv, VouchInv, ModeInv, DecidedInv, Vouched
  <1> QED BY <1>1, <1>2, <1>3, CreateVaultStep, CreateUserTopicsStep, SaveWalletStep, FundWithTmusdStep, PostOnboardingStep,
             SaveSubmissionStep, AutoApproveStep, SaveDecisionStep, RereadStep, OnboardStep,
             MintStep, TransferStep, AttestStep, SaveDidStep, WipeStep,
             AbortStep, MirsadStep, BeginStep, ReceiveStep DEF Next, Advance, StoreRequest

\* The inductive invariant holds of every reachable state.
THEOREM KycInductive == Spec => []KycInv
  BY KycStarts, KycKeeps, PTL DEF Spec

\* Every reachable state is well typed.
THEOREM KycTypeCorrect == Spec => []TypeOK
  BY KycInductive, PTL DEF KycInv

\* Nobody is active, holds a DID NFT or is attested without an approval.
THEOREM ActiveIsVouchedHolds == Spec => []ActiveIsVouched
  BY KycInductive, PTL DEF KycInv

\* The row names only vaults, requests and NFTs that exist.
THEOREM RowIsBackedHolds == Spec => []RowIsBacked
  BY KycInductive, PTL DEF KycInv

\* An active user is demoted only by a handler that loaded the row before: the other
\* writes of the status cannot meet an active user, or leave it.
THEOREM DemotedOnlyByStaleHandlerHolds == Spec => DemotedOnlyByStaleHandler
  <1>1. KycInv /\ [Next]_vars =>
           [user.status = "active" /\ user'.status # "active"
            => \E h \in Handlers : /\ pc[h] \in Running /\ pc'[h] # pc[h]
                                   /\ job[h].snap.status # "active"]_vars
    <2> SUFFICES ASSUME KycInv, Next, user.status = "active", user'.status # "active"
                 PROVE  \E h \in Handlers : /\ pc[h] \in Running /\ pc'[h] # pc[h]
                                            /\ job[h].snap.status # "active"
      OBVIOUS
    <2> USE DEF KycInv, TypeOK, Handlers, Goto, external
    <2>1. ASSUME NEW h \in Handlers, SaveWallet(h) \/ SaveSubmission(h) \/ SaveDecision(h)
          PROVE  /\ pc[h] \in Running /\ pc'[h] # pc[h]
                 /\ job[h].snap.status # "active"
      BY <2>1 DEF SaveWallet, SaveSubmission, SaveDecision, DecidedInv, Running
    <2>2. ASSUME NEW h \in Handlers, AutoApproveForDemo(h) \/ SaveDid(h) PROVE FALSE
      BY <2>2 DEF AutoApproveForDemo, SaveDid, User
    <2> QED
      BY <2>1, <2>2 DEF Next, Begin, CreateWallet, SubmitKyc, UpdateProfile, Start, Advance, StoreRequest, CreateVault,
         CreateUserTopics, FundWithTmusd, PostOnboarding, Reread, Onboard, MintDidNft, TransferNft,
         SubmitKycAttestation, WipeOldNft, Abort, MirsadDecides, Receive
  <1> QED BY <1>1, KycInductive, PTL DEF Spec, DemotedOnlyByStaleHandler

--------------------------------------------------------------------------------
(* What the row names, when nothing fails *)

\* A handler that stored its NFT is over, and an NFT is wiped only after that; a refresh
\* goes from the wipe to the last update.
NftInv ==
    /\ user.serial # None => pc[user.serial] = "returned"
    /\ \A h \in Handlers :
          /\ job[h].snap.serial # None => pc[job[h].snap.serial] = "returned"
          /\ nft[h] = "wiped" => pc[h] = "returned"
          /\ job[h].op = "profile" /\ pc[h] \in Running => pc[h] \in {"wipe", "mint", "transfer", "saveDid"}

\* What one handler does to the columns that NftInv is about.
LEMMA NftStep == KycInv /\ NftInv /\ [Next]_vars => NftInv'
  <1> SUFFICES ASSUME KycInv, NftInv, [Next]_vars PROVE NftInv'
    OBVIOUS
  <1> USE NullsAssumption DEF KycInv, TypeOK, Goto, external, Handlers
  <1>1. \A h \in Handlers : pc[h] = "returned" => pc'[h] = "returned"
    <2>1. ASSUME NEW g \in Handlers, Advance(g)
          PROVE  pc[g] # "returned" /\ \A h \in Handlers \ {g} : pc'[h] = pc[h]
      BY <2>1 DEF Advance, StoreRequest, CreateVault, CreateUserTopics, FundWithTmusd, SaveWallet, PostOnboarding,
         SaveSubmission, AutoApproveForDemo, SaveDecision, Reread, Onboard, MintDidNft, TransferNft,
         SubmitKycAttestation, SaveDid, WipeOldNft
    <2>2. ASSUME NEW c \in Calls, Begin(c)
          PROVE  pc[c] # "returned" /\ \A h \in Handlers \ {c} : pc'[h] = pc[h]
      BY <2>2 DEF Begin, CreateWallet, SubmitKyc, UpdateProfile, Start
    <2>3. ASSUME NEW g \in Handlers, Abort(g)
          PROVE  pc[g] # "returned" /\ \A h \in Handlers \ {g} : pc'[h] = pc[h]
      BY <2>3 DEF Abort, Running
    <2>5. ASSUME NEW g \in Deliveries, NEW m \in inbox, Receive(g, m)
          PROVE  pc[g] # "returned" /\ \A h \in Handlers \ {g} : pc'[h] = pc[h]
      BY <2>5 DEF Receive
    <2>4. ASSUME UNCHANGED vars \/ \E c \in Calls, d \in Decisions : MirsadDecides(c, d)
          PROVE  UNCHANGED pc
      BY <2>4 DEF MirsadDecides, vars
    <2> HIDE DEF TypeOK, KycInv, external, Goto
    <2>6. \/ UNCHANGED pc
          \/ \E g \in Handlers : pc[g] # "returned" /\ \A h \in Handlers \ {g} : pc'[h] = pc[h]
      <3>1. CASE \E c \in Calls : Begin(c)
        BY <2>2, <3>1
      <3>2. CASE \E h \in Handlers : Advance(h)
        BY <2>1, <3>2
      <3>3. CASE \E h \in Handlers : Abort(h)
        BY <2>3, <3>3
      <3>4. CASE \E h \in Deliveries, m \in inbox : Receive(h, m)
        BY <2>5, <3>4
      <3>5. CASE UNCHANGED vars \/ \E c \in Calls, d \in Decisions : MirsadDecides(c, d)
        BY <2>4, <3>5
      <3> HIDE DEF Handlers
      <3> QED BY <3>1, <3>2, <3>3, <3>4, <3>5 DEF Next
    <2> QED BY <2>6
  <1>2. user'.serial # None => pc'[user'.serial] = "returned"
    <2>1. ASSUME NEW h \in Handlers, SaveDid(h) PROVE user'.serial = h /\ pc'[h] = "returned"
      BY <2>1 DEF SaveDid, User
    <2>2. CASE \A h \in Handlers : ~SaveDid(h)
      <3>1. ASSUME NEW h \in Handlers, SaveWallet(h) \/ StoreRequest(h) \/ SaveDecision(h)
            PROVE  user'.serial = user.serial
        <4>1. CASE SaveWallet(h)
          BY <4>1 DEF SaveWallet, User
        <4>2. CASE SaveSubmission(h) \/ AutoApproveForDemo(h)
          BY <4>2 DEF SaveSubmission, AutoApproveForDemo, User
        <4>3. CASE SaveDecision(h)
          BY <4>3 DEF SaveDecision, User
        <4> QED BY <3>1, <4>1, <4>2, <4>3 DEF StoreRequest
      <3>2. UNCHANGED user \/ \E h \in Handlers : SaveWallet(h) \/ StoreRequest(h) \/ SaveDecision(h)
        BY <2>2 DEF Next, Begin, CreateWallet, SubmitKyc, UpdateProfile, Start, Advance, CreateVault,
           CreateUserTopics, FundWithTmusd, PostOnboarding, Reread, Onboard, MintDidNft, TransferNft,
           SubmitKycAttestation, WipeOldNft, Abort, MirsadDecides, Receive, vars
      <3>3. user'.serial = user.serial
        BY <3>1, <3>2
      <3> QED BY <1>1, <3>3 DEF NftInv, User
    <2> QED BY <2>1, <2>2
  <1>3. ASSUME NEW h \in Handlers PROVE job'[h].snap.serial # None => pc'[job'[h].snap.serial] = "returned"
    <2>1. ASSUME NEW g \in Handlers, Begin(g) \/ Onboard(g) \/ \E m \in inbox : g \in Deliveries /\ Receive(g, m)
          PROVE  job'[h] = job[h] \/ job'[h].snap = user
      BY <2>1 DEF Begin, CreateWallet, SubmitKyc, UpdateProfile, Start, Onboard, Receive, Job
    <2>2. UNCHANGED job \/ \E g \in Handlers : Begin(g) \/ Onboard(g) \/ \E m \in inbox : g \in Deliveries /\ Receive(g, m)
      BY DEF Next, Advance, CreateVault, CreateUserTopics, FundWithTmusd, SaveWallet, StoreRequest,
         SaveSubmission, AutoApproveForDemo, SaveDecision, PostOnboarding, Reread, MintDidNft, TransferNft,
         SubmitKycAttestation, SaveDid, WipeOldNft, Abort, MirsadDecides, vars
    <2>3. job'[h] = job[h] \/ job'[h].snap = user
      BY <2>1, <2>2
    <2>4. job[h].snap.serial # None => job[h].snap.serial \in Handlers
      BY DEF Job, User
    <2>5. user.serial # None => user.serial \in Handlers
      BY DEF User
    <2> QED BY <1>1, <2>3, <2>4, <2>5 DEF NftInv
  <1>4. ASSUME NEW h \in Handlers PROVE nft'[h] = "wiped" => pc'[h] = "returned"
    <2>1. ASSUME NEW g \in Handlers, MintDidNft(g) \/ TransferNft(g)
          PROVE  nft'[h] = nft[h] \/ nft'[h] # "wiped"
      BY <2>1 DEF MintDidNft, TransferNft
    <2>2. ASSUME NEW g \in Handlers, WipeOldNft(g) PROVE nft'[h] = nft[h] \/ pc[h] = "returned"
      BY <2>2 DEF WipeOldNft, NftInv, AwaitInv
    <2>3. UNCHANGED nft \/ \E g \in Handlers : MintDidNft(g) \/ TransferNft(g) \/ WipeOldNft(g)
      BY DEF Next, Begin, CreateWallet, SubmitKyc, UpdateProfile, Start, Advance, StoreRequest, CreateVault,
         CreateUserTopics, FundWithTmusd, SaveWallet, PostOnboarding, SaveSubmission, AutoApproveForDemo,
         SaveDecision, Reread, Onboard, SubmitKycAttestation, SaveDid, Abort, MirsadDecides, Receive, vars
    <2> QED BY <1>1, <2>1, <2>2, <2>3 DEF NftInv
  <1>5. ASSUME NEW h \in Handlers PROVE job'[h].op = "profile" /\ pc'[h] \in Running
                                        => pc'[h] \in {"wipe", "mint", "transfer", "saveDid"}
    <2>1. ASSUME NEW g \in Handlers, Begin(g) \/ \E m \in inbox : g \in Deliveries /\ Receive(g, m)
          PROVE  \/ job'[h] = job[h] /\ pc'[h] = pc[h]
                 \/ job'[h].op # "profile" \/ pc'[h] = "wipe"
      BY <2>1 DEF Begin, CreateWallet, SubmitKyc, UpdateProfile, Start, Receive
    <2>2. ASSUME NEW g \in Handlers, Advance(g) \/ Abort(g)
          PROVE  \/ job'[h] = job[h] /\ pc'[h] = pc[h]
                 \/ job'[h].op = job[h].op /\ (pc'[h] \in {"mint", "transfer", "saveDid"} \/ pc'[h] \notin Running)
                 \/ job'[h].op = job[h].op /\ pc[h] \in Running \ {"wipe", "mint", "transfer", "saveDid"}
                 \/ job[h].op # "profile" /\ job'[h] = job[h]
      BY <2>2 DEF Advance, StoreRequest, CreateVault, CreateUserTopics, FundWithTmusd, SaveWallet, PostOnboarding,
         SaveSubmission, AutoApproveForDemo, SaveDecision, Reread, Onboard, MintDidNft, TransferNft,
         SubmitKycAttestation, SaveDid, WipeOldNft, Abort, Running, Job
    <2>3. ASSUME NEW c \in Calls, NEW d \in Decisions, MirsadDecides(c, d) PROVE UNCHANGED <<job, pc>>
      BY <2>3 DEF MirsadDecides
    <2> QED BY <2>1, <2>2, <2>3 DEF NftInv, Next, vars
  <1> QED BY <1>2, <1>3, <1>4, <1>5 DEF NftInv

\* A refresh that has wiped the NFT that the row names goes on until the row names another.
LEMMA NamedNftStep == KycInv /\ NftInv /\ NamedNftLives /\ ~Faults /\ [Next]_vars => NamedNftLives'
  <1> SUFFICES ASSUME KycInv, NftInv, NamedNftLives, ~Faults, [Next]_vars,
                      user'.serial # None, nft'[user'.serial] = "wiped"
               PROVE  \E h \in Handlers : /\ pc'[h] \in Running /\ job'[h].op = "profile"
                                          /\ job'[h].snap.serial = user'.serial
    BY DEF NamedNftLives
  <1> USE NullsAssumption DEF KycInv, TypeOK, Goto, external, Handlers
  <1>1. ASSUME NEW h \in Handlers, SaveDid(h) PROVE FALSE
    BY <1>1 DEF SaveDid, User, NftInv
  <1>2. user'.serial = user.serial /\ user.serial \in Handlers
    <2>1. ASSUME NEW h \in Handlers, SaveWallet(h) \/ StoreRequest(h) \/ SaveDecision(h)
          PROVE  user'.serial = user.serial
      <3>1. CASE SaveWallet(h)
        BY <3>1 DEF SaveWallet, User
      <3>2. CASE StoreRequest(h)
        <4>1. PICK x : user' = [user EXCEPT !.kycReq = x] \/ user' = [user EXCEPT !.status = "kyc_submitted", !.kycReq = x]
          BY <3>2 DEF StoreRequest, SaveSubmission, AutoApproveForDemo
        <4>2. user \in User
          OBVIOUS
        <4> QED BY <4>1, <4>2 DEF User
      <3>3. CASE SaveDecision(h)
        BY <3>3 DEF SaveDecision, User
      <3> QED BY <2>1, <3>1, <3>2, <3>3
    <2>2. UNCHANGED user \/ \E h \in Handlers : SaveWallet(h) \/ StoreRequest(h) \/ SaveDecision(h)
      BY <1>1 DEF Next, Begin, CreateWallet, SubmitKyc, UpdateProfile, Start, Advance, CreateVault,
         CreateUserTopics, FundWithTmusd, PostOnboarding, Reread, Onboard, MintDidNft, TransferNft,
         SubmitKycAttestation, WipeOldNft, Abort, MirsadDecides, Receive, vars
    <2> QED BY <2>1, <2>2 DEF User
  <1>3. CASE nft[user.serial] # "wiped"
    <2>1. PICK h \in Handlers : WipeOldNft(h) /\ job[h].snap.serial = user.serial
      <3>1. ASSUME NEW g \in Handlers, MintDidNft(g) \/ TransferNft(g) PROVE FALSE
        BY <1>2, <1>3, <3>1 DEF MintDidNft, TransferNft
      <3>2. ASSUME NEW g \in Handlers, WipeOldNft(g) PROVE job[g].snap.serial = user.serial
        BY <1>2, <1>3, <3>2 DEF WipeOldNft
      <3>3. nft' # nft
        BY <1>2, <1>3
      <3> QED BY <3>1, <3>2, <3>3 DEF Next, Begin, CreateWallet, SubmitKyc, UpdateProfile, Start, Advance, StoreRequest,
             CreateVault, CreateUserTopics, FundWithTmusd, SaveWallet, PostOnboarding, SaveSubmission,
             AutoApproveForDemo, SaveDecision, Reread, Onboard, SubmitKycAttestation, SaveDid, Abort,
             MirsadDecides, Receive, vars
    <2> QED BY <1>2, <2>1 DEF WipeOldNft, AwaitInv, Running
  <1>4. CASE nft[user.serial] = "wiped"
    <2>1. PICK h \in Handlers : pc[h] \in Running /\ job[h].op = "profile" /\ job[h].snap.serial = user.serial
      BY <1>2, <1>4 DEF NamedNftLives
    <2>2. pc[h] \in {"wipe", "mint", "transfer", "saveDid"}
      BY <2>1 DEF NftInv
    <2>3. ASSUME NEW g \in Handlers, Begin(g) \/ \E m \in inbox : g \in Deliveries /\ Receive(g, m)
          PROVE  job'[h] = job[h] /\ pc'[h] = pc[h]
      BY <2>1, <2>2, <2>3 DEF Begin, CreateWallet, SubmitKyc, UpdateProfile, Start, Receive
    <2>4. ASSUME NEW g \in Handlers, Advance(g)
          PROVE  job'[h] = job[h] /\ pc'[h] \in Running
      BY <1>1, <2>1, <2>2, <2>4 DEF Advance, StoreRequest, CreateVault, CreateUserTopics, FundWithTmusd, SaveWallet,
         PostOnboarding, SaveSubmission, AutoApproveForDemo, SaveDecision, Reread, Onboard, MintDidNft,
         TransferNft, SubmitKycAttestation, WipeOldNft, Running
    <2>5. job'[h] = job[h] /\ pc'[h] \in Running
      BY <2>1, <2>3, <2>4 DEF Next, Abort, MirsadDecides, vars
    <2> QED BY <1>2, <2>1, <2>5
  <1> QED BY <1>3, <1>4

\* When nothing fails, the NFT that the row names was wiped only by a refresh that is about
\* to store another one, also when refreshes and callbacks overlap.
THEOREM NamedNftLivesHolds == ASSUME ~Faults PROVE Spec => []NamedNftLives
  <1>1. Init => NftInv /\ NamedNftLives
    BY NullsAssumption DEF Init, NftInv, NamedNftLives, NoJob, NewUser, Running
  <1>2. KycInv /\ NftInv /\ NamedNftLives /\ [Next]_vars => (NftInv /\ NamedNftLives)'
    BY NftStep, NamedNftStep
  <1> QED BY <1>1, <1>2, KycInductive, PTL DEF Spec

--------------------------------------------------------------------------------
(* Calls that do not overlap and do not fail *)

OneAtATime == \A g, h \in Handlers : pc[g] \in Running /\ pc[h] \in Running => g = h

\* A handler that is alone still finds what it began with.
Turn(h) ==
    /\ pc[h] \in {"vault", "topics", "saveWallet"} => user.account = None
    /\ pc[h] \in {"post", "posted", "demo"} => MaySubmit
    /\ pc[h] = "saveDecision" => MirsadConfigured /\ ~user.completed
    /\ pc[h] \in {"saveDecision", "reread", "onboard"} => user.serial = None
    /\ pc[h] \in Minting \ {"onboard"} /\ job[h].op # "profile" =>
           user.serial = None /\ job[h].snap.topics = user.topics
    /\ pc[h] \in {"wipe", "mint", "transfer", "saveDid"} /\ job[h].op = "profile" =>
           user.serial # None /\ job[h].snap.serial = user.serial
    /\ pc[h] \in {"mint", "transfer", "saveDid"} /\ job[h].op = "profile" => nft[user.serial] = "wiped"

\* The NFT comes with the onboarding, and is the only one that is alive.
SerialIsActive == user.serial # None => user.status = "active"
OneLives == \A h \in Handlers : Live(h) => h = user.serial \/ pc[h] \in {"transfer", "attest", "saveDid"}

\* The wallet is the only one.
OneVault == /\ \A v \in vaults : v = user.account \/ pc[v] \in {"topics", "saveWallet"}
            /\ user.topics = user.account

\* An approval is on its way until the user is active.
Approving(h) == /\ job[h].op = "callback" /\ job[h].decision = "approved"
                /\ pc[h] \in {"saveDecision", "reread"} \cup Minting
Handled(c) == user.kycReq = c /\ "approved" \in mirsad[c] /\ [req |-> c, decision |-> "approved"] \notin inbox
ApprovalInv == \A c \in Calls : Handled(c) => user.status = "active" \/ \E h \in Handlers : Approving(h)

\* No answer of Mirsad is delivered before its submission is stored.
UndeliveredInv ==
    \A c \in Calls :
        /\ pc[c] \in {"idle", "post"} => mirsad[c] = {}
        /\ pc[c] = "posted" /\ "approved" \in mirsad[c] => [req |-> c, decision |-> "approved"] \in inbox

SettledInv == /\ OneAtATime /\ \A h \in Handlers : Turn(h)
              /\ SerialIsActive /\ OneLives /\ OneVault /\ ApprovalInv /\ UndeliveredInv

\* Handlers start one at a time, and run on alone.
LEMMA OneAtATimeStep == KycInv /\ OneAtATime /\ ~Concurrent /\ [Next]_vars => OneAtATime'
  <1> SUFFICES ASSUME KycInv, OneAtATime, ~Concurrent, [Next]_vars PROVE OneAtATime'
    OBVIOUS
  <1> USE NullsAssumption DEF KycInv, TypeOK, Goto, external, Handlers
  <1>1. ASSUME NEW h \in Handlers, Begin(h) \/ \E m \in inbox : h \in Deliveries /\ Receive(h, m)
        PROVE  OneAtATime'
    <2>1. \A g \in Handlers : pc[g] \notin Running /\ (g # h => pc'[g] = pc[g])
      BY <1>1 DEF Begin, CreateWallet, SubmitKyc, UpdateProfile, Start, Receive, Alone
    <2> QED BY <2>1 DEF OneAtATime
  <1>2. ASSUME NEW h \in Handlers, Advance(h) \/ Abort(h)
        PROVE  OneAtATime'
    <2>1. pc[h] \in Running /\ \A g \in Handlers : g # h => pc'[g] = pc[g]
      BY <1>2 DEF Advance, StoreRequest, CreateVault, CreateUserTopics, FundWithTmusd, SaveWallet, PostOnboarding,
         SaveSubmission, AutoApproveForDemo, SaveDecision, Reread, Onboard, MintDidNft, TransferNft,
         SubmitKycAttestation, SaveDid, WipeOldNft, Abort, Running
    <2> QED BY <2>1 DEF OneAtATime
  <1> QED BY <1>1, <1>2 DEF Next, MirsadDecides, vars, OneAtATime

\* What an action of the running handler leaves to show: the others do not run.
LEMMA RunsAlone ==
    ASSUME KycInv, OneAtATime, NEW h \in Handlers, Advance(h)
    PROVE  /\ pc[h] \in Running
           /\ \A g \in Handlers : g # h => pc[g] \notin Running /\ pc'[g] = pc[g]
  BY DEF Advance, StoreRequest, CreateVault, CreateUserTopics, FundWithTmusd, SaveWallet, PostOnboarding,
     SaveSubmission, AutoApproveForDemo, SaveDecision, Reread, Onboard, MintDidNft, TransferNft,
     SubmitKycAttestation, SaveDid, WipeOldNft, Running, OneAtATime, KycInv, TypeOK, Goto, Handlers

SerialInv == KycInv /\ NftInv /\ NamedNftLives /\ SettledInv

\* A handler begins with what its guards have looked at.
LEMMA TurnBegins ==
    ASSUME SerialInv, NEW h \in Handlers,
           Begin(h) \/ \E m \in inbox : h \in Deliveries /\ Receive(h, m)
    PROVE  Turn(h)'
  <1> USE NullsAssumption DEF SerialInv, SettledInv, KycInv, TypeOK, Goto, external, Handlers, Minting
  <1>1. CASE Begin(h)
    <2>1. /\ \/ pc'[h] = "vault" /\ user.account = None
             \/ pc'[h] \in {"post", "demo"} /\ MaySubmit
             \/ pc'[h] = "wipe" /\ user.serial # None
          /\ job'[h].snap = user /\ UNCHANGED user
      BY <1>1 DEF Begin, CreateWallet, SubmitKyc, UpdateProfile, Start
    <2> QED BY <2>1 DEF Turn, MaySubmit
  <1>2. CASE \E m \in inbox : h \in Deliveries /\ Receive(h, m)
    <2>1. PICK m \in inbox : Receive(h, m)
      BY <1>2
    <2>2. MirsadConfigured
      BY DEF VouchInv, ModeInv, Callback
    <2>3. /\ \/ pc'[h] = "returned"
             \/ pc'[h] = "saveDecision" /\ ~user.completed
             \/ pc'[h] = "onboard" /\ user.status # "active"
          /\ UNCHANGED user
      BY <2>1 DEF Receive, Onboards, AlreadyProcessed
    <2> QED BY <2>2, <2>3 DEF Turn, SerialIsActive, DecidedInv
  <1> QED BY <1>1, <1>2

\* Nobody else has changed what it looked at.
LEMMA TurnGoesOn ==
    ASSUME SerialInv, ~Faults, NEW h \in Handlers, Advance(h)
    PROVE  Turn(h)'
  <1> USE NullsAssumption DEF SerialInv, SettledInv, KycInv, TypeOK, Goto, external, Handlers, Minting, Turn
  <1>1. CASE CreateVault(h) \/ CreateUserTopics(h) \/ FundWithTmusd(h) \/ PostOnboarding(h)
    BY <1>1 DEF CreateVault, CreateUserTopics, FundWithTmusd, PostOnboarding, MaySubmit
  <1>2. CASE SaveWallet(h) \/ SaveSubmission(h)
    BY <1>2 DEF SaveWallet, SaveSubmission
  <1>3. CASE AutoApproveForDemo(h)
    BY <1>3 DEF AutoApproveForDemo, MaySubmit, SerialIsActive, User
  <1>4. CASE SaveDecision(h)
    BY <1>4 DEF SaveDecision, User
  <1>5. CASE Reread(h)
    BY <1>5 DEF Reread
  <1>6. CASE Onboard(h)
    BY <1>6 DEF Onboard, AwaitInv, NftInv, Running, Job
  <1>7. CASE WipeOldNft(h)
    BY <1>7 DEF WipeOldNft, AwaitInv, User
  <1>8. CASE MintDidNft(h) \/ TransferNft(h)
    BY <1>8 DEF MintDidNft, TransferNft, NftInv, User
  <1>9. CASE SubmitKycAttestation(h) \/ SaveDid(h)
    BY <1>9 DEF SubmitKycAttestation, SaveDid, NftInv, Running
  <1> QED BY <1>1, <1>2, <1>3, <1>4, <1>5, <1>6, <1>7, <1>8, <1>9 DEF Advance, StoreRequest

\* The row's NFT and wallet, and what else there is of them.
LEMMA RowStep ==
    ASSUME SerialInv, ~Faults, NEW h \in Handlers, Advance(h), KycInv'
    PROVE  SerialIsActive' /\ OneLives' /\ OneVault'
  <1> USE NullsAssumption DEF SerialInv, SettledInv, KycInv, TypeOK, Goto, external, Handlers, Minting
  <1> USE RunsAlone DEF Turn, SerialIsActive, OneLives, Live, OneVault
  <1>1. CASE CreateVault(h) \/ CreateUserTopics(h) \/ FundWithTmusd(h) \/ PostOnboarding(h)
    BY <1>1 DEF CreateVault, CreateUserTopics, FundWithTmusd, PostOnboarding, RowIsBacked, Running
  <1>2. CASE SaveWallet(h)
    <2>1. SerialIsActive'
      BY <1>2 DEF SaveWallet, RowIsBacked, AwaitInv, Running, User
    <2>2. OneLives'
      BY <1>2 DEF SaveWallet, RowIsBacked, AwaitInv, Running, User
    <2>3. OneVault'
      BY <1>2 DEF SaveWallet, RowIsBacked, AwaitInv, Running, User
    <2> QED BY <2>1, <2>2, <2>3
  <1>3. CASE SaveSubmission(h)
    BY <1>3 DEF SaveSubmission, MaySubmit, User, Running
  <1>4. CASE AutoApproveForDemo(h)
    BY <1>4 DEF AutoApproveForDemo, User, Running
  <1>5. CASE SaveDecision(h)
    BY <1>5 DEF SaveDecision, User, Running
  <1>6. CASE Reread(h) \/ Onboard(h)
    BY <1>6 DEF Reread, Onboard, User, Running
  <1>7. CASE MintDidNft(h) \/ TransferNft(h) \/ WipeOldNft(h)
    <2>1. SerialIsActive'
      BY <1>7 DEF MintDidNft, TransferNft, WipeOldNft, User, Running
    <2>2. OneLives'
      BY <1>7 DEF MintDidNft, TransferNft, WipeOldNft, User, Running
    <2>3. OneVault'
      BY <1>7 DEF MintDidNft, TransferNft, WipeOldNft, User, Running
    <2> QED BY <2>1, <2>2, <2>3
  <1>8. CASE SubmitKycAttestation(h)
    BY <1>8 DEF SubmitKycAttestation, User, Running
  <1>9. CASE SaveDid(h)
    <2>1. SerialIsActive'
      BY <1>9 DEF SaveDid, User, Running
    <2>2. OneLives'
      BY <1>9 DEF SaveDid, User, Running
    <2>3. OneVault'
      BY <1>9 DEF SaveDid, User, Running
    <2> QED BY <2>1, <2>2, <2>3
  <1> QED BY <1>1, <1>2, <1>3, <1>4, <1>5, <1>6, <1>7, <1>8, <1>9 DEF Advance, StoreRequest

\* An approval is on its way until the user is active.
LEMMA ApprovalStep ==
    ASSUME SerialInv, ~Concurrent, ~Faults, [Next]_vars
    PROVE  ApprovalInv' /\ UndeliveredInv'
  <1> USE NullsAssumption DEF SerialInv, SettledInv, KycInv, TypeOK, Goto, external, Handlers, Minting
  <1>1. ASSUME NEW h \in Handlers, Advance(h)
        PROVE  ApprovalInv' /\ UndeliveredInv'
    <2>1. UndeliveredInv'
      <3>1. CASE PostOnboarding(h)
        BY <3>1 DEF PostOnboarding, UndeliveredInv, Decisions
      <3>2. CASE ~PostOnboarding(h)
        <4>1. UNCHANGED <<mirsad, inbox>> /\ pc'[h] \notin {"idle", "post", "posted"}
          BY <1>1, <3>2 DEF Advance, StoreRequest, CreateVault, CreateUserTopics, FundWithTmusd, SaveWallet,
             SaveSubmission, AutoApproveForDemo, SaveDecision, Reread, Onboard, MintDidNft, TransferNft,
             SubmitKycAttestation, SaveDid, WipeOldNft
        <4> QED BY <1>1, <4>1, RunsAlone DEF UndeliveredInv
      <3> QED BY <3>1, <3>2
    <2>2. SUFFICES ASSUME NEW c \in Calls, Handled(c)', user'.status # "active" PROVE Approving(h)'
      BY <2>1 DEF ApprovalInv
    <2>3. CASE SaveWallet(h)
      BY <2>2, <2>3 DEF SaveWallet, Turn, VouchInv, Handled, User
    <2>4. CASE StoreRequest(h)
      BY <2>2, <2>4 DEF StoreRequest, SaveSubmission, AutoApproveForDemo, UndeliveredInv, Handled, User
    <2>5. CASE ~SaveWallet(h) /\ ~StoreRequest(h)
      <3>1. Handled(c)
        <4>1. user'.kycReq = user.kycReq /\ inbox' = inbox
          <5>1. CASE SaveDecision(h)
            BY <5>1 DEF SaveDecision, User
          <5>2. CASE SaveDid(h)
            BY <5>2 DEF SaveDid, User
          <5>3. CASE ~(SaveDecision(h) \/ SaveDid(h))
            BY <1>1, <2>5, <5>3 DEF Advance, CreateVault, CreateUserTopics, FundWithTmusd, PostOnboarding,
               Reread, Onboard, MintDidNft, TransferNft, SubmitKycAttestation, WipeOldNft
          <5> QED BY <5>1, <5>2, <5>3
        <4>2. "approved" \in mirsad'[c] => "approved" \in mirsad[c]
          BY <1>1, <2>5 DEF Advance, CreateVault, CreateUserTopics, FundWithTmusd, PostOnboarding,
             SaveDecision, Reread, Onboard, MintDidNft, TransferNft,
             SubmitKycAttestation, SaveDid, WipeOldNft
        <4> QED BY <2>2, <4>1, <4>2 DEF Handled
      <3>2. user.status # "active"
        <4>1. CASE SaveDecision(h)
          BY <2>2, <4>1 DEF SaveDecision, Turn, DecidedInv, User
        <4>2. CASE SaveDid(h)
          BY <2>2, <4>2 DEF SaveDid, Turn, User
        <4>3. UNCHANGED user \/ SaveDecision(h) \/ SaveDid(h)
          BY <1>1, <2>5 DEF Advance, CreateVault, CreateUserTopics, FundWithTmusd, PostOnboarding, Reread, Onboard,
             MintDidNft, TransferNft, SubmitKycAttestation, WipeOldNft
        <4> QED BY <2>2, <4>1, <4>2, <4>3
      <3>3. Approving(h)
        <4>1. PICK g \in Handlers : Approving(g)
          BY <3>1, <3>2 DEF ApprovalInv
        <4> QED BY <1>1, <4>1, RunsAlone DEF Approving, Running
      <3>4. CASE SaveDecision(h)
        BY <2>2, <3>3, <3>4 DEF SaveDecision, StatusAfter, Approving, User
      <3>5. CASE Reread(h) \/ Onboard(h)
        BY <3>2, <3>3, <3>5 DEF Reread, Onboard, Onboards, Approving, AwaitInv, Job
      <3>6. CASE SaveDid(h)
        BY <2>2, <3>3, <3>6 DEF SaveDid, Approving, User
      <3>7. CASE MintDidNft(h) \/ TransferNft(h) \/ SubmitKycAttestation(h) \/ WipeOldNft(h)
        BY <3>3, <3>7 DEF MintDidNft, TransferNft, SubmitKycAttestation, WipeOldNft, Approving
      <3> QED BY <1>1, <2>5, <3>3, <3>4, <3>5, <3>6, <3>7 DEF Advance, CreateVault, CreateUserTopics, FundWithTmusd,
             PostOnboarding, Approving
    <2> QED BY <2>3, <2>4, <2>5
  <1>2. ASSUME NEW h \in Calls, Begin(h)
        PROVE  ApprovalInv' /\ UndeliveredInv'
    <2>1. /\ UNCHANGED <<user, mirsad, inbox>> /\ pc[h] = "idle" /\ pc'[h] \in {"vault", "post", "demo", "wipe"}
          /\ \A g \in Handlers : g # h => pc'[g] = pc[g] /\ job'[g] = job[g]
      BY <1>2 DEF Begin, CreateWallet, SubmitKyc, UpdateProfile, Start
    <2> QED BY <2>1 DEF ApprovalInv, Handled, Approving, UndeliveredInv
  <1>3. ASSUME NEW h \in Deliveries, NEW m \in inbox, Receive(h, m)
        PROVE  ApprovalInv' /\ UndeliveredInv'
    <2>1. /\ UNCHANGED <<user, mirsad>> /\ inbox' = inbox \ {m} /\ pc[h] = "idle"
          /\ \A g \in Handlers : g # h => pc'[g] = pc[g] /\ job'[g] = job[g]
          /\ \A g \in Handlers : pc[g] \notin Running
          /\ job'[h].op = "callback" /\ job'[h].decision = m.decision
      BY <1>3 DEF Receive, Alone
    <2>2. m \in Callback
      OBVIOUS
    <2>3. ASSUME NEW c \in Calls, Handled(c)', user.status # "active" PROVE Approving(h)'
      <3>1. \A g \in Handlers : ~Approving(g)
        BY <2>1 DEF Approving, Running
      <3>2. ~Handled(c)
        BY <2>3, <3>1 DEF ApprovalInv
      <3>3. m = [req |-> c, decision |-> "approved"] /\ user.kycReq = c
        BY <2>1, <2>3, <3>2 DEF Handled
      <3>4. pc'[h] \in {"saveDecision", "onboard"}
        BY <1>3, <2>3, <3>3 DEF Receive, KnownRequest, Onboards
      <3> QED BY <2>1, <3>3, <3>4 DEF Approving
    <2>4. UndeliveredInv'
      BY <1>3, <2>1 DEF UndeliveredInv, Running, Receive
    <2> QED BY <2>1, <2>3, <2>4 DEF ApprovalInv
  <1>4. ASSUME NEW c \in Calls, NEW d \in Decisions, MirsadDecides(c, d)
        PROVE  ApprovalInv' /\ UndeliveredInv'
    BY <1>4 DEF MirsadDecides, ApprovalInv, Handled, Approving, UndeliveredInv, Callback
  <1>5. CASE UNCHANGED vars
    BY <1>5 DEF vars, ApprovalInv, Handled, Approving, UndeliveredInv
  <1> QED BY <1>1, <1>2, <1>3, <1>4, <1>5 DEF Next, Abort

\* The inductive invariant of calls that do not overlap and do not fail.
LEMMA SerialKeeps == ~Concurrent /\ ~Faults /\ SerialInv /\ [Next]_vars => SerialInv'
  <1> SUFFICES ASSUME ~Concurrent, ~Faults, SerialInv, [Next]_vars PROVE SerialInv'
    OBVIOUS
  <1> USE NullsAssumption DEF KycInv, TypeOK, Goto, external, Handlers
  <1>1. KycInv' /\ NftInv' /\ NamedNftLives' /\ OneAtATime'
    BY KycKeeps, NftStep, NamedNftStep, OneAtATimeStep DEF SerialInv, SettledInv
  <1>2. ApprovalInv' /\ UndeliveredInv'
    BY ApprovalStep
  <1>3. SUFFICES (\A g \in Handlers : Turn(g)') /\ SerialIsActive' /\ OneLives' /\ OneVault'
    BY <1>1, <1>2 DEF SerialInv, SettledInv
  <1>4. ASSUME NEW g \in Handlers, pc'[g] \notin Running
        PROVE  Turn(g)'
    BY <1>4 DEF Turn, Running, Minting
  <1>5. ASSUME NEW h \in Handlers, Advance(h)
        PROVE  (\A g \in Handlers : Turn(g)') /\ SerialIsActive' /\ OneLives' /\ OneVault'
    <2>1. \A g \in Handlers : g # h => pc'[g] \notin Running
      BY <1>5, RunsAlone DEF SerialInv, SettledInv
    <2>2. SerialIsActive' /\ OneLives' /\ OneVault'
      BY <1>1, <1>5, RowStep
    <2>3. Turn(h)'
      BY <1>5, TurnGoesOn
    <2> QED BY <1>4, <2>1, <2>2, <2>3
  <1>6. ASSUME NEW h \in Handlers, Begin(h) \/ \E m \in inbox : h \in Deliveries /\ Receive(h, m)
        PROVE  (\A g \in Handlers : Turn(g)') /\ SerialIsActive' /\ OneLives' /\ OneVault'
    <2>1. /\ UNCHANGED <<user, vaults, nft>> /\ pc[h] = "idle"
          /\ \A g \in Handlers : pc[g] \notin Running /\ (g # h => pc'[g] = pc[g])
      <3>1. CASE Begin(h)
        BY <3>1 DEF Begin, CreateWallet, SubmitKyc, UpdateProfile, Start, Alone, SerialInv
      <3>2. CASE \E m \in inbox : Receive(h, m)
        BY <3>2 DEF Receive, Alone, SerialInv
      <3> QED BY <1>6, <3>1, <3>2
    <2>2. Turn(h)'
      BY <1>6, TurnBegins
    <2>3. SerialIsActive' /\ OneLives' /\ OneVault'
      BY <2>1 DEF SerialInv, SettledInv, SerialIsActive, OneLives, Live, OneVault, Running
    <2> QED BY <1>4, <2>1, <2>2, <2>3
  <1>7. CASE UNCHANGED <<user, job, pc, vaults, nft>>
    BY <1>7 DEF SerialInv, SettledInv, Turn, MaySubmit, SerialIsActive, OneLives, Live, OneVault
  <1> QED BY <1>5, <1>6, <1>7 DEF Next, Abort, MirsadDecides, vars

\* When calls do not overlap and nothing fails there is one vault and one living NFT, those
\* that the row names, and an approval that was delivered has made the user active.
THEOREM SettledIsRightHolds == ASSUME ~Concurrent, ~Faults PROVE Spec => []SettledIsRight
  <1>1. Init => SerialInv
    <2> SUFFICES ASSUME Init PROVE NftInv /\ NamedNftLives /\ SettledInv
      BY KycStarts DEF SerialInv
    <2> QED BY NullsAssumption DEF Init, NftInv, NamedNftLives, NoJob, NewUser, Running, Minting, SettledInv, OneAtATime, Turn,
               SerialIsActive, OneLives, Live, OneVault, ApprovalInv, Handled, UndeliveredInv, Handlers
  <1>2. SerialInv => SettledIsRight
    <2> SUFFICES ASSUME SerialInv, Idle PROVE OneNft /\ OneWallet /\ ApprovedIsActive
      BY DEF SettledIsRight, OneNft, OneWallet, ApprovedIsActive
    <2> USE NullsAssumption DEF SerialInv, KycInv, TypeOK, SettledInv, Idle, Handlers, User
    <2>1. {h \in Handlers : Live(h)} = {user.serial} \ {None}
      <3>1. ASSUME NEW h \in Handlers, Live(h) PROVE h = user.serial
        BY <3>1 DEF OneLives, Running
      <3>2. user.serial # None => Live(user.serial)
        BY DEF NamedNftLives, RowIsBacked, Live
      <3> QED BY <3>1, <3>2
    <2>2. vaults = {user.account} \ {None} /\ user.topics = user.account
      BY DEF OneVault, RowIsBacked, Running
    <2>3. ApprovedIsActive
      BY DEF ApprovedIsActive, ApprovalInv, Handled, Approving, Running, Minting
    <2> QED BY <2>1, <2>2, <2>3 DEF OneNft, OneWallet
  <1> QED BY <1>1, <1>2, SerialKeeps, PTL DEF Spec
====
