---- MODULE BrowserProofs ----
(***************************************************************************)
(* The session of a browser, the screens of the onboarding and the sockets *)
(* of a conversation keep what they promise, for every number of users,    *)
(* requests, windows, events and tokens.                                   *)
(***************************************************************************)
EXTENDS Session, OnboardingWizard, ChatPresence, TLAPS

(* The session *)

OnTheWay(c) == at[c] \in {"sent", "401", "renew", "renewed", "again", "answered"}

\* The store: who is signed out has nothing, and the refresh token is of the same user as
\* the access token.
StoreInv == /\ ~store.in => store = SignedOut
            /\ store.refresh # Nobody => Owner(store.token) = store.refresh

\* How often a handler may have run by now.
CountInv == \A c \in Requests :
    /\ at[c] \in {"idle", "sent"} => effects[c] = 0
    /\ at[c] \notin {"over", "answered"} => effects[c] <= 1
    /\ at[c] \notin {"over", "answered"} /\ call[c].op # "verify" => effects[c] = 0
    /\ at[c] = "answered" => call[c].op # "verify"

\* A request that no change of the session has overtaken carries tokens of its sender.
SenderInv == \A c \in Requests :
    /\ at[c] = "renew" => call[c].renews \in Users
    /\ OnTheWay(c) /\ c \notin parted =>
         /\ Owner(call[c].token) = call[c].as /\ store.refresh \in {Nobody, call[c].as}
         /\ at[c] = "renew" => call[c].renews = call[c].as
         /\ parted = {} => Owner(store.token) = call[c].as
         /\ ~store.in => call[c].op = "verify" /\ at[c] \in {"sent", "401"}

SessionIInv == SessionTypeOK /\ EffectOnce /\ NameIsOfToken /\ StoreInv /\ CountInv /\ SenderInv

(* The onboarding *)

WalletOfStatus == \/ wallet = FALSE /\ status \in {"", "pending_wallet"}
                  \/ wallet = TRUE /\ status \in {"pending_kyc", "kyc_submitted", "kyc_rejected", "active"}

\* The calls under way are those of the user who is signed in, unless they are marked; what
\* they bring is true of his row.
CallsRest ==
    /\ ~shownUser.is => ~shownUser.account /\ ~shownUser.active
    /\ profileCall.at = "idle" => ~profileCall.account
    /\ profileCall.account /\ ~switched => wallet
    /\ creating = "made" => wallet
    /\ creating = "theirs" \/ submitting = "theirs" => switched
    /\ submitting = "accepted" => status \in {"kyc_submitted", "kyc_rejected", "active"}
    /\ submitting = "sent" => PageRequires(form.kind) \subseteq form.filled

\* Who is asked for his code has no wallet, or one that the store is still to hear of.
CodeInv  == screen = "code" /\ wallet => lost \/ creating = "made"
CallsInv == CallsRest /\ CodeInv

WizardIInv == WizardInv /\ WalletOfStatus /\ CallsInv

(* The sockets *)

\* What holds of every account: an event under way is of a socket and at a stage of its
\* kind, and the room and socketRooms agree but for the sockets that are cleaned up after.
StageInv == \A e \in Events : stage[e] \in Stages =>
    /\ event[e].from \in Sockets
    /\ stage[e] \in {"check", "tell"} => event[e].kind = "join"
    /\ stage[e] = "enter" => event[e].kind \in {"join", "leave"}
    /\ stage[e] = "store" => event[e].kind # "leave"
    /\ stage[e] \in {"hdel", "clear", "untell"} => event[e].kind = "leave"
RoomInv == /\ room \subseteq online /\ room \subseteq tracked
           /\ \A s \in Sockets : /\ s \in tracked => s \in room \/ closing[s] # "no"
                                 /\ closing[s] # "no" => s \notin online

\* A clean-up that will delete an entry has seen its own.
DeleteInv == \A s \in Sockets :
    closing[s] = "del" => presence[Who(s)] \in {s, Offline} \/ Who(s) \in overtaken

\* The events and the sockets of an account.
Of(e, a)   == stage[e] \in Stages /\ Who(event[e].from) = a
SocketsOf(a) == {s \in Sockets : Who(s) = a}

\* An account with one window and one handler at a time.
AloneInv == \A a \in Members \ muddled :
    /\ \A s, t \in SocketsOf(a) : s \in online /\ t \in online => s = t
    /\ \A e, f \in Events : Of(e, a) /\ Of(f, a) => e = f
    /\ \A e \in Events : Of(e, a) => event[e].from \in online /\ \A s \in SocketsOf(a) : closing[s] = "no"
    /\ \A s, t \in SocketsOf(a) : closing[s] # "no" => t \notin room /\ (closing[t] # "no" => s = t)

\* Where such an account is between two moments at which it is settled.
Agree(a) == /\ \A s \in SocketsOf(a) : presence[a] = s <=> s \in room
            /\ told[a] = "online" <=> presence[a] # Offline
Outside(a) == \A s \in SocketsOf(a) : s \notin room
At(e, a) ==
    /\ stage[e] \in {"check", "enter"} => Agree(a)
    /\ stage[e] = "store" => IF event[e].kind = "join" THEN event[e].from \in room ELSE Agree(a)
    /\ stage[e] = "tell" => presence[a] = event[e].from /\ event[e].from \in room
    /\ stage[e] \in {"hdel", "clear", "untell"} => Outside(a)
    /\ stage[e] \in {"clear", "untell"} => presence[a] = Offline
    /\ stage[e] = "untell" => a \notin typing
Cleaned(s, a) == /\ closing[s] \in {"get", "del"} => presence[a] = s
                 /\ closing[s] = "tell" => presence[a] = Offline
Phase(a) ==
    /\ (\A e \in Events : ~Of(e, a)) /\ (\A s \in SocketsOf(a) : closing[s] = "no") => Agree(a)
    /\ \A e \in Events : Of(e, a) => At(e, a)
    /\ \A s \in SocketsOf(a) : Cleaned(s, a)
PhaseInv == \A a \in Members \ muddled : Phase(a)

\* The receipts of an account that sends them from one socket, one at a time.
ReceiptInv == \A a \in Members \ overtaken :
    /\ \A s, t \in SocketsOf(a) : reads[s] # 0 /\ reads[t] # 0 => s = t
    /\ receipt[a] # 0 => \E s \in SocketsOf(a) : receipt[a] <= reads[s]
    /\ \A e \in Events : Of(e, a) /\ event[e].kind = "read" => event[e].seq = reads[event[e].from] /\ event[e].seq # 0

ChatIInv == ChatTypeOK /\ StageInv /\ RoomInv /\ DeleteInv /\ AloneInv /\ PhaseInv /\ ReceiptInv

--------------------------------------------------------------------------------
(* The session *)

\* The auth store and the requests, with access tokens of T.
StoreOf(T) == [token : T, refresh : Anybody, in : BOOLEAN, user : Anybody]
CallsOf(T) == [Requests -> [op : {"any", "me", "verify"}, as : Anybody, token : T, renews : Anybody]]

LEMMA SessionStarts == SessionInit => SessionIInv
  <1> SUFFICES ASSUME SessionInit PROVE SessionIInv
    OBVIOUS
  <1>1. SessionTypeOK
    <2>1. issued \in Seq(Users) /\ Len(issued) = 0 /\ stale = 0 /\ MaxTokens \in Nat
      BY MaxTokensAssumption DEF SessionInit
    <2>2. store \in StoreOf({0})
      BY DEF SessionInit, SignedOut, StoreOf, Anybody
    <2>3. call \in CallsOf({0})
      BY DEF SessionInit, NoCall, CallsOf, Anybody
    <2>4. /\ at \in [Requests -> {"idle", "sent", "401", "renew", "renewed", "again", "answered", "over"}]
          /\ parted \subseteq Requests /\ signedOver \in BOOLEAN
      BY DEF SessionInit
    <2>7. effects \in [Requests -> 0 .. 2]
      <3>1. 0 \in 0 .. 2
        OBVIOUS
      <3> QED BY <3>1 DEF SessionInit
    <2>5. 0 .. Len(issued) = {0}
      BY <2>1
    <2>6. Len(issued) <= MaxTokens /\ stale \in 0 .. Len(issued)
      BY <2>1
    <2> QED BY <2>1, <2>2, <2>3, <2>4, <2>5, <2>6, <2>7 DEF SessionTypeOK, StoreOf, CallsOf
  <1>2. EffectOnce /\ CountInv
    BY DEF SessionInit, EffectOnce, CountInv
  <1>3. NameIsOfToken /\ StoreInv
    BY DEF SessionInit, NameIsOfToken, StoreInv, SignedOut
  <1>4. SenderInv
    BY DEF SessionInit, SenderInv, OnTheWay
  <1> QED BY <1>1, <1>2, <1>3, <1>4 DEF SessionIInv

LEMMA Positive == at \in [Requests -> {"idle", "sent", "401", "renew", "renewed", "again", "answered", "over"}]
                    => UnderWay = {c \in Requests : OnTheWay(c)}
  BY DEF UnderWay, OnTheWay

\* The owner of a token that was issued stays its owner.
LEMMA OwnerStays ==
    ASSUME SessionTypeOK, NEW u \in Users, issued' = Append(issued, u)
    PROVE  /\ Len(issued') = Len(issued) + 1 /\ issued' \in Seq(Users)
           /\ \A n \in 0 .. Len(issued) : Owner(n)' = Owner(n)
           /\ \A n : n = Len(issued') => Owner(n)' = u
  <1>1. issued \in Seq(Users) /\ Len(issued) \in Nat
    BY DEF SessionTypeOK
  <1>2. issued' \in Seq(Users) /\ Len(issued') = Len(issued) + 1 /\ issued'[Len(issued) + 1] = u
    BY <1>1
  <1>3. \A n \in 1 .. Len(issued) : issued'[n] = issued[n]
    BY <1>1
  <1>4. \A n \in 0 .. Len(issued) : Owner(n)' = Owner(n)
    BY <1>1, <1>3 DEF Owner
  <1>5. \A n : n = Len(issued') => Owner(n)' = u
    BY <1>1, <1>2 DEF Owner
  <1> QED BY <1>2, <1>4, <1>5

\* A record of a request stays one when more tokens are issued.
LEMMA CallsStay ==
    ASSUME SessionTypeOK, NEW n \in Nat, Len(issued) <= n
    PROVE  store \in StoreOf(0 .. n) /\ call \in CallsOf(0 .. n)
  <1>1. 0 .. Len(issued) \subseteq 0 .. n /\ Len(issued) \in Nat
    BY DEF SessionTypeOK
  <1> QED BY <1>1, Zenon DEF SessionTypeOK, StoreOf, CallsOf

\* Tokens for u leave everything but the store as it should be.
LEMMA IssueKeeps ==
    ASSUME SessionIInv, NEW u \in Users, Issue(u), NEW x \in Anybody, signedOver' \in BOOLEAN,
           store' = [token |-> Len(issued'), refresh |-> u, in |-> TRUE, user |-> x]
    PROVE  SessionTypeOK' /\ EffectOnce' /\ CountInv' /\ SenderInv' /\ StoreInv'
  <1>1. SessionTypeOK'
    <2>1. Len(issued') \in Nat /\ Len(issued) <= Len(issued') /\ Len(issued') <= MaxTokens /\ issued' \in Seq(Users)
      BY OwnerStays, MaxTokensAssumption DEF Issue, SessionIInv, SessionTypeOK
    <2>2. call \in CallsOf(0 .. Len(issued')) /\ call' = call
      BY <2>1, CallsStay DEF SessionIInv, Issue
    <2>3. Len(issued') \in 0 .. Len(issued') /\ u \in Anybody
      BY <2>1 DEF Anybody
    <2>4. store' \in StoreOf(0 .. Len(issued'))
      BY <2>3 DEF StoreOf
    <2>5. stale' \in 0 .. Len(issued') /\ parted' \subseteq Requests
      BY <2>1 DEF Issue, SessionIInv, SessionTypeOK, UnderWay
    <2>6. at' = at /\ effects' = effects
      BY DEF Issue
    <2> QED BY <2>1, <2>2, <2>4, <2>5, <2>6 DEF SessionIInv, SessionTypeOK, StoreOf, CallsOf
  <1>2. EffectOnce' /\ CountInv'
    BY DEF Issue, SessionIInv, EffectOnce, CountInv
  <1>3. StoreInv'
    BY OwnerStays, NobodyAssumption DEF Issue, SessionIInv, SessionTypeOK, StoreInv
  <1>4. SenderInv'
    <2>1. call' = call /\ at' = at /\ issued' = Append(issued, u)
      BY DEF Issue
    <2>2. Owner(store.token)' = u
      BY <2>1, OwnerStays DEF SessionIInv, Owner
    <2>3. \A c \in Requests : OnTheWay(c) /\ c \notin parted' => c \notin parted /\ call[c].as = u
      BY Positive DEF Issue, SessionIInv, SessionTypeOK
    <2>4. \A c \in Requests : call[c].token \in 0 .. Len(issued)
      BY DEF SessionIInv, SessionTypeOK
    <2>5. \A c \in Requests : Owner(call[c].token)' = Owner(call[c].token)
      BY <2>1, <2>4, OwnerStays DEF SessionIInv, Owner
    <2> QED BY <2>1, <2>2, <2>3, <2>5 DEF SessionIInv, SenderInv, OnTheWay
  <1> QED BY <1>1, <1>2, <1>3, <1>4

LEMMA SignInKeeps == ASSUME SessionIInv, NEW u \in Users, SignIn(u) PROVE SessionIInv'
  <1>1. store.user \in Anybody /\ Issue(u) /\ signedOver' = (store.user \notin {Nobody, u})
    BY DEF SignIn, SessionIInv, SessionTypeOK
  <1>2. store' = [token |-> Len(issued'), refresh |-> u, in |-> TRUE, user |-> store.user]
    BY DEF SignIn, SessionIInv, SessionTypeOK
  <1>3. NameIsOfToken'
    BY <1>1, <1>2, OwnerStays DEF Issue, SessionIInv, NameIsOfToken, Owner
  <1> QED BY <1>1, <1>2, <1>3, IssueKeeps DEF SessionIInv

LEMMA WalletKeeps == ASSUME SessionIInv, SignInWithWallet PROVE SessionIInv'
  <1> DEFINE u == Owner(store.token)
  <1>1. store.user \in Anybody /\ Issue(u) /\ signedOver' = signedOver /\ signedOver \in BOOLEAN
    BY DEF SignInWithWallet, SessionIInv, SessionTypeOK
  <1>2. u \in Users
    BY DEF SignInWithWallet, SessionIInv, SessionTypeOK, Fresh, Owner
  <1>3. PICK x \in Anybody : /\ x = IF store.user = Nobody THEN u ELSE store.user
                            /\ store' = [token |-> Len(issued'), refresh |-> u, in |-> TRUE, user |-> x]
    BY <1>1, <1>2 DEF SignInWithWallet, SessionIInv, SessionTypeOK, Anybody
  <1>4. parted' = {} => parted = {}
    BY <1>1 DEF Issue
  <1>5. Owner(store.token)' = u
    BY <1>1, <1>2, <1>3, OwnerStays DEF Issue, SessionIInv, Owner
  <1>6. NameIsOfToken'
    BY <1>1, <1>3, <1>4, <1>5, NobodyAssumption DEF SessionIInv, NameIsOfToken
  <1> QED BY <1>1, <1>2, <1>3, <1>6, IssueKeeps DEF SessionIInv

LEMMA RenewKeeps == ASSUME SessionIInv, NEW c \in Requests, Renew(c) PROVE SessionIInv'
  <1>0. call[c].renews \in Users
    BY DEF Renew, SessionIInv, SenderInv
  <1>1. SessionTypeOK'
    <2>1. Len(issued') \in Nat /\ Len(issued) <= Len(issued') /\ Len(issued') <= MaxTokens /\ issued' \in Seq(Users)
      BY <1>0, OwnerStays, MaxTokensAssumption DEF Renew, SessionIInv, SessionTypeOK
    <2>2. store \in StoreOf(0 .. Len(issued')) /\ call \in CallsOf(0 .. Len(issued'))
      BY <2>1, CallsStay DEF SessionIInv
    <2>3. call' = [call EXCEPT ![c].token = Len(issued')] /\ store' = store
      BY DEF Renew
    <2>4. Len(issued') \in 0 .. Len(issued')
      BY <2>1
    <2>5. call' \in CallsOf(0 .. Len(issued'))
      BY <2>2, <2>3, <2>4 DEF CallsOf
    <2>6. stale' \in 0 .. Len(issued')
      BY <2>1 DEF Renew, SessionIInv, SessionTypeOK
    <2>7. at' \in [Requests -> {"idle", "sent", "401", "renew", "renewed", "again", "answered", "over"}]
      BY DEF Renew, Step, SessionIInv, SessionTypeOK
    <2>8. effects' = effects /\ parted' = parted /\ signedOver' = signedOver
      BY DEF Renew
    <2> QED BY <2>1, <2>2, <2>3, <2>5, <2>6, <2>7, <2>8 DEF SessionIInv, SessionTypeOK, StoreOf, CallsOf
  <1>2. EffectOnce' /\ CountInv'
    BY DEF Renew, Step, SessionIInv, SessionTypeOK, EffectOnce, CountInv
  <1>3. StoreInv' /\ NameIsOfToken'
    BY <1>0, OwnerStays, NobodyAssumption DEF Renew, SessionIInv, SessionTypeOK, StoreInv,
        NameIsOfToken, SignedOut
  <1>4. SenderInv'
    BY <1>0, OwnerStays DEF Renew, Step, SessionIInv, SessionTypeOK, SenderInv, OnTheWay
  <1> QED BY <1>1, <1>2, <1>3, <1>4 DEF SessionIInv

LEMMA OwnerSame == issued' = issued => \A n : Owner(n)' = Owner(n)
  BY DEF Owner

LEMMA SessionKeeps == SessionIInv /\ [SessionNext]_svars => SessionIInv'
  <1> SUFFICES ASSUME SessionIInv, [SessionNext]_svars PROVE SessionIInv'
    OBVIOUS
  <1> USE OwnerSame, NobodyAssumption, MaxTokensAssumption
      DEF SessionIInv, SessionTypeOK, EffectOnce, NameIsOfToken, StoreInv, CountInv, SenderInv, OnTheWay,
          Step, Anybody
  <1>1. CASE UNCHANGED svars
    BY <1>1 DEF svars
  <1>2. ASSUME NEW u \in Users, SignIn(u) PROVE SessionIInv'
    BY <1>2, SignInKeeps
  <1>12. CASE SignInWithWallet
    BY <1>12, WalletKeeps
  <1>3. CASE SignOut
    <2>1. SessionTypeOK'
      <3>1. store' \in StoreOf(0 .. Len(issued))
        <4>1. store' = SignedOut /\ 0 \in 0 .. Len(issued)
          BY <1>3 DEF SignOut
        <4> QED BY <4>1 DEF StoreOf, SignedOut
      <3>2. parted' \subseteq Requests /\ signedOver' \in BOOLEAN
        BY <1>3 DEF SignOut, UnderWay
      <3>3. at' \in [Requests -> {"idle", "sent", "401", "renew", "renewed", "again", "answered", "over"}]
        BY <1>3 DEF SignOut
      <3>4. issued' = issued /\ stale' = stale /\ call' = call /\ effects' = effects
        BY <1>3 DEF SignOut
      <3> QED BY <3>1, <3>2, <3>3, <3>4 DEF StoreOf
    <2>2. EffectOnce' /\ CountInv'
      BY <1>3 DEF SignOut
    <2>3. StoreInv' /\ NameIsOfToken'
      BY <1>3 DEF SignOut, SignedOut
    <2>4. SenderInv'
      BY <1>3, Positive DEF SignOut
    <2> QED BY <2>1, <2>2, <2>3, <2>4
  <1>4. CASE AccessExpires
    BY <1>4 DEF AccessExpires
  <1>5. ASSUME NEW c \in Requests, NEW op \in {"any", "me", "verify"}, Send(c, op) PROVE SessionIInv'
    <2>1. SessionTypeOK'
      BY <1>5 DEF Send, Sendable, Owner, SignedOut
    <2>2. EffectOnce' /\ CountInv'
      BY <1>5 DEF Send, Sendable, Owner, SignedOut
    <2>3. StoreInv' /\ NameIsOfToken'
      BY <1>5 DEF Send, Sendable, Owner, SignedOut
    <2>4. /\ UNCHANGED <<issued, stale, store, effects, parted, signedOver>> /\ Owner(store.token)' = Owner(store.token)
          /\ at' = [at EXCEPT ![c] = "sent"]
          /\ call' = [call EXCEPT ![c] = [op |-> op, as |-> Owner(store.token), renews |-> Nobody, token |-> store.token]]
          /\ Sendable(op)
      BY <1>5 DEF Send, Owner
    <2>5. /\ at'[c] = "sent" /\ call'[c].op = op /\ call'[c].as = Owner(store.token) /\ call'[c].token = store.token
          /\ \A d \in Requests \ {c} : at'[d] = at[d] /\ call'[d] = call[d]
      BY <2>4
    <2>6. SenderInv'
      <3>1. store.refresh \in {Nobody, Owner(store.token)} /\ (~store.in => op = "verify")
        BY <2>4 DEF Sendable
      <3> QED BY <2>4, <2>5, <3>1 DEF Owner
    <2> QED BY <2>1, <2>2, <2>3, <2>6
  <1>6. ASSUME NEW c \in Requests, Handle(c) PROVE SessionIInv'
    BY <1>6 DEF Handle, Runs, Passes
  <1>7. ASSUME NEW c \in Requests, AskRenewal(c) PROVE SessionIInv'
    <2>1. SessionTypeOK'
      <3> DEFINE T == 0 .. Len(issued)
                 Call == [op : {"any", "me", "verify"}, as : Anybody, token : T, renews : Anybody]
      <3>1. call \in [Requests -> Call] /\ store.refresh \in Anybody
        BY DEF Anybody
      <3>2. call' = [call EXCEPT ![c].renews = store.refresh]
        BY <1>7 DEF AskRenewal
      <3>3. at' \in [Requests -> {"idle", "sent", "401", "renew", "renewed", "again", "answered", "over"}]
        BY <1>7 DEF AskRenewal
      <3>4. call' \in [Requests -> Call]
        <4> HIDE DEF T, SessionTypeOK, SessionIInv, Anybody
        <4> QED BY <3>1, <3>2
      <3> QED BY <1>7, <3>3, <3>4 DEF AskRenewal
    <2>2. EffectOnce' /\ CountInv'
      BY <1>7 DEF AskRenewal, SignedOut
    <2>3. StoreInv' /\ NameIsOfToken'
      BY <1>7 DEF AskRenewal, SignedOut
    <2>4. SenderInv'
      BY <1>7 DEF AskRenewal, SignedOut
    <2> QED BY <2>1, <2>2, <2>3, <2>4
  <1>8. ASSUME NEW c \in Requests, Renew(c) PROVE SessionIInv'
    BY <1>8, RenewKeeps
  <1>9. ASSUME NEW c \in Requests, TakeRenewal(c) PROVE SessionIInv'
    <2>1. SessionTypeOK'
      BY <1>9 DEF TakeRenewal
    <2>2. EffectOnce' /\ CountInv'
      BY <1>9 DEF TakeRenewal
    <2>3. StoreInv' /\ NameIsOfToken'
      BY <1>9 DEF TakeRenewal
    <2>4. SenderInv'
      <3>1. c \notin parted => Owner(call[c].token) = call[c].as /\ store.in
        BY <1>9 DEF TakeRenewal
      <3>2. /\ store'.token = call[c].token /\ store'.refresh = Nobody /\ store'.in /\ at'[c] = "again"
            /\ \A d \in Requests \ {c} : at'[d] = at[d]
            /\ issued' = issued /\ call' = call /\ parted' = parted
        BY <1>9 DEF TakeRenewal
      <3>3. parted = {} => Owner(call[c].token) = Owner(store.token)
        BY <1>9 DEF TakeRenewal
      <3> HIDE DEF SessionTypeOK, StoreInv, CountInv, EffectOnce, NameIsOfToken
      <3> QED BY <1>9, <3>1, <3>2, <3>3 DEF TakeRenewal
    <2> QED BY <2>1, <2>2, <2>3, <2>4
  <1>10. ASSUME NEW c \in Requests, RenewalFails(c) PROVE SessionIInv'
    <2>1. SessionTypeOK'
      <3>1. store' \in StoreOf(0 .. Len(issued))
        <4>1. store' = SignedOut /\ 0 \in 0 .. Len(issued)
          BY <1>10 DEF RenewalFails
        <4> QED BY <4>1 DEF StoreOf, SignedOut
      <3>2. parted' \subseteq Requests /\ signedOver' \in BOOLEAN
        BY <1>10 DEF RenewalFails, UnderWay
      <3>3. at' \in [Requests -> {"idle", "sent", "401", "renew", "renewed", "again", "answered", "over"}]
        BY <1>10 DEF RenewalFails
      <3>4. issued' = issued /\ stale' = stale /\ call' = call /\ effects' = effects
        BY <1>10 DEF RenewalFails
      <3> QED BY <3>1, <3>2, <3>3, <3>4 DEF StoreOf
    <2>2. EffectOnce' /\ CountInv'
      BY <1>10 DEF RenewalFails
    <2>3. StoreInv' /\ NameIsOfToken'
      BY <1>10 DEF RenewalFails, SignedOut
    <2>4. SenderInv'
      BY <1>10, Positive DEF RenewalFails
    <2> QED BY <2>1, <2>2, <2>3, <2>4
  <1>11. ASSUME NEW c \in Requests, Take(c) PROVE SessionIInv'
    <2>1. SessionTypeOK'
      <3> DEFINE T == 0 .. Len(issued)
                 Store == [token : T, refresh : Anybody, in : BOOLEAN, user : Anybody]
      <3>1. store \in Store /\ call[c].token \in T
        OBVIOUS
      <3>2. Owner(call[c].token) \in Anybody
        BY <3>1 DEF Owner
      <3>3. store' = [store EXCEPT !.user = Owner(call[c].token), !.in = TRUE] \/ store' = store
        BY <1>11 DEF Take
      <3>4. store' \in Store
        <4> HIDE DEF T, SessionTypeOK, SessionIInv, Anybody
        <4> QED BY <3>1, <3>2, <3>3
      <3>5. at' \in [Requests -> {"idle", "sent", "401", "renew", "renewed", "again", "answered", "over"}]
        BY <1>11 DEF Take
      <3> QED BY <1>11, <3>4, <3>5 DEF Take
    <2>2. EffectOnce' /\ CountInv'
      BY <1>11 DEF Take, Owner
    <2>3. StoreInv' /\ NameIsOfToken'
      BY <1>11 DEF Take, Owner
    <2>4. SenderInv'
      BY <1>11 DEF Take, Owner
    <2> QED BY <2>1, <2>2, <2>3, <2>4
  <1> HIDE DEF SessionIInv, SessionTypeOK, EffectOnce, NameIsOfToken, StoreInv, CountInv, SenderInv
  <1> QED BY <1>1, <1>2, <1>3, <1>4, <1>5, <1>6, <1>7, <1>8, <1>9, <1>10, <1>11, <1>12 DEF SessionNext

\* What one user sent is done in the own name, and nobody comes back but by a code, in
\* every step.
LEMMA SessionActs ==
    ASSUME SessionIInv, [SessionNext]_svars
    PROVE  /\ \A c \in Requests : effects'[c] # effects[c] /\ call[c].op # "verify" /\ c \notin parted
                                  => Owner(call[c].token) = call[c].as
           /\ ~store.in /\ store'.in => store'.refresh # Nobody \/ \E c \in parted : at'[c] # at[c]
  <1> USE NobodyAssumption DEF SessionIInv, SessionTypeOK, CountInv, SenderInv, OnTheWay
  <1>1. ASSUME NEW c \in Requests, effects'[c] # effects[c], c \notin parted
        PROVE Owner(call[c].token) = call[c].as
    <2>1. PICK d \in Requests : Handle(d)
      BY <1>1 DEF SessionNext, svars, Send, AskRenewal, Renew, TakeRenewal, RenewalFails, Take,
          SignIn, SignInWithWallet, Issue, SignOut, AccessExpires
    <2>2. d = c
      BY <1>1, <2>1 DEF Handle
    <2> QED BY <1>1, <2>1, <2>2 DEF Handle
  <1>2. ASSUME ~store.in, store'.in PROVE store'.refresh # Nobody \/ \E c \in parted : at'[c] # at[c]
    <2>1. CASE \E u \in Users : SignIn(u)
      BY <2>1 DEF SignIn
    <2>2. ASSUME NEW c \in Requests, TakeRenewal(c) \/ Take(c) PROVE c \in parted /\ at'[c] # at[c]
      BY <1>2, <2>2 DEF TakeRenewal, Take, Step
    <2> QED BY <1>2, <2>1, <2>2 DEF SessionNext, svars, Send, Handle, AskRenewal, Renew, RenewalFails, SignOut,
                                    SignedOut, SignInWithWallet, AccessExpires
  <1> QED BY <1>1, <1>2

\* A request takes effect once (but for verifyOtp) and in the name of its sender unless the
\* session changed hands under it; nobody is back but by a code or a late answer; and the name
\* shown is the token's while no request outlived a session and nobody signed in over another's
\* session, for every number of users, requests and tokens (ApiClient.request,
\* attemptTokenRefresh, the auth store).
THEOREM SessionSafetyHolds == SessionSpec => SessionSafety
  <1>1. SessionSpec => []SessionIInv
    BY SessionStarts, SessionKeeps, PTL DEF SessionSpec
  <1>2. SessionIInv => SessionTypeOK /\ EffectOnce /\ NameIsOfToken
    BY DEF SessionIInv
  <1>3. SessionIInv /\ [SessionNext]_svars =>
          [\A c \in Requests : effects'[c] # effects[c] /\ call[c].op # "verify" /\ c \notin parted
                               => Owner(call[c].token) = call[c].as]_svars
    BY SessionActs
  <1>4. SessionIInv /\ [SessionNext]_svars =>
          [~store.in /\ store'.in => store'.refresh # Nobody \/ \E c \in parted : at'[c] # at[c]]_svars
    BY SessionActs
  <1> QED BY <1>1, <1>2, <1>3, <1>4, PTL DEF SessionSpec, SessionSafety, DoneInOwnName, BackOnlyByCode

--------------------------------------------------------------------------------
(* The onboarding *)

LEMMA KindOfForm == \A f \in Forms \cup {EmptyForm} : f.kind \in Kinds
  BY DEF Forms, EmptyForm, Kinds

\* What the page asks for is what Mirsad's client asks for, but for the countries, which
\* have defaults.
LEMMA PageFormIsValid == \A f \in Forms \cup {EmptyForm} : PageRequires(f.kind) \subseteq f.filled => Valid(f)
  <1> SUFFICES ASSUME NEW f \in Forms \cup {EmptyForm}, PageRequires(f.kind) \subseteq f.filled PROVE Valid(f)
    OBVIOUS
  <1>1. CASE f.kind = "individual"
    BY <1>1 DEF PageRequires, Valid, MirsadRequires, AllFields, Defaults
  <1>2. CASE f.kind = "business"
    BY <1>2 DEF PageRequires, Valid, MirsadRequires, AllFields, Defaults
  <1> QED BY <1>1, <1>2, KindOfForm DEF Kinds

Screens  == {"home", "register", "code", "their code", "login", "wallet", "kyc", "polling", "success", "feed"}
Shown    == [is : BOOLEAN, account : BOOLEAN, active : BOOLEAN]
Profiles == [at : {"idle", "loaded"}, account : BOOLEAN, success : BOOLEAN]

\* An effect leads to the code page nobody but who waits there and is not led on.
LEMMA LedOn == ASSUME NEW page \in Screens, NEW in, NEW st, NEW active, NEW screened
               PROVE  /\ Led(page, in, st, active, screened) \in Screens
                      /\ Led(page, in, st, active, screened) = "code" => page = "code" /\ ~(in /\ st = "submit_kyc")
  BY DEF Led, Screens, RegisterPage, KycPage

LEMMA RowsAre == \A other \in Rows :
    \/ other[1] = FALSE /\ other[2] = "pending_wallet"
    \/ other[1] = TRUE /\ other[2] \in {"pending_kyc", "kyc_submitted", "kyc_rejected", "active"}
  <1>1. ASSUME NEW other \in {TRUE} \X {"pending_kyc", "kyc_submitted", "kyc_rejected", "active"}
        PROVE  other[1] = TRUE /\ other[2] \in {"pending_kyc", "kyc_submitted", "kyc_rejected", "active"}
    BY <1>1
  <1>2. <<FALSE, "pending_wallet">>[1] = FALSE /\ <<FALSE, "pending_wallet">>[2] = "pending_wallet"
    OBVIOUS
  <1> QED BY <1>1, <1>2 DEF Rows

LEMMA OtherRow == ASSUME OtherUser
    PROVE  /\ \/ wallet' = FALSE /\ lost' = FALSE /\ status' = "pending_wallet"
              \/ wallet' = TRUE /\ lost' = TRUE /\ status' \in {"pending_kyc", "kyc_submitted", "kyc_rejected", "active"}
           /\ creating' = IF creating = "idle" THEN "idle" ELSE "theirs"
           /\ submitting' = IF submitting = "idle" THEN "idle" ELSE "theirs"
           /\ switched' = (switched \/ InUse)
  BY RowsAre DEF OtherUser

LEMMA TheirRow == ASSUME TheirWalletAnswers
    PROVE  \/ /\ TakeWallet /\ wallet' = TRUE
              /\ status' \in {"pending_kyc", "kyc_submitted", "kyc_rejected", "active"}
              /\ submitting' = IF submitting = "idle" THEN "idle" ELSE "theirs"
           \/ UNCHANGED <<step, signedIn, shownUser, screen, wallet, status, submitting>>
  BY RowsAre DEF TheirWalletAnswers

LEMMA ArriveOn == \A page \in Screens : Arrive(page) \in Screens /\ Arrive(page) # "code"
  <1> SUFFICES ASSUME NEW page \in Screens PROVE Arrive(page) \in Screens /\ Arrive(page) # "code"
    OBVIOUS
  <1>1. Mounted(page) \in Screens /\ Mounted(page) # "code"
    BY DEF Mounted, Screens, RegisterPage
  <1> QED BY <1>1, LedOn DEF Arrive

LEMMA Taken == ASSUME TakeWallet, screen \in Screens
    PROVE  /\ step' = "submit_kyc" /\ screen' # "code"
           /\ shownUser'.is = TRUE /\ shownUser'.account = TRUE /\ shownUser'.active = FALSE
  <1>1. screen' # "code"
    BY LedOn DEF TakeWallet
  <1> QED BY <1>1 DEF TakeWallet

LEMMA LeftOut == ASSUME Logout, screen \in Screens PROVE screen' = "code" => screen = "code"
  <1>1. \A in, st, active, screened : Led(screen, in, st, active, screened) = "code" => screen = "code"
    BY LedOn
  <1> QED BY <1>1 DEF Logout

LEMMA Fetched == ASSUME ProfileAnswers, WizardTypeOK, [WizardNext]_wizardVars
    PROVE  /\ profileCall'.account = FALSE
           /\ screen' = "code" => screen = "code"
           /\ \/ /\ shownUser'.is = TRUE /\ shownUser'.account = profileCall.account /\ shownUser'.active = TRUE
                 /\ step' \in {"success", step} /\ assumed' = (assumed \/ status # "active")
              \/ UNCHANGED <<shownUser, step, assumed>>
  <1>1. profileCall'.account = FALSE
    BY DEF ProfileAnswers, NoProfile
  <1>2. screen' = "code" => screen = "code"
    <2>1. \A in, st, active, screened : Led(screen, in, st, active, screened) = "code" => screen = "code"
      BY LedOn DEF WizardTypeOK, Screens
    <2> QED BY <2>1 DEF ProfileAnswers
  <1>3. \/ UNCHANGED <<shownUser, step, assumed>>
        \/ /\ shownUser' = [is |-> TRUE, account |-> profileCall.account, active |-> TRUE]
           /\ step' \in {"success", step}
           /\ assumed' = (assumed \/ status # "active")
    BY Zenon DEF ProfileAnswers
  <1>4. \/ UNCHANGED <<shownUser, step, assumed>>
        \/ shownUser'.is = TRUE /\ shownUser'.account = profileCall.account /\ shownUser'.active = TRUE
    BY <1>3
  <1> QED BY Zenon, <1>1, <1>2, <1>3, <1>4

LEMMA SubmitToMirsadDoes == ASSUME SubmitToMirsad, WizardTypeOK
    PROVE  /\ submitting = "sent"
           /\ \/ status' = status /\ submitting' = "refused"
              \/ status' = status /\ submitting' = "invalid" /\ ~Valid(form)
              \/ /\ status \in {"pending_kyc", "kyc_rejected"} /\ status' \in {"kyc_submitted", "active"}
                 /\ submitting' \in {"accepted", "refused"}
           /\ UNCHANGED <<wallet, configured, signedIn, screening, step, creating, form, lost, assumed, skipped, switched>>
  <1>0. UNCHANGED <<wallet, configured, signedIn, screening, step, creating, form, lost, assumed, skipped, switched>>
    BY DEF SubmitToMirsad, stored, marks
  <1>1. PICK o \in IF status \notin {"pending_kyc", "kyc_rejected"} THEN {<<"refused", status>>}
                   ELSE IF configured THEN Posted(form) ELSE {"accepted", "refused"} \X {"active"} :
                submitting' = o[1] /\ status' = o[2]
    BY DEF SubmitToMirsad
  <1>2. CASE status \notin {"pending_kyc", "kyc_rejected"}
    <2>1. o = <<"refused", status>>
      BY <1>1, <1>2
    <2>2. o[1] = "refused" /\ o[2] = status
      BY <2>1
    <2> QED BY <1>0, <1>1, <2>2 DEF SubmitToMirsad
  <1>3. CASE status \in {"pending_kyc", "kyc_rejected"} /\ ~configured
    <2>1. o \in {"accepted", "refused"} \X {"active"}
      BY <1>1, <1>3
    <2>2. o[1] \in {"accepted", "refused"} /\ o[2] = "active"
      BY <2>1
    <2>3. status' = "active" /\ submitting' \in {"accepted", "refused"}
      BY <1>1, <2>2
    <2> QED BY <1>0, <1>3, <2>3 DEF SubmitToMirsad
  <1>4. CASE status \in {"pending_kyc", "kyc_rejected"} /\ configured
    <2>1. o \in Posted(form)
      BY <1>1, <1>4
    <2>2. \/ o[1] = "accepted" /\ o[2] = "kyc_submitted"
          \/ o[1] = "refused" /\ o[2] \in {"kyc_submitted", status}
          \/ o[1] = "invalid" /\ o[2] = status /\ ~Valid(form)
      <3>1. \/ o = <<"accepted", "kyc_submitted">> \/ o = <<"refused", "kyc_submitted">>
            \/ o = <<"refused", status>> \/ (~Valid(form) /\ o = <<"invalid", status>>)
        BY <2>1 DEF Posted
      <3> QED BY <3>1
    <2>3. submitting' = o[1] /\ status' = o[2]
      BY <1>1
    <2> QED BY <1>0, <1>4, <2>2, <2>3 DEF SubmitToMirsad
  <1> QED BY <1>0, <1>2, <1>3, <1>4

LEMMA WizardStarts == WizardInit => WizardIInv
  <1> SUFFICES ASSUME WizardInit PROVE WizardIInv
    OBVIOUS
  <1>1. configured \in BOOLEAN /\ polls \in 0 .. MaxPolls
    <2>1. configured \in BOOLEAN
      BY DEF WizardInit
    <2>2. polls = 0
      BY DEF WizardInit
    <2> QED BY <2>1, <2>2, WizardAssumption
  <1>2. shownUser \in Shown /\ profileCall \in Profiles
    <2>1. NoUser \in Shown /\ NoProfile \in Profiles
      BY DEF NoUser, NoProfile, Shown, Profiles
    <2> QED BY <2>1 DEF WizardInit
  <1>3. form \in Forms \cup {EmptyForm}
    BY DEF WizardInit
  <1>4. WizardTypeOK
    <2> HIDE DEF Forms, EmptyForm
    <2> QED BY <1>1, <1>2, <1>3 DEF WizardInit, WizardTypeOK, Shown, Profiles
  <1> QED BY <1>4 DEF WizardInit, WizardIInv, WizardInv, StoreIsNotAhead, StoreIsNotBehind,
                      ValidFormIsValid, WalletOfStatus, CallsInv, CallsRest, CodeInv, NoUser, NoProfile

LEMMA ShownStep == ASSUME WizardTypeOK, [WizardNext]_wizardVars PROVE shownUser' \in Shown
  <1>1. CASE shownUser' = shownUser
    BY <1>1 DEF WizardTypeOK, Shown
  <1>2. CASE Logout
    BY <1>2 DEF Logout, NoUser, Shown
  <1>3. CASE TakeWallet
    BY <1>3 DEF TakeWallet, Shown
  <1>4. CASE ProfileAnswers
    <2>1. [is |-> TRUE, account |-> profileCall.account, active |-> TRUE] \in Shown
      BY DEF Shown, WizardTypeOK
    <2> QED BY <1>1, <1>4, <2>1 DEF ProfileAnswers
  <1> QED
    BY <1>1, <1>2, <1>3, <1>4
    DEF WizardNext, wizardVars, stored, Open, HandleRegister, HandleOtpSuccess, CreateWallet, PostWallet,
        WalletAnswers, TheirWalletAnswers, GoToKyc, HandleSubmit, SubmitToMirsad, KycAnswers, Callback,
        DoneElsewhere, Poll, PollAnew, SkipVerification, FetchProfile, HandleContinue, Reload

LEMMA ProfileStep == ASSUME WizardTypeOK, [WizardNext]_wizardVars PROVE profileCall' \in Profiles
  <1>1. CASE profileCall' = profileCall
    BY <1>1 DEF WizardTypeOK, Profiles
  <1>2. CASE profileCall' = NoProfile
    BY <1>2 DEF NoProfile, Profiles
  <1>3. CASE FetchProfile
    BY <1>3 DEF FetchProfile, Profiles, WizardTypeOK
  <1> QED
    BY <1>1, <1>2, <1>3
    DEF WizardNext, wizardVars, calls, Open, HandleRegister, HandleOtpSuccess, Logout, CreateWallet,
        PostWallet, WalletAnswers, TheirWalletAnswers, GoToKyc, HandleSubmit, SubmitToMirsad, KycAnswers,
        Callback, DoneElsewhere, Poll, PollAnew, SkipVerification, ProfileAnswers, HandleContinue, Reload

LEMMA PollsStep == ASSUME WizardTypeOK, [WizardNext]_wizardVars PROVE polls' \in 0 .. MaxPolls
  <1>1. polls \in 0 .. MaxPolls /\ MaxPolls \in Nat
    BY WizardAssumption DEF WizardTypeOK
  <1>2. polls' = polls \/ polls' = 0 \/ (polls < MaxPolls /\ polls' = polls + 1)
    BY DEF WizardNext, wizardVars, calls, Open, HandleRegister, HandleOtpSuccess, Logout, CreateWallet,
           PostWallet, WalletAnswers, TheirWalletAnswers, GoToKyc, HandleSubmit, SubmitToMirsad, KycAnswers,
           Callback, DoneElsewhere, Poll, PollAnew, SkipVerification, FetchProfile, ProfileAnswers,
           HandleContinue, Reload
  <1> QED BY <1>1, <1>2

LEMMA ScreenStep == ASSUME WizardTypeOK, [WizardNext]_wizardVars PROVE screen' \in Screens
  <1>1. screen \in Screens /\ Pages \subseteq Screens
    BY DEF WizardTypeOK, Screens, Pages
  <1>2. CASE screen' = screen
    BY <1>1, <1>2
  <1>3. CASE Logout \/ TakeWallet \/ ProfileAnswers
    <2>1. \A in, st, active, screened : Led(screen, in, st, active, screened) \in Screens
      BY <1>1, LedOn
    <2> QED BY <1>2, <1>3, <2>1 DEF Logout, TakeWallet, ProfileAnswers
  <1>4. CASE (\E page \in Pages : Open(page)) \/ GoToKyc \/ HandleContinue \/ Reload
    <2>1. "kyc" \in Pages /\ "feed" \in Pages
      BY DEF Pages
    <2>2. ASSUME NEW page \in Pages, Open(page) PROVE screen' \in Screens
      BY <1>1, <2>2, ArriveOn DEF Open
    <2> QED BY <1>1, <1>4, <2>1, <2>2, ArriveOn DEF GoToKyc, HandleContinue, Reload
  <1> QED
    BY <1>2, <1>3, <1>4
    DEF WizardNext, wizardVars, HandleRegister, HandleOtpSuccess, CreateWallet, PostWallet,
        WalletAnswers, TheirWalletAnswers, HandleSubmit, SubmitToMirsad, KycAnswers, Callback,
        DoneElsewhere, Poll, PollAnew, SkipVerification, FetchProfile, Screens

LEMMA WizardTypeStep == ASSUME WizardTypeOK, [WizardNext]_wizardVars PROVE WizardTypeOK'
  <1> USE RowsAre DEF WizardNext, wizardVars, row, stored, calls, marks, Open, HandleRegister, HandleOtpSuccess, SameUser, OtherUser, Logout, CreateWallet, PostWallet,
      TakeWallet, WalletAnswers, TheirWalletAnswers, GoToKyc, HandleSubmit, KycAnswers,
      Callback, DoneElsewhere, Poll, PollAnew, SkipVerification, FetchProfile, ProfileAnswers, HandleContinue, Reload
  <1>1. (wallet \in BOOLEAN /\ configured \in BOOLEAN)'
    BY SubmitToMirsadDoes DEF WizardTypeOK
  <1>2. (signedIn \in BOOLEAN /\ screening \in BOOLEAN)'
    BY SubmitToMirsadDoes DEF WizardTypeOK
  <1>3. (lost \in BOOLEAN /\ assumed \in BOOLEAN)'
    BY SubmitToMirsadDoes DEF WizardTypeOK
  <1>4. (skipped \in BOOLEAN /\ switched \in BOOLEAN)'
    BY SubmitToMirsadDoes DEF WizardTypeOK
  <1>5. status' \in {"", "pending_wallet", "pending_kyc", "kyc_submitted", "kyc_rejected", "active"}
    BY SubmitToMirsadDoes DEF WizardTypeOK
  <1>6. step' \in {"idle", "register", "create_wallet", "submit_kyc", "kyc_polling", "success"}
    BY SubmitToMirsadDoes DEF WizardTypeOK
  <1>7. creating' \in {"idle", "sent", "made", "refused", "theirs"}
    BY SubmitToMirsadDoes DEF WizardTypeOK
  <1>8. submitting' \in {"idle", "sent", "accepted", "refused", "invalid", "theirs"}
    BY SubmitToMirsadDoes DEF WizardTypeOK
  <1>9. form' \in Forms \cup {EmptyForm}
    BY SubmitToMirsadDoes DEF WizardTypeOK
  <1> HIDE DEF WizardNext, wizardVars
  <1> QED
    BY <1>1, <1>2, <1>3, <1>4, <1>5, <1>6, <1>7, <1>8, <1>9, ShownStep, ProfileStep, PollsStep, ScreenStep
    DEF WizardTypeOK, Shown, Profiles, Screens

\* The wallet and the status change together.
LEMMA WalletStep == ASSUME WizardIInv, [WizardNext]_wizardVars PROVE WalletOfStatus'
  <1>0. screen \in Screens /\ WizardTypeOK
    BY DEF WizardIInv, WizardInv, WizardTypeOK, Screens
  <1> USE DEF WizardIInv, WizardInv, WizardTypeOK, WalletOfStatus, row
  <1>1. CASE UNCHANGED wizardVars
    BY <1>1 DEF wizardVars
  <1>2. ASSUME NEW page \in Pages, Open(page) PROVE WalletOfStatus'
    BY <1>2 DEF Open
  <1>3. ASSUME NEW whose \in {"code", "their code"}, HandleRegister(whose) PROVE WalletOfStatus'
    BY <1>3 DEF HandleRegister
  <1>4. CASE HandleOtpSuccess
    BY <1>4, OtherRow DEF HandleOtpSuccess, SameUser, InUse
  <1>5. CASE Logout
    BY <1>5 DEF Logout, NoUser
  <1>6. CASE CreateWallet
    BY <1>6 DEF CreateWallet
  <1>7. CASE PostWallet
    BY <1>7 DEF PostWallet
  <1>8. CASE WalletAnswers
    BY <1>8, <1>0, Taken DEF WalletAnswers
  <1>9. CASE TheirWalletAnswers
    BY <1>9, TheirRow, <1>0, Taken DEF TheirWalletAnswers
  <1>10. CASE GoToKyc
    BY <1>10 DEF GoToKyc, Open
  <1>11. ASSUME NEW f \in Forms, HandleSubmit(f) PROVE WalletOfStatus'
    BY <1>11 DEF HandleSubmit
  <1>12. CASE SubmitToMirsad
    BY <1>12, SubmitToMirsadDoes DEF SubmitToMirsad
  <1>13. CASE KycAnswers
    BY <1>13 DEF KycAnswers
  <1>14. CASE Callback
    BY <1>14 DEF Callback
  <1>15. CASE DoneElsewhere
    BY <1>15 DEF DoneElsewhere
  <1>16. CASE Poll
    BY <1>16 DEF Poll
  <1>17. CASE PollAnew
    BY <1>17 DEF PollAnew
  <1>18. CASE SkipVerification
    BY <1>18 DEF SkipVerification
  <1>19. CASE FetchProfile
    BY <1>19 DEF FetchProfile
  <1>20. CASE ProfileAnswers
    BY <1>20, Fetched DEF ProfileAnswers, NoProfile
  <1>21. CASE HandleContinue
    BY <1>21 DEF HandleContinue, Open
  <1>22. CASE Reload
    BY <1>22 DEF Reload, NoProfile
  <1> QED
    BY <1>1, <1>2, <1>3, <1>4, <1>5, <1>6, <1>7, <1>8, <1>9, <1>10, <1>11, <1>12, <1>13, <1>14,
        <1>15, <1>16, <1>17, <1>18, <1>19, <1>20, <1>21, <1>22
    DEF WizardNext

\* Nobody is ahead of his row but by what is marked.
LEMMA AheadStep == ASSUME WizardIInv, [WizardNext]_wizardVars PROVE StoreIsNotAhead'
  <1>0. screen \in Screens /\ WizardTypeOK
    BY DEF WizardIInv, WizardInv, WizardTypeOK, Screens
  <1> USE DEF WizardIInv, WizardInv, WizardTypeOK, StoreIsNotAhead, CallsInv, CallsRest, row, stored, calls, marks
  <1>1. CASE UNCHANGED wizardVars
    BY <1>1 DEF wizardVars
  <1>2. ASSUME NEW page \in Pages, Open(page) PROVE StoreIsNotAhead'
    BY <1>2 DEF Open
  <1>3. ASSUME NEW whose \in {"code", "their code"}, HandleRegister(whose) PROVE StoreIsNotAhead'
    BY <1>3 DEF HandleRegister
  <1>4. CASE HandleOtpSuccess
    BY <1>4, OtherRow DEF HandleOtpSuccess, SameUser, InUse
  <1>5. CASE Logout
    BY <1>5 DEF Logout, NoUser
  <1>6. CASE CreateWallet
    BY <1>6 DEF CreateWallet
  <1>7. CASE PostWallet
    BY <1>7 DEF PostWallet
  <1>8. CASE WalletAnswers
    BY <1>8, <1>0, Taken DEF WalletAnswers
  <1>9. CASE TheirWalletAnswers
    BY <1>9, TheirRow, <1>0, Taken DEF TheirWalletAnswers
  <1>10. CASE GoToKyc
    BY <1>10 DEF GoToKyc, Open
  <1>11. ASSUME NEW f \in Forms, HandleSubmit(f) PROVE StoreIsNotAhead'
    BY <1>11 DEF HandleSubmit
  <1>12. CASE SubmitToMirsad
    BY <1>12, SubmitToMirsadDoes DEF SubmitToMirsad
  <1>13. CASE KycAnswers
    BY <1>13 DEF KycAnswers
  <1>14. CASE Callback
    BY <1>14 DEF Callback
  <1>15. CASE DoneElsewhere
    BY <1>15 DEF DoneElsewhere
  <1>16. CASE Poll
    BY <1>16 DEF Poll
  <1>17. CASE PollAnew
    BY <1>17 DEF PollAnew
  <1>18. CASE SkipVerification
    BY <1>18 DEF SkipVerification
  <1>19. CASE FetchProfile
    BY <1>19 DEF FetchProfile
  <1>20. CASE ProfileAnswers
    BY <1>20, Fetched DEF ProfileAnswers, NoProfile
  <1>21. CASE HandleContinue
    BY <1>21 DEF HandleContinue, Open
  <1>22. CASE Reload
    BY <1>22 DEF Reload, NoProfile
  <1> QED
    BY <1>1, <1>2, <1>3, <1>4, <1>5, <1>6, <1>7, <1>8, <1>9, <1>10, <1>11, <1>12, <1>13, <1>14,
        <1>15, <1>16, <1>17, <1>18, <1>19, <1>20, <1>21, <1>22
    DEF WizardNext

LEMMA BehindStep == ASSUME WizardIInv, [WizardNext]_wizardVars PROVE StoreIsNotBehind' /\ CodeInv'
  <1> DEFINE Behind == StoreIsNotBehind' /\ CodeInv'
  <1>0. WizardTypeOK /\ screen \in Screens /\ Pages \subseteq Screens /\ {"kyc", "feed"} \subseteq Screens
    BY DEF WizardIInv, WizardInv, WizardTypeOK, Screens, Pages
  <1> USE DEF WizardIInv, WizardInv, WizardTypeOK, StoreIsNotBehind, WalletOfStatus, CallsInv, CallsRest, CodeInv,
              row, stored, calls, marks
  <1>1. CASE UNCHANGED wizardVars
    BY <1>1 DEF wizardVars
  <1>2. ASSUME NEW page \in Pages, Open(page) PROVE Behind
    BY <1>2, <1>0, ArriveOn DEF Open
  <1>3. ASSUME NEW whose \in {"code", "their code"}, HandleRegister(whose) PROVE Behind
    BY <1>3 DEF HandleRegister
  <1>4. CASE HandleOtpSuccess
    <2>1. CASE SameUser /\ screen # "their code"
      BY <1>4, <2>1 DEF HandleOtpSuccess, SameUser
    <2>2. CASE OtherUser
      <3>1. wallet' = TRUE => lost' = TRUE
        BY <2>2, OtherRow
      <3>2. wallet' = TRUE \/ wallet' = FALSE
        BY <2>2, OtherRow
      <3> QED BY <3>1, <3>2
    <2> QED BY <1>4, <2>1, <2>2 DEF HandleOtpSuccess
  <1>5. CASE Logout
    BY <1>5, <1>0, LeftOut DEF Logout, NoUser
  <1>6. CASE CreateWallet
    BY <1>6 DEF CreateWallet
  <1>7. CASE PostWallet
    BY <1>7 DEF PostWallet
  <1>8. CASE WalletAnswers
    BY <1>8, <1>0, Taken DEF WalletAnswers
  <1>9. CASE TheirWalletAnswers
    <2>1. CASE TakeWallet
      BY <1>0, <2>1, Taken
    <2>2. CASE UNCHANGED <<step, signedIn, shownUser, screen, wallet, status, submitting>>
      BY <1>9, <2>2 DEF TheirWalletAnswers
    <2> QED BY <1>9, <2>1, <2>2, TheirRow
  <1>10. CASE GoToKyc
    BY <1>10, <1>0, ArriveOn DEF GoToKyc, Open
  <1>11. ASSUME NEW f \in Forms, HandleSubmit(f) PROVE Behind
    BY <1>11 DEF HandleSubmit
  <1>12. CASE SubmitToMirsad
    BY <1>12, SubmitToMirsadDoes DEF SubmitToMirsad
  <1>13. CASE KycAnswers
    BY <1>13 DEF KycAnswers
  <1>14. CASE Callback
    BY <1>14 DEF Callback
  <1>15. CASE DoneElsewhere
    BY <1>15 DEF DoneElsewhere
  <1>16. CASE Poll
    BY <1>16 DEF Poll
  <1>17. CASE PollAnew
    BY <1>17 DEF PollAnew
  <1>18. CASE SkipVerification
    BY <1>18 DEF SkipVerification
  <1>19. CASE FetchProfile
    BY <1>19 DEF FetchProfile
  <1>20. CASE ProfileAnswers
    BY <1>20, Fetched DEF ProfileAnswers, NoProfile
  <1>21. CASE HandleContinue
    BY <1>21, <1>0, ArriveOn DEF HandleContinue, Open
  <1>22. CASE Reload
    BY <1>22, <1>0, ArriveOn DEF Reload, NoProfile
  <1> QED
    BY <1>1, <1>2, <1>3, <1>4, <1>5, <1>6, <1>7, <1>8, <1>9, <1>10, <1>11, <1>12, <1>13, <1>14,
        <1>15, <1>16, <1>17, <1>18, <1>19, <1>20, <1>21, <1>22
    DEF WizardNext

LEMMA CallsStep == ASSUME WizardIInv, [WizardNext]_wizardVars PROVE ValidFormIsValid' /\ CallsRest'
  <1> DEFINE Calls == ValidFormIsValid' /\ CallsRest'
  <1>0. screen \in Screens /\ WizardTypeOK
    BY DEF WizardIInv, WizardInv, WizardTypeOK, Screens
  <1> USE DEF WizardIInv, WizardInv, WizardTypeOK, CallsRest, ValidFormIsValid, CallsInv, row, stored, calls, marks
  <1>1. CASE UNCHANGED wizardVars
    BY <1>1 DEF wizardVars
  <1>2. ASSUME NEW page \in Pages, Open(page) PROVE Calls
    BY <1>2 DEF Open
  <1>3. ASSUME NEW whose \in {"code", "their code"}, HandleRegister(whose) PROVE Calls
    BY <1>3 DEF HandleRegister
  <1>4. CASE HandleOtpSuccess
    BY <1>4, OtherRow DEF HandleOtpSuccess, SameUser, InUse
  <1>5. CASE Logout
    BY <1>5 DEF Logout, NoUser
  <1>6. CASE CreateWallet
    BY <1>6 DEF CreateWallet
  <1>7. CASE PostWallet
    BY <1>7 DEF PostWallet
  <1>8. CASE WalletAnswers
    BY <1>8, <1>0, Taken DEF WalletAnswers
  <1>9. CASE TheirWalletAnswers
    BY <1>9, TheirRow, <1>0, Taken DEF TheirWalletAnswers
  <1>10. CASE GoToKyc
    BY <1>10 DEF GoToKyc, Open
  <1>11. ASSUME NEW f \in Forms, HandleSubmit(f) PROVE Calls
    BY <1>11 DEF HandleSubmit
  <1>12. CASE SubmitToMirsad
    BY <1>12, SubmitToMirsadDoes, PageFormIsValid DEF SubmitToMirsad
  <1>13. CASE KycAnswers
    BY <1>13 DEF KycAnswers
  <1>14. CASE Callback
    BY <1>14 DEF Callback
  <1>15. CASE DoneElsewhere
    BY <1>15 DEF DoneElsewhere
  <1>16. CASE Poll
    BY <1>16 DEF Poll
  <1>17. CASE PollAnew
    BY <1>17 DEF PollAnew
  <1>18. CASE SkipVerification
    BY <1>18 DEF SkipVerification
  <1>19. CASE FetchProfile
    BY <1>19 DEF FetchProfile
  <1>20. CASE ProfileAnswers
    BY <1>20, Fetched DEF ProfileAnswers, NoProfile
  <1>21. CASE HandleContinue
    BY <1>21 DEF HandleContinue, Open
  <1>22. CASE Reload
    BY <1>22 DEF Reload, NoProfile
  <1> QED
    BY <1>1, <1>2, <1>3, <1>4, <1>5, <1>6, <1>7, <1>8, <1>9, <1>10, <1>11, <1>12, <1>13, <1>14,
        <1>15, <1>16, <1>17, <1>18, <1>19, <1>20, <1>21, <1>22
    DEF WizardNext

LEMMA WizardKeeps == WizardIInv /\ [WizardNext]_wizardVars => WizardIInv'
  <1> SUFFICES ASSUME WizardIInv, [WizardNext]_wizardVars PROVE WizardIInv'
    OBVIOUS
  <1>1. WizardTypeOK
    BY DEF WizardIInv, WizardInv
  <1> QED BY <1>1, WizardTypeStep, WalletStep, AheadStep, BehindStep, CallsStep
      DEF WizardIInv, WizardInv, CallsInv, CodeInv

\* From the registration to the feed the store of the browser, which survives a reload, is not
\* ahead of the user's row, but for who skipped the verification or was taken for active on the
\* strength of a profile, and as long as nobody else signed in over it; it is behind only where
\* the wallet was made elsewhere or its answer lost; and Mirsad's client refuses no form that
\* the page lets through (OnboardingWizard).
THEOREM WizardInvHolds == WizardSpec => []WizardInv
  <1>1. WizardIInv => WizardInv
    BY DEF WizardIInv
  <1> QED BY <1>1, WizardStarts, WizardKeeps, PTL DEF WizardSpec

--------------------------------------------------------------------------------
(* The sockets *)

LEMMA OfSockets == /\ \A s \in Sockets : Who(s) \in Members /\ \E w \in Windows : s = <<Who(s), w>>
                   /\ \A a \in Members, w \in Windows : <<a, w>> \in Sockets /\ Who(<<a, w>>) = a
                   /\ Offline \notin Sockets
  BY OfflineAssumption DEF Sockets, Who

LEMMA UnderOf == \A a : Under(a) = {e \in Events : Of(e, a)}
  BY DEF Under, Of

LEMMA ChatSteps == ASSUME ChatNext
                   PROVE
       \/ \E s \in Sockets : Connect(s) \/ Disconnect(s) \/ GetEntry(s)
       \/ \E s \in Sockets : DeleteEntry(s) \/ TellOffline(s) \/ CloseFails(s)
       \/ \E e \in Events, s \in Sockets, kind \in Kinds_, n \in 0 .. MaxSeq :
              (kind = "read" <=> n # 0) /\ SendEvent(e, s, kind, n)
       \/ \E e \in Events : CheckMember(e) \/ EnterOrLeave(e) \/ StoreEntry(e) \/ TellOnline(e)
       \/ \E e \in Events : RemovePresence(e) \/ ClearTyping(e) \/ TellLeft(e) \/ EventFails(e)
       \/ RestartGateway \/ TypingExpires \/ \E a \in Members : LoseMember(a)
  BY MaxSeqAssumption DEF ChatNext, Kinds_

LEMMA ChatStarts == ChatInit => ChatIInv
  <1> SUFFICES ASSUME ChatInit PROVE ChatIInv
    OBVIOUS
  <1>1. ChatTypeOK
    BY OfSockets, MaxSeqAssumption DEF ChatInit, ChatTypeOK, NoEvent, Kinds_
  <1>2. StageInv /\ RoomInv /\ DeleteInv /\ ReceiptInv
    BY OfSockets DEF ChatInit, StageInv, RoomInv, DeleteInv, ReceiptInv, Of, SocketsOf, Stages
  <1>3. \A a : SocketsOf(a) \subseteq Sockets /\ \A e \in Events : ~Of(e, a)
    BY DEF ChatInit, SocketsOf, Of, Stages
  <1>4. AloneInv
    BY <1>3 DEF ChatInit, AloneInv
  <1>5. \A a \in Members : Agree(a)
    BY <1>3, OfSockets DEF ChatInit, Agree
  <1>6. PhaseInv
    BY <1>3, <1>5 DEF ChatInit, PhaseInv, Phase, Cleaned
  <1> QED BY <1>1, <1>2, <1>4, <1>6 DEF ChatIInv

\* An event comes to its next stage, or ends; the others stay where they are.
LEMMA OnStageOf ==
    ASSUME ChatTypeOK, NEW e \in Events, NEW x \in Stages \cup {"done"}, OnStage(e, x)
    PROVE  /\ event' \in [Events -> [kind : Kinds_, from : Sockets \cup {Offline}, seq : 0 .. MaxSeq]]
           /\ stage' \in [Events -> Stages \cup {"none", "done"}]
           /\ stage'[e] = x /\ (x # "done" => event'[e] = event[e])
           /\ \A f \in Events \ {e} : stage'[f] = stage[f] /\ event'[f] = event[f]
  <1>1. NoEvent \in [kind : Kinds_, from : Sockets \cup {Offline}, seq : 0 .. MaxSeq]
    BY MaxSeqAssumption DEF NoEvent, Kinds_
  <1> QED BY <1>1 DEF ChatTypeOK, OnStage

LEMMA OfOnStage ==
    ASSUME ChatTypeOK, NEW e \in Events, NEW x \in Stages \cup {"done"}, OnStage(e, x), NEW a
    PROVE  /\ \A f \in Events \ {e} : Of(f, a)' <=> Of(f, a)
           /\ Of(e, a)' <=> x # "done" /\ Who(event[e].from) = a
  BY OnStageOf DEF Of, Stages

LEMMA SendEventOf ==
    ASSUME ChatTypeOK, NEW e \in Events, NEW s \in Sockets, NEW kind \in Kinds_, NEW n \in 0 .. MaxSeq,
           SendEvent(e, s, kind, n), NEW a
    PROVE  /\ \A f \in Events \ {e} : stage'[f] = stage[f] /\ event'[f] = event[f] /\ (Of(f, a)' <=> Of(f, a))
           /\ stage[e] = "none" /\ ~Of(e, a) /\ (Of(e, a)' <=> Who(s) = a)
           /\ event'[e] = [kind |-> kind, from |-> s, seq |-> n] /\ stage'[e] \in {"check", "enter", "store"}
           /\ stage'[e] = "check" => kind = "join"
           /\ stage'[e] = "enter" => kind = "leave"
           /\ stage'[e] = "store" => kind \notin {"join", "leave"}
  BY DEF SendEvent, ChatTypeOK, FirstStage, Of, Stages, Kinds_

LEMMA ChatTypeStep == ASSUME ChatIInv, [ChatNext]_pvars PROVE ChatTypeOK'
  <1> USE OfSockets, MaxSeqAssumption DEF ChatTypeOK, Stages, Kinds_, NoEvent, ChatIInv, OnStage,
      Net, Memory, Keys, Notes
  <1>1. CASE UNCHANGED pvars
    BY <1>1 DEF pvars
  <1>2. ASSUME NEW s \in Sockets, Connect(s) PROVE ChatTypeOK'
    BY <1>2 DEF Connect
  <1>3. ASSUME NEW s \in Sockets, Disconnect(s) PROVE ChatTypeOK'
    BY <1>3 DEF Disconnect
  <1>4. ASSUME NEW s \in Sockets, GetEntry(s) PROVE ChatTypeOK'
    BY <1>4 DEF GetEntry
  <1>5. ASSUME NEW s \in Sockets, DeleteEntry(s) PROVE ChatTypeOK'
    BY <1>5 DEF DeleteEntry
  <1>6. ASSUME NEW s \in Sockets, TellOffline(s) PROVE ChatTypeOK'
    BY <1>6 DEF TellOffline
  <1>7. ASSUME NEW s \in Sockets, CloseFails(s) PROVE ChatTypeOK'
    BY <1>7 DEF CloseFails
  <1>8. ASSUME NEW e \in Events, NEW s \in Sockets, NEW kind \in Kinds_, NEW n \in 0 .. MaxSeq,
               kind = "read" <=> n # 0, SendEvent(e, s, kind, n) PROVE ChatTypeOK'
    BY <1>8 DEF SendEvent, FirstStage
  <1>9. ASSUME NEW e \in Events, CheckMember(e) PROVE ChatTypeOK'
    BY <1>9 DEF CheckMember
  <1>10. ASSUME NEW e \in Events, EnterOrLeave(e) PROVE ChatTypeOK'
    BY <1>10 DEF EnterOrLeave
  <1>11. ASSUME NEW e \in Events, StoreEntry(e) PROVE ChatTypeOK'
    <2>1. event[e].from \in Sockets /\ Who(event[e].from) \in Members /\ event[e].seq \in 0 .. MaxSeq
      BY <1>11 DEF StoreEntry, StageInv
    <2>2. OnStage(e, "done") \/ OnStage(e, "tell")
      BY <1>11 DEF StoreEntry
    <2>3. /\ event' \in [Events -> [kind : Kinds_, from : Sockets \cup {Offline}, seq : 0 .. MaxSeq]]
          /\ stage' \in [Events -> Stages \cup {"none", "done"}]
      <3> HIDE DEF ChatTypeOK, OnStage
      <3> QED BY <2>2, OnStageOf DEF ChatIInv
    <2>4. presence' \in [Members -> Sockets \cup {Offline}]
      BY <1>11, <2>1 DEF StoreEntry
    <2>5. typing' \subseteq Members
      BY <1>11, <2>1 DEF StoreEntry
    <2>6. receipt' \in [Members -> 0 .. MaxSeq]
      BY <1>11, <2>1 DEF StoreEntry
    <2>7. overtaken' \subseteq Members
      BY <1>11, <2>1 DEF StoreEntry
    <2> HIDE DEF OnStage
    <2> QED BY <1>11, <2>3, <2>4, <2>5, <2>6, <2>7 DEF StoreEntry
  <1>12. ASSUME NEW e \in Events, TellOnline(e) PROVE ChatTypeOK'
    <2>1. Who(event[e].from) \in Members
      BY <1>12 DEF TellOnline, StageInv
    <2>2. OnStage(e, "done") \/ OnStage(e, "tell")
      BY <1>12 DEF TellOnline
    <2>3. /\ event' \in [Events -> [kind : Kinds_, from : Sockets \cup {Offline}, seq : 0 .. MaxSeq]]
          /\ stage' \in [Events -> Stages \cup {"none", "done"}]
      <3> HIDE DEF ChatTypeOK, OnStage
      <3> QED BY <2>2, OnStageOf DEF ChatIInv
    <2> QED BY <1>12, <2>1, <2>3 DEF TellOnline
  <1>13. ASSUME NEW e \in Events, RemovePresence(e) PROVE ChatTypeOK'
    BY <1>13 DEF RemovePresence
  <1>14. ASSUME NEW e \in Events, ClearTyping(e) PROVE ChatTypeOK'
    BY <1>14 DEF ClearTyping
  <1>15. ASSUME NEW e \in Events, TellLeft(e) PROVE ChatTypeOK'
    <2>1. Who(event[e].from) \in Members
      BY <1>15 DEF TellLeft, StageInv
    <2>2. OnStage(e, "done") \/ OnStage(e, "tell")
      BY <1>15 DEF TellLeft
    <2>3. /\ event' \in [Events -> [kind : Kinds_, from : Sockets \cup {Offline}, seq : 0 .. MaxSeq]]
          /\ stage' \in [Events -> Stages \cup {"none", "done"}]
      <3> HIDE DEF ChatTypeOK, OnStage
      <3> QED BY <2>2, OnStageOf DEF ChatIInv
    <2> QED BY <1>15, <2>1, <2>3 DEF TellLeft
  <1>16. ASSUME NEW e \in Events, EventFails(e) PROVE ChatTypeOK'
    <2>1. Who(event[e].from) \in Members
      BY <1>16 DEF EventFails, StageInv
    <2>2. OnStage(e, "done") \/ OnStage(e, "tell")
      BY <1>16 DEF EventFails
    <2>3. /\ event' \in [Events -> [kind : Kinds_, from : Sockets \cup {Offline}, seq : 0 .. MaxSeq]]
          /\ stage' \in [Events -> Stages \cup {"none", "done"}]
      <3> HIDE DEF ChatTypeOK, OnStage
      <3> QED BY <2>2, OnStageOf DEF ChatIInv
    <2> QED BY <1>16, <2>1, <2>3 DEF EventFails
  <1>17. CASE RestartGateway
    BY <1>17 DEF RestartGateway
  <1>18. CASE TypingExpires
    BY <1>18 DEF TypingExpires
  <1>19. ASSUME NEW a \in Members, LoseMember(a) PROVE ChatTypeOK'
    BY <1>19 DEF LoseMember
  <1> HIDE DEF ChatTypeOK, ChatIInv, Stages, Kinds_, NoEvent, OnStage, Net, Memory, Keys, Notes
  <1> QED BY ChatSteps, <1>1, <1>2, <1>3, <1>4, <1>5, <1>6, <1>7, <1>8, <1>9, <1>10, <1>11,
             <1>12, <1>13, <1>14, <1>15, <1>16, <1>17, <1>18, <1>19

LEMMA StageStep == ASSUME ChatIInv, [ChatNext]_pvars PROVE StageInv'
  <1> USE OfSockets DEF ChatTypeOK, StageInv, Stages, Kinds_, NoEvent, ChatIInv, OnStage, Net,
      Memory, Keys, Notes
  <1>1. CASE UNCHANGED pvars
    BY <1>1 DEF pvars
  <1>2. ASSUME NEW s \in Sockets, Connect(s) PROVE StageInv'
    BY <1>2 DEF Connect
  <1>3. ASSUME NEW s \in Sockets, Disconnect(s) PROVE StageInv'
    BY <1>3 DEF Disconnect
  <1>4. ASSUME NEW s \in Sockets, GetEntry(s) PROVE StageInv'
    BY <1>4 DEF GetEntry
  <1>5. ASSUME NEW s \in Sockets, DeleteEntry(s) PROVE StageInv'
    BY <1>5 DEF DeleteEntry
  <1>6. ASSUME NEW s \in Sockets, TellOffline(s) PROVE StageInv'
    BY <1>6 DEF TellOffline
  <1>7. ASSUME NEW s \in Sockets, CloseFails(s) PROVE StageInv'
    BY <1>7 DEF CloseFails
  <1>8. ASSUME NEW e \in Events, NEW s \in Sockets, NEW kind \in Kinds_, NEW n \in 0 .. MaxSeq,
               kind = "read" <=> n # 0, SendEvent(e, s, kind, n) PROVE StageInv'
    BY <1>8 DEF SendEvent, FirstStage
  <1>9. ASSUME NEW e \in Events, CheckMember(e) PROVE StageInv'
    BY <1>9 DEF CheckMember
  <1>10. ASSUME NEW e \in Events, EnterOrLeave(e) PROVE StageInv'
    BY <1>10 DEF EnterOrLeave
  <1>11. ASSUME NEW e \in Events, StoreEntry(e) PROVE StageInv'
    BY <1>11 DEF StoreEntry
  <1>12. ASSUME NEW e \in Events, TellOnline(e) PROVE StageInv'
    BY <1>12 DEF TellOnline
  <1>13. ASSUME NEW e \in Events, RemovePresence(e) PROVE StageInv'
    BY <1>13 DEF RemovePresence
  <1>14. ASSUME NEW e \in Events, ClearTyping(e) PROVE StageInv'
    BY <1>14 DEF ClearTyping
  <1>15. ASSUME NEW e \in Events, TellLeft(e) PROVE StageInv'
    BY <1>15 DEF TellLeft
  <1>16. ASSUME NEW e \in Events, EventFails(e) PROVE StageInv'
    BY <1>16 DEF EventFails
  <1>17. CASE RestartGateway
    BY <1>17 DEF RestartGateway
  <1>18. CASE TypingExpires
    BY <1>18 DEF TypingExpires
  <1>19. ASSUME NEW a \in Members, LoseMember(a) PROVE StageInv'
    BY <1>19 DEF LoseMember
  <1> HIDE DEF ChatTypeOK, StageInv, ChatIInv, Stages, Kinds_, NoEvent, OnStage, Net, Memory, Keys, Notes
  <1>20. ASSUME NEW s \in Sockets, \/ Connect(s) \/ Disconnect(s) \/ GetEntry(s)
                                  \/ DeleteEntry(s) \/ TellOffline(s) \/ CloseFails(s)
         PROVE  StageInv'
    BY <1>2, <1>3, <1>4, <1>5, <1>6, <1>7, <1>20
  <1>21. ASSUME NEW e \in Events, \/ CheckMember(e) \/ EnterOrLeave(e) \/ StoreEntry(e) \/ TellOnline(e)
                                 \/ RemovePresence(e) \/ ClearTyping(e) \/ TellLeft(e) \/ EventFails(e)
         PROVE  StageInv'
    BY <1>9, <1>10, <1>11, <1>12, <1>13, <1>14, <1>15, <1>16, <1>21
  <1> QED BY ChatSteps, <1>1, <1>8, <1>17, <1>18, <1>19, <1>20, <1>21

LEMMA RoomStep == ASSUME ChatIInv, [ChatNext]_pvars PROVE RoomInv'
  <1> USE OfSockets DEF ChatTypeOK, StageInv, RoomInv, Stages, ChatIInv, OnStage, Net, Memory, Keys, Notes
  <1>1. CASE UNCHANGED pvars
    BY <1>1 DEF pvars
  <1>2. ASSUME NEW s \in Sockets, Connect(s) PROVE RoomInv'
    BY <1>2 DEF Connect
  <1>3. ASSUME NEW s \in Sockets, Disconnect(s) PROVE RoomInv'
    BY <1>3 DEF Disconnect
  <1>4. ASSUME NEW s \in Sockets, GetEntry(s) PROVE RoomInv'
    BY <1>4 DEF GetEntry
  <1>5. ASSUME NEW s \in Sockets, DeleteEntry(s) PROVE RoomInv'
    BY <1>5 DEF DeleteEntry
  <1>6. ASSUME NEW s \in Sockets, TellOffline(s) PROVE RoomInv'
    BY <1>6 DEF TellOffline
  <1>7. ASSUME NEW s \in Sockets, CloseFails(s) PROVE RoomInv'
    BY <1>7 DEF CloseFails
  <1>8. ASSUME NEW e \in Events, NEW s \in Sockets, NEW kind \in Kinds_, NEW n \in 0 .. MaxSeq,
               kind = "read" <=> n # 0, SendEvent(e, s, kind, n) PROVE RoomInv'
    BY <1>8 DEF SendEvent, FirstStage
  <1>9. ASSUME NEW e \in Events, CheckMember(e) PROVE RoomInv'
    BY <1>9 DEF CheckMember
  <1>10. ASSUME NEW e \in Events, EnterOrLeave(e) PROVE RoomInv'
    BY <1>10 DEF EnterOrLeave
  <1>11. ASSUME NEW e \in Events, StoreEntry(e) PROVE RoomInv'
    BY <1>11 DEF StoreEntry
  <1>12. ASSUME NEW e \in Events, TellOnline(e) PROVE RoomInv'
    BY <1>12 DEF TellOnline
  <1>13. ASSUME NEW e \in Events, RemovePresence(e) PROVE RoomInv'
    BY <1>13 DEF RemovePresence
  <1>14. ASSUME NEW e \in Events, ClearTyping(e) PROVE RoomInv'
    BY <1>14 DEF ClearTyping
  <1>15. ASSUME NEW e \in Events, TellLeft(e) PROVE RoomInv'
    BY <1>15 DEF TellLeft
  <1>16. ASSUME NEW e \in Events, EventFails(e) PROVE RoomInv'
    BY <1>16 DEF EventFails
  <1>17. CASE RestartGateway
    BY <1>17 DEF RestartGateway
  <1>18. CASE TypingExpires
    BY <1>18 DEF TypingExpires
  <1>19. ASSUME NEW a \in Members, LoseMember(a) PROVE RoomInv'
    BY <1>19 DEF LoseMember
  <1> QED BY ChatSteps, <1>1, <1>2, <1>3, <1>4, <1>5, <1>6, <1>7, <1>8, <1>9, <1>10, <1>11,
             <1>12, <1>13, <1>14, <1>15, <1>16, <1>17, <1>18, <1>19

LEMMA DeleteStep == ASSUME ChatIInv, [ChatNext]_pvars PROVE DeleteInv'
  <1> USE OfSockets DEF ChatTypeOK, StageInv, RoomInv, DeleteInv, Stages, ChatIInv, OnStage, Net,
      Memory, Keys, Notes
  <1>1. CASE UNCHANGED pvars
    BY <1>1 DEF pvars
  <1>2. ASSUME NEW s \in Sockets, Connect(s) PROVE DeleteInv'
    BY <1>2 DEF Connect
  <1>3. ASSUME NEW s \in Sockets, Disconnect(s) PROVE DeleteInv'
    BY <1>3 DEF Disconnect
  <1>4. ASSUME NEW s \in Sockets, GetEntry(s) PROVE DeleteInv'
    BY <1>4 DEF GetEntry
  <1>5. ASSUME NEW s \in Sockets, DeleteEntry(s) PROVE DeleteInv'
    BY <1>5 DEF DeleteEntry
  <1>6. ASSUME NEW s \in Sockets, TellOffline(s) PROVE DeleteInv'
    BY <1>6 DEF TellOffline
  <1>7. ASSUME NEW s \in Sockets, CloseFails(s) PROVE DeleteInv'
    BY <1>7 DEF CloseFails
  <1>8. ASSUME NEW e \in Events, NEW s \in Sockets, NEW kind \in Kinds_, NEW n \in 0 .. MaxSeq,
               kind = "read" <=> n # 0, SendEvent(e, s, kind, n) PROVE DeleteInv'
    BY <1>8 DEF SendEvent, FirstStage
  <1>9. ASSUME NEW e \in Events, CheckMember(e) PROVE DeleteInv'
    BY <1>9 DEF CheckMember
  <1>10. ASSUME NEW e \in Events, EnterOrLeave(e) PROVE DeleteInv'
    BY <1>10 DEF EnterOrLeave
  <1>11. ASSUME NEW e \in Events, StoreEntry(e) PROVE DeleteInv'
    <2> SUFFICES ASSUME NEW s \in Sockets, closing[s] = "del", Who(s) \notin overtaken'
                 PROVE presence'[Who(s)] \in {s, Offline}
      BY <1>11 DEF StoreEntry
    <2>1. PICK w \in Windows : s = <<Who(s), w>>
      BY OfSockets
    <2>2. CASE event[e].kind = "join" /\ Who(event[e].from) = Who(s)
      <3>1. closing[<<Who(event[e].from), w>>] = "del"
        BY <2>1, <2>2
      <3>2. Who(s) \in overtaken'
        BY <1>11, <2>2, <3>1 DEF StoreEntry
      <3> QED BY <3>2
    <2>3. CASE ~(event[e].kind = "join" /\ Who(event[e].from) = Who(s))
      BY <1>11, <2>3 DEF StoreEntry
    <2> QED BY <2>2, <2>3
  <1>12. ASSUME NEW e \in Events, TellOnline(e) PROVE DeleteInv'
    BY <1>12 DEF TellOnline
  <1>13. ASSUME NEW e \in Events, RemovePresence(e) PROVE DeleteInv'
    BY <1>13 DEF RemovePresence
  <1>14. ASSUME NEW e \in Events, ClearTyping(e) PROVE DeleteInv'
    BY <1>14 DEF ClearTyping
  <1>15. ASSUME NEW e \in Events, TellLeft(e) PROVE DeleteInv'
    BY <1>15 DEF TellLeft
  <1>16. ASSUME NEW e \in Events, EventFails(e) PROVE DeleteInv'
    BY <1>16 DEF EventFails
  <1>17. CASE RestartGateway
    BY <1>17 DEF RestartGateway
  <1>18. CASE TypingExpires
    BY <1>18 DEF TypingExpires
  <1>19. ASSUME NEW a \in Members, LoseMember(a) PROVE DeleteInv'
    BY <1>19 DEF LoseMember
  <1> QED BY ChatSteps, <1>1, <1>2, <1>3, <1>4, <1>5, <1>6, <1>7, <1>8, <1>9, <1>10, <1>11,
             <1>12, <1>13, <1>14, <1>15, <1>16, <1>17, <1>18, <1>19

LEMMA AloneStep == ASSUME ChatIInv, [ChatNext]_pvars PROVE AloneInv'
  <1> USE OfSockets, UnderOf DEF ChatTypeOK, StageInv, RoomInv, AloneInv, Stages, Of, SocketsOf,
      ChatIInv, OnStage, Net, Memory, Keys, Notes
  <1>1. CASE UNCHANGED pvars
    BY <1>1 DEF pvars
  <1>2. ASSUME NEW s \in Sockets, Connect(s) PROVE AloneInv'
    BY <1>2 DEF Connect
  <1>3. ASSUME NEW s \in Sockets, Disconnect(s) PROVE AloneInv'
    <2> SUFFICES ASSUME NEW a \in Members \ muddled' PROVE
          /\ \A r, t \in SocketsOf(a) : r \in online' /\ t \in online' => r = t
          /\ \A e, f \in Events : Of(e, a) /\ Of(f, a) => e = f
          /\ \A e \in Events : Of(e, a) => event[e].from \in online' /\ \A t \in SocketsOf(a) : closing'[t] = "no"
          /\ \A r, t \in SocketsOf(a) : closing'[r] # "no" => t \notin room' /\ (closing'[t] # "no" => r = t)
      BY <1>3 DEF Disconnect
    <2>1. a \in Members \ muddled /\ (Who(s) = a => \A e \in Events : ~Of(e, a))
      BY <1>3 DEF Disconnect
    <2>2. CASE Who(s) # a
      BY <1>3, <2>1, <2>2 DEF Disconnect
    <2>3. CASE Who(s) = a /\ s \notin tracked
      BY <1>3, <2>1, <2>3 DEF Disconnect
    <2>4. CASE Who(s) = a /\ s \in tracked
      <3>1. s \in room /\ \A t \in SocketsOf(a) : closing[t] = "no" /\ (t \in room => t = s)
        BY <1>3, <2>1, <2>4 DEF Disconnect
      <3> QED BY <1>3, <2>1, <2>4, <3>1 DEF Disconnect
    <2> QED BY <2>2, <2>3, <2>4
  <1>4. ASSUME NEW s \in Sockets, GetEntry(s) PROVE AloneInv'
    BY <1>4 DEF GetEntry
  <1>5. ASSUME NEW s \in Sockets, DeleteEntry(s) PROVE AloneInv'
    BY <1>5 DEF DeleteEntry
  <1>6. ASSUME NEW s \in Sockets, TellOffline(s) PROVE AloneInv'
    BY <1>6 DEF TellOffline
  <1>7. ASSUME NEW s \in Sockets, CloseFails(s) PROVE AloneInv'
    BY <1>7 DEF CloseFails
  <1>8. ASSUME NEW e \in Events, NEW s \in Sockets, NEW kind \in Kinds_, NEW n \in 0 .. MaxSeq,
               kind = "read" <=> n # 0, SendEvent(e, s, kind, n) PROVE AloneInv'
    <2> SUFFICES ASSUME NEW a \in Members \ muddled' PROVE
          /\ \A f, g \in Events : Of(f, a)' /\ Of(g, a)' => f = g
          /\ \A f \in Events : Of(f, a)' => event'[f].from \in online /\ \A t \in SocketsOf(a) : closing[t] = "no"
      BY <1>8 DEF SendEvent
    <2>1. a \in Members \ muddled
      BY <1>8 DEF SendEvent
    <2>2. Who(s) = a => (\A f \in Events : ~Of(f, a)) /\ \A t \in SocketsOf(a) : closing[t] = "no"
      <3> HIDE DEF ChatIInv, ChatTypeOK, StageInv, RoomInv, AloneInv
      <3> QED BY <1>8 DEF SendEvent
    <2>3. s \in online
      BY <1>8 DEF SendEvent
    <2>4. /\ \A f \in Events \ {e} : stage'[f] = stage[f] /\ event'[f] = event[f] /\ (Of(f, a)' <=> Of(f, a))
          /\ stage[e] = "none" /\ ~Of(e, a) /\ (Of(e, a)' <=> Who(s) = a)
          /\ event'[e] = [kind |-> kind, from |-> s, seq |-> n] /\ stage'[e] \in {"check", "enter", "store"}
          /\ stage'[e] = "check" => kind = "join"
          /\ stage'[e] = "enter" => kind = "leave"
          /\ stage'[e] = "store" => kind \notin {"join", "leave"}
      <3> HIDE DEF ChatTypeOK, Of
      <3> QED BY <1>8, SendEventOf
    <2>5. \A f, g \in Events : Of(f, a) /\ Of(g, a) => f = g
      BY <2>1
    <2>6. \A f \in Events : Of(f, a) => event[f].from \in online /\ \A t \in SocketsOf(a) : closing[t] = "no"
      BY <2>1
    <2> HIDE DEF Of, SocketsOf, ChatTypeOK, StageInv, RoomInv, AloneInv, ChatIInv
    <2>7. \A f, g \in Events : Of(f, a)' /\ Of(g, a)' => f = g
      BY <2>2, <2>4, <2>5
    <2>8. ASSUME NEW f \in Events, Of(f, a)' PROVE event'[f].from \in online /\ \A t \in SocketsOf(a) : closing[t] = "no"
      BY <2>2, <2>3, <2>4, <2>6, <2>8
    <2> QED BY <2>7, <2>8
  <1>9. ASSUME NEW e \in Events, CheckMember(e) PROVE AloneInv'
    BY <1>9 DEF CheckMember
  <1>10. ASSUME NEW e \in Events, EnterOrLeave(e) PROVE AloneInv'
    BY <1>10 DEF EnterOrLeave
  <1>11. ASSUME NEW e \in Events, StoreEntry(e) PROVE AloneInv'
    BY <1>11 DEF StoreEntry
  <1>12. ASSUME NEW e \in Events, TellOnline(e) PROVE AloneInv'
    BY <1>12 DEF TellOnline
  <1>13. ASSUME NEW e \in Events, RemovePresence(e) PROVE AloneInv'
    BY <1>13 DEF RemovePresence
  <1>14. ASSUME NEW e \in Events, ClearTyping(e) PROVE AloneInv'
    BY <1>14 DEF ClearTyping
  <1>15. ASSUME NEW e \in Events, TellLeft(e) PROVE AloneInv'
    BY <1>15 DEF TellLeft
  <1>16. ASSUME NEW e \in Events, EventFails(e) PROVE AloneInv'
    BY <1>16 DEF EventFails
  <1>17. CASE RestartGateway
    BY <1>17 DEF RestartGateway
  <1>18. CASE TypingExpires
    BY <1>18 DEF TypingExpires
  <1>19. ASSUME NEW a \in Members, LoseMember(a) PROVE AloneInv'
    BY <1>19 DEF LoseMember
  <1> QED BY ChatSteps, <1>1, <1>2, <1>3, <1>4, <1>5, <1>6, <1>7, <1>8, <1>9, <1>10, <1>11,
             <1>12, <1>13, <1>14, <1>15, <1>16, <1>17, <1>18, <1>19

\* An event of one account does not change where another one is, and its own account is
\* where the event has come to.
LEMMA OtherEvent ==
    ASSUME ChatIInv, NEW e \in Events, NEW x \in Stages \cup {"done"}, OnStage(e, x), NEW a \in Members \ muddled,
           Who(event[e].from) # a, closing' = closing, presence'[a] = presence[a], told'[a] = told[a],
           a \in typing' => a \in typing, \A s \in SocketsOf(a) : s \in room' <=> s \in room
    PROVE  Phase(a)'
  <1>1. /\ \A f \in Events \ {e} : stage'[f] = stage[f] /\ event'[f] = event[f] /\ (Of(f, a)' <=> Of(f, a))
        /\ ~Of(e, a)' /\ ~Of(e, a)
    BY OnStageOf, OfOnStage DEF ChatIInv, Of
  <1>2. \A f \in Events : Of(f, a) => event[f].from \in SocketsOf(a)
    BY DEF ChatIInv, StageInv, Of, SocketsOf
  <1>3. Phase(a) /\ (Agree(a)' <=> Agree(a)) /\ (Outside(a)' <=> Outside(a))
    BY DEF ChatIInv, PhaseInv, Agree, Outside, SocketsOf
  <1>4. \A f \in Events : Of(f, a)' => At(f, a)'
    BY <1>1, <1>2, <1>3 DEF Phase, At
  <1>5. \A s \in SocketsOf(a) : Cleaned(s, a)' <=> Cleaned(s, a)
    BY DEF Cleaned
  <1> QED BY <1>1, <1>3, <1>4, <1>5 DEF Phase, SocketsOf

LEMMA OwnEvent ==
    ASSUME ChatIInv, NEW e \in Events, stage[e] \in Stages, NEW x \in Stages \cup {"done"}, OnStage(e, x),
           NEW a \in Members \ muddled, Who(event[e].from) = a, closing' = closing,
           x = "done" => Agree(a)', x # "done" => At(e, a)'
    PROVE  Phase(a)'
  <1>1. /\ \A f \in Events \ {e} : ~Of(f, a)'
        /\ Of(e, a)' <=> x # "done"
        /\ \A s \in SocketsOf(a) : closing'[s] = "no"
    BY OfOnStage DEF ChatIInv, AloneInv, Of
  <1> QED BY <1>1 DEF Phase, Cleaned, SocketsOf

LEMMA OtherSocket ==
    ASSUME ChatIInv, NEW a \in Members \ muddled, event' = event, stage' = stage, typing' = typing,
           presence'[a] = presence[a], told'[a] = told[a],
           \A s \in SocketsOf(a) : closing'[s] = closing[s] /\ (s \in room' <=> s \in room)
    PROVE  Phase(a)'
  <1>1. \A e \in Events : Of(e, a)' <=> Of(e, a)
    BY DEF Of
  <1>2. \A e \in Events : Of(e, a) => event[e].from \in SocketsOf(a)
    BY DEF ChatIInv, StageInv, Of, SocketsOf
  <1>3. Phase(a) /\ (Agree(a)' <=> Agree(a)) /\ (Outside(a)' <=> Outside(a)) /\ SocketsOf(a)' = SocketsOf(a)
    BY DEF ChatIInv, PhaseInv, Agree, Outside, SocketsOf
  <1>4. \A e \in Events : Of(e, a)' => At(e, a)'
    BY <1>1, <1>2, <1>3 DEF Phase, At
  <1>5. \A s \in SocketsOf(a) : Cleaned(s, a)' <=> Cleaned(s, a)
    BY DEF Cleaned
  <1>6. (\A e \in Events : ~Of(e, a)') /\ (\A s \in SocketsOf(a) : closing'[s] = "no") => Agree(a)'
    BY <1>1, <1>3 DEF Phase
  <1> QED BY <1>3, <1>4, <1>5, <1>6 DEF Phase

LEMMA EntryOf ==
    ASSUME NEW a, Phase(a), NEW s \in SocketsOf(a), closing[s] \in {"get", "del"}
    PROVE  presence[a] = s
  BY DEF Phase, Cleaned

LEMMA PhaseStep == ASSUME ChatIInv, [ChatNext]_pvars PROVE PhaseInv'
  <1> USE OfSockets, UnderOf DEF ChatTypeOK, StageInv, RoomInv, AloneInv, PhaseInv, Phase, At, Cleaned,
      Stages, Of, SocketsOf, Agree, Outside, ChatIInv, OnStage, Net, Memory, Keys, Notes
  <1>1. CASE UNCHANGED pvars
    BY <1>1 DEF pvars
  <1>2. ASSUME NEW s \in Sockets, Connect(s) PROVE PhaseInv'
    BY <1>2 DEF Connect
  <1>3. ASSUME NEW s \in Sockets, Disconnect(s) PROVE PhaseInv'
    <2> SUFFICES ASSUME NEW a \in Members \ muddled' PROVE Phase(a)'
      BY DEF PhaseInv
    <2>1. a \in Members \ muddled /\ (Who(s) = a => \A e \in Events : ~Of(e, a))
      <3> HIDE DEF ChatIInv, ChatTypeOK, StageInv, RoomInv, AloneInv, PhaseInv, Phase, At, Cleaned, Agree, Outside
      <3> QED BY <1>3 DEF Disconnect
    <2>2. event' = event /\ stage' = stage /\ presence' = presence /\ told' = told /\ typing' = typing
      BY <1>3 DEF Disconnect
    <2>3. Phase(a) /\ \A f \in Events : Of(f, a)' <=> Of(f, a)
      BY <2>1, <2>2
    <2>4. CASE Who(s) # a
      <3>1. \A t \in SocketsOf(a) : closing'[t] = closing[t] /\ (t \in room' <=> t \in room)
        BY <1>3, <2>4 DEF Disconnect
      <3> HIDE DEF ChatIInv, ChatTypeOK, StageInv, RoomInv, AloneInv, PhaseInv, Phase, At, Cleaned, Agree, Outside, Of, SocketsOf
      <3> QED BY <2>1, <2>2, <3>1, OtherSocket
    <2>5. CASE Who(s) = a /\ s \notin tracked
      <3>1. closing' = closing /\ room' = room
        BY <1>3, <2>5 DEF Disconnect
      <3> QED BY <2>1, <2>2, <2>3, <3>1
    <2>6. CASE Who(s) = a /\ s \in tracked
      <3>1. s \in room /\ \A t \in SocketsOf(a) : closing[t] = "no"
        BY <1>3, <2>1, <2>6 DEF Disconnect
      <3>2. presence[a] = s
        BY <2>1, <2>3, <2>6, <3>1
      <3>3. closing'[s] = "get" /\ \A t \in SocketsOf(a) : t # s => closing'[t] = "no"
        BY <1>3, <2>6, <3>1 DEF Disconnect
      <3> QED BY <2>1, <2>2, <2>3, <2>6, <3>2, <3>3
    <2> QED BY <2>4, <2>5, <2>6
  <1>4. ASSUME NEW s \in Sockets, GetEntry(s) PROVE PhaseInv'
    <2> SUFFICES ASSUME NEW a \in Members \ muddled' PROVE Phase(a)'
      BY DEF PhaseInv
    <2>1. a \in Members \ muddled /\ event' = event /\ stage' = stage /\ typing' = typing /\ room' = room
      BY <1>4 DEF GetEntry
    <2>2. CASE Who(s) # a
      <3>1. presence'[a] = presence[a] /\ told'[a] = told[a]
        BY <1>4, <2>2 DEF GetEntry
      <3>2. \A t \in SocketsOf(a) : closing'[t] = closing[t] /\ (t \in room' <=> t \in room)
        BY <1>4, <2>1, <2>2 DEF GetEntry
      <3> HIDE DEF ChatIInv, ChatTypeOK, StageInv, RoomInv, AloneInv, PhaseInv, Phase, At, Cleaned, Agree, Outside, Of, SocketsOf
      <3> QED BY <2>1, <3>1, <3>2, OtherSocket
    <2>3. CASE Who(s) = a
      <3>1. /\ \A t \in SocketsOf(a) : t \notin room /\ (t # s => closing[t] = "no")
            /\ \A e \in Events : ~Of(e, a)
            /\ Phase(a) /\ s \in SocketsOf(a)
        BY <1>4, <2>1, <2>3 DEF GetEntry
      <3>2. \A e \in Events : ~Of(e, a)'
        BY <2>1, <3>1 DEF Of
      <3>3. presence[a] = s
        <4>1. closing[s] = "get"
          BY <1>4 DEF GetEntry
        <4> HIDE DEF ChatIInv, ChatTypeOK, StageInv, RoomInv, AloneInv, PhaseInv, Phase, At, Cleaned, Agree, Outside, Of, SocketsOf
        <4> QED BY <3>1, <4>1, EntryOf
      <3>4. presence' = presence /\ closing' = [closing EXCEPT ![s] = "del"]
        BY <1>4, <2>3, <3>3 DEF GetEntry
      <3>5. closing'[s] = "del" /\ presence'[a] = s /\ \A t \in SocketsOf(a) : t # s => closing'[t] = "no"
        BY <3>1, <3>3, <3>4
      <3> HIDE DEF ChatIInv, ChatTypeOK, StageInv, RoomInv, AloneInv, PhaseInv, At, Agree, Outside, Of
      <3> QED BY <3>1, <3>2, <3>5
    <2> QED BY <2>2, <2>3
  <1>5. ASSUME NEW s \in Sockets, DeleteEntry(s) PROVE PhaseInv'
    <2> SUFFICES ASSUME NEW a \in Members \ muddled' PROVE Phase(a)'
      BY DEF PhaseInv
    <2>1. a \in Members \ muddled /\ event' = event /\ stage' = stage /\ typing' = typing /\ room' = room
      BY <1>5 DEF DeleteEntry
    <2>2. CASE Who(s) # a
      <3>1. presence'[a] = presence[a] /\ told'[a] = told[a]
        BY <1>5, <2>2 DEF DeleteEntry
      <3>2. \A t \in SocketsOf(a) : closing'[t] = closing[t] /\ (t \in room' <=> t \in room)
        BY <1>5, <2>1, <2>2 DEF DeleteEntry
      <3> HIDE DEF ChatIInv, ChatTypeOK, StageInv, RoomInv, AloneInv, PhaseInv, Phase, At, Cleaned, Agree, Outside, Of, SocketsOf
      <3> QED BY <2>1, <3>1, <3>2, OtherSocket
    <2>3. CASE Who(s) = a
      <3>1. /\ \A t \in SocketsOf(a) : t \notin room /\ (t # s => closing[t] = "no")
            /\ \A e \in Events : ~Of(e, a)
            /\ Phase(a) /\ s \in SocketsOf(a)
        BY <1>5, <2>1, <2>3 DEF DeleteEntry
      <3>2. \A e \in Events : ~Of(e, a)'
        BY <2>1, <3>1 DEF Of
      <3>3. closing'[s] = "tell" /\ presence'[a] = Offline /\ \A t \in SocketsOf(a) : t # s => closing'[t] = "no"
        BY <1>5, <2>3, <3>1 DEF DeleteEntry
      <3> HIDE DEF ChatIInv, ChatTypeOK, StageInv, RoomInv, AloneInv, PhaseInv, At, Agree, Outside, Of
      <3> QED BY <3>1, <3>2, <3>3
    <2> QED BY <2>2, <2>3
  <1>6. ASSUME NEW s \in Sockets, TellOffline(s) PROVE PhaseInv'
    <2> SUFFICES ASSUME NEW a \in Members \ muddled' PROVE Phase(a)'
      BY DEF PhaseInv
    <2>1. a \in Members \ muddled /\ event' = event /\ stage' = stage /\ typing' = typing /\ room' = room
      BY <1>6 DEF TellOffline
    <2>2. CASE Who(s) # a
      <3>1. presence'[a] = presence[a] /\ told'[a] = told[a]
        BY <1>6, <2>2 DEF TellOffline
      <3>2. \A t \in SocketsOf(a) : closing'[t] = closing[t] /\ (t \in room' <=> t \in room)
        BY <1>6, <2>1, <2>2 DEF TellOffline
      <3> HIDE DEF ChatIInv, ChatTypeOK, StageInv, RoomInv, AloneInv, PhaseInv, Phase, At, Cleaned, Agree, Outside, Of, SocketsOf
      <3> QED BY <2>1, <3>1, <3>2, OtherSocket
    <2>3. CASE Who(s) = a
      <3>1. /\ \A t \in SocketsOf(a) : t \notin room /\ (t # s => closing[t] = "no")
            /\ \A e \in Events : ~Of(e, a)
            /\ Phase(a) /\ s \in SocketsOf(a)
        BY <1>6, <2>1, <2>3 DEF TellOffline
      <3>2. \A e \in Events : ~Of(e, a)'
        BY <2>1, <3>1 DEF Of
      <3>3. /\ closing'[s] = "no" /\ told'[a] = "offline" /\ presence'[a] = Offline
            /\ \A t \in SocketsOf(a) : t # s => closing'[t] = "no"
        BY <1>6, <2>3, <3>1 DEF TellOffline
      <3>4. Agree(a)'
        BY <2>1, <3>1, <3>3
      <3> HIDE DEF ChatIInv, ChatTypeOK, StageInv, RoomInv, AloneInv, PhaseInv, At, Agree, Outside, Of
      <3> QED BY <3>1, <3>2, <3>3, <3>4
    <2> QED BY <2>2, <2>3
  <1>7. ASSUME NEW s \in Sockets, CloseFails(s) PROVE PhaseInv'
    BY <1>7 DEF CloseFails
  <1>8. ASSUME NEW e \in Events, NEW s \in Sockets, NEW kind \in Kinds_, NEW n \in 0 .. MaxSeq,
               kind = "read" <=> n # 0, SendEvent(e, s, kind, n) PROVE PhaseInv'
    <2> SUFFICES ASSUME NEW a \in Members \ muddled' PROVE Phase(a)'
      BY DEF PhaseInv
    <2>1. a \in Members \ muddled
      BY <1>8 DEF SendEvent
    <2>2. Who(s) = a => (\A f \in Events : ~Of(f, a)) /\ \A t \in SocketsOf(a) : closing[t] = "no"
      <3> HIDE DEF ChatIInv, ChatTypeOK, StageInv, RoomInv, AloneInv, PhaseInv, Phase, At, Cleaned, Agree, Outside
      <3> QED BY <1>8 DEF SendEvent
    <2>3. presence' = presence /\ told' = told /\ typing' = typing /\ room' = room /\ closing' = closing
      BY <1>8 DEF SendEvent
    <2>4. /\ \A f \in Events \ {e} : stage'[f] = stage[f] /\ event'[f] = event[f] /\ (Of(f, a)' <=> Of(f, a))
          /\ stage[e] = "none" /\ ~Of(e, a) /\ (Of(e, a)' <=> Who(s) = a)
          /\ event'[e] = [kind |-> kind, from |-> s, seq |-> n] /\ stage'[e] \in {"check", "enter", "store"}
          /\ stage'[e] = "check" => kind = "join"
          /\ stage'[e] = "enter" => kind = "leave"
          /\ stage'[e] = "store" => kind \notin {"join", "leave"}
      <3> HIDE DEF ChatTypeOK, Of
      <3> QED BY <1>8, SendEventOf
    <2>5. Phase(a) /\ (Agree(a)' <=> Agree(a)) /\ (Outside(a)' <=> Outside(a)) /\ SocketsOf(a)' = SocketsOf(a)
      BY <2>1, <2>3
    <2> HIDE DEF Agree, Outside, Of, SocketsOf, ChatTypeOK, StageInv, RoomInv, AloneInv, PhaseInv, ChatIInv
    <2>6. CASE Who(s) = a
      <3>1. \A f \in Events : Of(f, a)' => f = e
        BY <2>2, <2>4, <2>6
      <3>2. Agree(a)'
        BY <2>2, <2>5, <2>6
      <3>3. At(e, a)'
        BY <2>4, <3>2
      <3> QED BY <2>2, <2>3, <2>5, <2>6, <3>1, <3>2, <3>3
    <2>7. CASE Who(s) # a
      <3>1. \A f \in Events : Of(f, a)' => At(f, a)'
        BY <2>3, <2>4, <2>5, <2>7
      <3> QED BY <2>3, <2>4, <2>5, <2>7, <3>1
    <2> QED BY <2>6, <2>7
  <1>9. ASSUME NEW e \in Events, CheckMember(e) PROVE PhaseInv'
    <2> SUFFICES ASSUME NEW a \in Members \ muddled' PROVE Phase(a)'
      BY DEF PhaseInv
    <2>1. a \in Members \ muddled
      BY <1>9 DEF CheckMember
    <2> DEFINE o == event[e].from
    <2>2. o \in Sockets /\ stage[e] \in Stages /\ closing' = closing
      BY <1>9 DEF CheckMember
    <2>3. PICK x \in {"enter", "done"} : OnStage(e, x)
      BY <1>9 DEF CheckMember
    <2>4. CASE Who(o) # a
      <3>1. presence'[a] = presence[a] /\ told'[a] = told[a] /\ (a \in typing' => a \in typing)
        BY <1>9, <2>4 DEF CheckMember
      <3>2. \A s \in SocketsOf(a) : s \in room' <=> s \in room
        BY <1>9, <2>2, <2>4 DEF CheckMember
      <3> HIDE DEF ChatIInv, ChatTypeOK, StageInv, RoomInv, AloneInv, PhaseInv, Phase, At, Cleaned, Of, OnStage, SocketsOf
      <3>3. x \in Stages \cup {"done"}
        OBVIOUS
      <3> QED BY <2>1, <2>2, <2>3, <2>4, <3>1, <3>2, <3>3, OtherEvent
    <2>5. CASE Who(o) = a
      <3>1. x = "done" => Agree(a)'
        BY <1>9, <2>1, <2>2, <2>3, <2>5 DEF CheckMember
      <3>2. x # "done" => At(e, a)'
        BY <1>9, <2>1, <2>2, <2>3, <2>5 DEF CheckMember
      <3>3. x \in Stages \cup {"done"}
        OBVIOUS
      <3> HIDE DEF ChatIInv, ChatTypeOK, StageInv, RoomInv, AloneInv, PhaseInv, Phase, At, Cleaned, Of, OnStage, SocketsOf
      <3> QED BY <2>1, <2>2, <2>3, <2>5, <3>1, <3>2, <3>3, OwnEvent
    <2> QED BY <2>4, <2>5
  <1>10. ASSUME NEW e \in Events, EnterOrLeave(e) PROVE PhaseInv'
    BY <1>10 DEF EnterOrLeave
  <1>11. ASSUME NEW e \in Events, StoreEntry(e) PROVE PhaseInv'
    <2> SUFFICES ASSUME NEW a \in Members \ muddled' PROVE Phase(a)'
      BY DEF PhaseInv
    <2>1. a \in Members \ muddled
      BY <1>11 DEF StoreEntry
    <2> DEFINE o == event[e].from
    <2>2. o \in Sockets /\ stage[e] \in Stages /\ closing' = closing
      BY <1>11 DEF StoreEntry
    <2>3. PICK x \in {"tell", "done"} : OnStage(e, x)
      BY <1>11 DEF StoreEntry
    <2>4. CASE Who(o) # a
      <3>1. presence'[a] = presence[a] /\ told'[a] = told[a] /\ (a \in typing' => a \in typing)
        BY <1>11, <2>4 DEF StoreEntry
      <3>2. \A s \in SocketsOf(a) : s \in room' <=> s \in room
        BY <1>11, <2>2, <2>4 DEF StoreEntry
      <3> HIDE DEF ChatIInv, ChatTypeOK, StageInv, RoomInv, AloneInv, PhaseInv, Phase, At, Cleaned, Of, OnStage, SocketsOf
      <3>3. x \in Stages \cup {"done"}
        OBVIOUS
      <3> QED BY <2>1, <2>2, <2>3, <2>4, <3>1, <3>2, <3>3, OtherEvent
    <2>5. CASE Who(o) = a
      <3>1. x = "done" => Agree(a)'
        BY <1>11, <2>1, <2>2, <2>3, <2>5 DEF StoreEntry
      <3>2. x # "done" => At(e, a)'
        BY <1>11, <2>1, <2>2, <2>3, <2>5 DEF StoreEntry
      <3>3. x \in Stages \cup {"done"}
        OBVIOUS
      <3> HIDE DEF ChatIInv, ChatTypeOK, StageInv, RoomInv, AloneInv, PhaseInv, Phase, At, Cleaned, Of, OnStage, SocketsOf
      <3> QED BY <2>1, <2>2, <2>3, <2>5, <3>1, <3>2, <3>3, OwnEvent
    <2> QED BY <2>4, <2>5
  <1>12. ASSUME NEW e \in Events, TellOnline(e) PROVE PhaseInv'
    <2> SUFFICES ASSUME NEW a \in Members \ muddled' PROVE Phase(a)'
      BY DEF PhaseInv
    <2>1. a \in Members \ muddled
      BY <1>12 DEF TellOnline
    <2> DEFINE o == event[e].from
    <2>2. o \in Sockets /\ stage[e] \in Stages /\ closing' = closing
      BY <1>12 DEF TellOnline
    <2>3. PICK x \in {"done"} : OnStage(e, x)
      BY <1>12 DEF TellOnline
    <2>4. CASE Who(o) # a
      <3>1. presence'[a] = presence[a] /\ told'[a] = told[a] /\ (a \in typing' => a \in typing)
        BY <1>12, <2>4 DEF TellOnline
      <3>2. \A s \in SocketsOf(a) : s \in room' <=> s \in room
        BY <1>12, <2>2, <2>4 DEF TellOnline
      <3> HIDE DEF ChatIInv, ChatTypeOK, StageInv, RoomInv, AloneInv, PhaseInv, Phase, At, Cleaned, Of, OnStage, SocketsOf
      <3>3. x \in Stages \cup {"done"}
        OBVIOUS
      <3> QED BY <2>1, <2>2, <2>3, <2>4, <3>1, <3>2, <3>3, OtherEvent
    <2>5. CASE Who(o) = a
      <3>1. x = "done" => Agree(a)'
        BY <1>12, <2>1, <2>2, <2>3, <2>5 DEF TellOnline
      <3>2. x # "done" => At(e, a)'
        BY <1>12, <2>1, <2>2, <2>3, <2>5 DEF TellOnline
      <3>3. x \in Stages \cup {"done"}
        OBVIOUS
      <3> HIDE DEF ChatIInv, ChatTypeOK, StageInv, RoomInv, AloneInv, PhaseInv, Phase, At, Cleaned, Of, OnStage, SocketsOf
      <3> QED BY <2>1, <2>2, <2>3, <2>5, <3>1, <3>2, <3>3, OwnEvent
    <2> QED BY <2>4, <2>5
  <1>13. ASSUME NEW e \in Events, RemovePresence(e) PROVE PhaseInv'
    <2> SUFFICES ASSUME NEW a \in Members \ muddled' PROVE Phase(a)'
      BY DEF PhaseInv
    <2>1. a \in Members \ muddled
      BY <1>13 DEF RemovePresence
    <2> DEFINE o == event[e].from
    <2>2. o \in Sockets /\ stage[e] \in Stages /\ closing' = closing
      BY <1>13 DEF RemovePresence
    <2>3. PICK x \in {"clear"} : OnStage(e, x)
      BY <1>13 DEF RemovePresence
    <2>4. CASE Who(o) # a
      <3>1. presence'[a] = presence[a] /\ told'[a] = told[a] /\ (a \in typing' => a \in typing)
        BY <1>13, <2>4 DEF RemovePresence
      <3>2. \A s \in SocketsOf(a) : s \in room' <=> s \in room
        BY <1>13, <2>2, <2>4 DEF RemovePresence
      <3> HIDE DEF ChatIInv, ChatTypeOK, StageInv, RoomInv, AloneInv, PhaseInv, Phase, At, Cleaned, Of, OnStage, SocketsOf
      <3>3. x \in Stages \cup {"done"}
        OBVIOUS
      <3> QED BY <2>1, <2>2, <2>3, <2>4, <3>1, <3>2, <3>3, OtherEvent
    <2>5. CASE Who(o) = a
      <3>1. x = "done" => Agree(a)'
        BY <1>13, <2>1, <2>2, <2>3, <2>5 DEF RemovePresence
      <3>2. x # "done" => At(e, a)'
        BY <1>13, <2>1, <2>2, <2>3, <2>5 DEF RemovePresence
      <3>3. x \in Stages \cup {"done"}
        OBVIOUS
      <3> HIDE DEF ChatIInv, ChatTypeOK, StageInv, RoomInv, AloneInv, PhaseInv, Phase, At, Cleaned, Of, OnStage, SocketsOf
      <3> QED BY <2>1, <2>2, <2>3, <2>5, <3>1, <3>2, <3>3, OwnEvent
    <2> QED BY <2>4, <2>5
  <1>14. ASSUME NEW e \in Events, ClearTyping(e) PROVE PhaseInv'
    BY <1>14 DEF ClearTyping
  <1>15. ASSUME NEW e \in Events, TellLeft(e) PROVE PhaseInv'
    <2> SUFFICES ASSUME NEW a \in Members \ muddled' PROVE Phase(a)'
      BY DEF PhaseInv
    <2>1. a \in Members \ muddled
      BY <1>15 DEF TellLeft
    <2> DEFINE o == event[e].from
    <2>2. o \in Sockets /\ stage[e] \in Stages /\ closing' = closing
      BY <1>15 DEF TellLeft
    <2>3. PICK x \in {"done"} : OnStage(e, x)
      BY <1>15 DEF TellLeft
    <2>4. CASE Who(o) # a
      <3>1. presence'[a] = presence[a] /\ told'[a] = told[a] /\ (a \in typing' => a \in typing)
        BY <1>15, <2>4 DEF TellLeft
      <3>2. \A s \in SocketsOf(a) : s \in room' <=> s \in room
        BY <1>15, <2>2, <2>4 DEF TellLeft
      <3> HIDE DEF ChatIInv, ChatTypeOK, StageInv, RoomInv, AloneInv, PhaseInv, Phase, At, Cleaned, Of, OnStage, SocketsOf
      <3>3. x \in Stages \cup {"done"}
        OBVIOUS
      <3> QED BY <2>1, <2>2, <2>3, <2>4, <3>1, <3>2, <3>3, OtherEvent
    <2>5. CASE Who(o) = a
      <3>1. x = "done" => Agree(a)'
        BY <1>15, <2>1, <2>2, <2>3, <2>5 DEF TellLeft
      <3>2. x # "done" => At(e, a)'
        BY <1>15, <2>1, <2>2, <2>3, <2>5 DEF TellLeft
      <3>3. x \in Stages \cup {"done"}
        OBVIOUS
      <3> HIDE DEF ChatIInv, ChatTypeOK, StageInv, RoomInv, AloneInv, PhaseInv, Phase, At, Cleaned, Of, OnStage, SocketsOf
      <3> QED BY <2>1, <2>2, <2>3, <2>5, <3>1, <3>2, <3>3, OwnEvent
    <2> QED BY <2>4, <2>5
  <1>16. ASSUME NEW e \in Events, EventFails(e) PROVE PhaseInv'
    <2> SUFFICES ASSUME NEW a \in Members \ muddled' PROVE Phase(a)'
      BY DEF PhaseInv
    <2>1. a \in Members \ muddled /\ Who(event[e].from) # a /\ OnStage(e, "done")
      BY <1>16 DEF EventFails
    <2>2. closing' = closing /\ presence' = presence /\ told' = told /\ typing' = typing /\ room' = room
      BY <1>16 DEF EventFails
    <2> HIDE DEF ChatIInv, ChatTypeOK, StageInv, RoomInv, AloneInv, PhaseInv, Phase, At, Cleaned, Of, OnStage, SocketsOf
    <2> QED BY <2>1, <2>2, OtherEvent
  <1>17. CASE RestartGateway
    <2> SUFFICES ASSUME NEW a \in Members \ muddled' PROVE Phase(a)'
      BY DEF PhaseInv
    <2>1. a \in Members \ muddled /\ Under(a) = {} /\ \A w \in Windows : <<a, w>> \notin online /\ closing[<<a, w>>] = "no"
      BY <1>17 DEF RestartGateway
    <2>2. \A s \in SocketsOf(a) : s \notin room /\ closing[s] = "no"
      BY <2>1
    <2>3. Agree(a)
      BY <2>1, <2>2
    <2>4. room' = {} /\ presence' = presence /\ told' = told /\ \A s \in Sockets : closing'[s] = "no"
      BY <1>17 DEF RestartGateway
    <2>5. \A e \in Events : ~Of(e, a)'
      BY <1>17 DEF RestartGateway
    <2>6. Agree(a)'
      BY <2>2, <2>3, <2>4
    <2> HIDE DEF Agree, ChatTypeOK, StageInv, RoomInv, AloneInv, PhaseInv, ChatIInv
    <2> QED BY <2>4, <2>5, <2>6
  <1>18. CASE TypingExpires
    BY <1>18 DEF TypingExpires
  <1>19. ASSUME NEW a \in Members, LoseMember(a) PROVE PhaseInv'
    BY <1>19 DEF LoseMember
  <1> QED BY ChatSteps, <1>1, <1>2, <1>3, <1>4, <1>5, <1>6, <1>7, <1>8, <1>9, <1>10, <1>11,
             <1>12, <1>13, <1>14, <1>15, <1>16, <1>17, <1>18, <1>19

LEMMA ReceiptStep == ASSUME ChatIInv, [ChatNext]_pvars PROVE ReceiptInv'
  <1> USE OfSockets, UnderOf, MaxSeqAssumption DEF ChatTypeOK, StageInv, ReceiptInv, Stages, Of,
      SocketsOf, ChatIInv, OnStage, Net, Memory, Keys, Notes
  <1>1. CASE UNCHANGED pvars
    BY <1>1 DEF pvars
  <1>2. ASSUME NEW s \in Sockets, Connect(s) PROVE ReceiptInv'
    BY <1>2 DEF Connect
  <1>3. ASSUME NEW s \in Sockets, Disconnect(s) PROVE ReceiptInv'
    BY <1>3 DEF Disconnect
  <1>4. ASSUME NEW s \in Sockets, GetEntry(s) PROVE ReceiptInv'
    BY <1>4 DEF GetEntry
  <1>5. ASSUME NEW s \in Sockets, DeleteEntry(s) PROVE ReceiptInv'
    BY <1>5 DEF DeleteEntry
  <1>6. ASSUME NEW s \in Sockets, TellOffline(s) PROVE ReceiptInv'
    BY <1>6 DEF TellOffline
  <1>7. ASSUME NEW s \in Sockets, CloseFails(s) PROVE ReceiptInv'
    BY <1>7 DEF CloseFails
  <1>8. ASSUME NEW e \in Events, NEW s \in Sockets, NEW kind \in Kinds_, NEW n \in 0 .. MaxSeq,
               kind = "read" <=> n # 0, SendEvent(e, s, kind, n) PROVE ReceiptInv'
    <2> SUFFICES ASSUME NEW a \in Members \ overtaken' PROVE
          /\ \A r, t \in SocketsOf(a) : reads'[r] # 0 /\ reads'[t] # 0 => r = t
          /\ receipt[a] # 0 => \E t \in SocketsOf(a) : receipt[a] <= reads'[t]
          /\ \A f \in Events : Of(f, a)' /\ event'[f].kind = "read" => event'[f].seq = reads'[event'[f].from] /\ event'[f].seq # 0
      BY <1>8 DEF SendEvent
    <2>1. a \in Members \ overtaken
      BY <1>8 DEF SendEvent
    <2>2. kind = "read" => reads' = [reads EXCEPT ![s] = n] /\ n >= reads[s]
      BY <1>8 DEF SendEvent
    <2>3. kind # "read" => reads' = reads
      BY <1>8 DEF SendEvent
    <2>4. /\ \A f \in Events \ {e} : stage'[f] = stage[f] /\ event'[f] = event[f] /\ (Of(f, a)' <=> Of(f, a))
          /\ stage[e] = "none" /\ ~Of(e, a) /\ (Of(e, a)' <=> Who(s) = a)
          /\ event'[e] = [kind |-> kind, from |-> s, seq |-> n] /\ stage'[e] \in {"check", "enter", "store"}
          /\ stage'[e] = "check" => kind = "join"
          /\ stage'[e] = "enter" => kind = "leave"
          /\ stage'[e] = "store" => kind \notin {"join", "leave"}
      <3> HIDE DEF ChatTypeOK, Of
      <3> QED BY <1>8, SendEventOf
    <2>5. kind = "read" /\ Who(s) = a => (\A f \in Events : ~Of(f, a)) /\ \A t \in SocketsOf(a) \ {s} : reads[t] = 0
      BY <1>8, <2>1 DEF SendEvent
    <2>6. \A r, t \in SocketsOf(a) : reads'[r] # 0 /\ reads'[t] # 0 => r = t
      BY <2>1, <2>2, <2>3, <2>5
    <2>7. receipt[a] # 0 => \E t \in SocketsOf(a) : receipt[a] <= reads'[t]
      BY <2>1, <2>2, <2>3
    <2>8. ASSUME NEW f \in Events, Of(f, a)', event'[f].kind = "read"
          PROVE event'[f].seq = reads'[event'[f].from] /\ event'[f].seq # 0
      <3>1. CASE f = e
        BY <1>8, <2>2, <2>4, <2>8, <3>1
      <3>2. CASE f # e
        <4>1. Of(f, a) /\ event'[f] = event[f] /\ event[f].from \in SocketsOf(a) /\ stage[f] \in Stages
          BY <2>4, <2>8, <3>2
        <4>2. kind = "read" => s \notin SocketsOf(a)
          BY <2>5, <4>1
        <4> QED BY <2>1, <2>2, <2>3, <2>8, <4>1, <4>2
      <3> QED BY <3>1, <3>2
    <2> QED BY <2>6, <2>7, <2>8
  <1>9. ASSUME NEW e \in Events, CheckMember(e) PROVE ReceiptInv'
    BY <1>9 DEF CheckMember
  <1>10. ASSUME NEW e \in Events, EnterOrLeave(e) PROVE ReceiptInv'
    BY <1>10 DEF EnterOrLeave
  <1>11. ASSUME NEW e \in Events, StoreEntry(e) PROVE ReceiptInv'
    BY <1>11 DEF StoreEntry
  <1>12. ASSUME NEW e \in Events, TellOnline(e) PROVE ReceiptInv'
    BY <1>12 DEF TellOnline
  <1>13. ASSUME NEW e \in Events, RemovePresence(e) PROVE ReceiptInv'
    BY <1>13 DEF RemovePresence
  <1>14. ASSUME NEW e \in Events, ClearTyping(e) PROVE ReceiptInv'
    BY <1>14 DEF ClearTyping
  <1>15. ASSUME NEW e \in Events, TellLeft(e) PROVE ReceiptInv'
    BY <1>15 DEF TellLeft
  <1>16. ASSUME NEW e \in Events, EventFails(e) PROVE ReceiptInv'
    BY <1>16 DEF EventFails
  <1>17. CASE RestartGateway
    BY <1>17 DEF RestartGateway
  <1>18. CASE TypingExpires
    BY <1>18 DEF TypingExpires
  <1>19. ASSUME NEW a \in Members, LoseMember(a) PROVE ReceiptInv'
    BY <1>19 DEF LoseMember
  <1> QED BY ChatSteps, <1>1, <1>2, <1>3, <1>4, <1>5, <1>6, <1>7, <1>8, <1>9, <1>10, <1>11,
             <1>12, <1>13, <1>14, <1>15, <1>16, <1>17, <1>18, <1>19

LEMMA ChatKeeps == ChatIInv /\ [ChatNext]_pvars => ChatIInv'
  BY ChatTypeStep, StageStep, RoomStep, DeleteStep, AloneStep, PhaseStep, ReceiptStep DEF ChatIInv

LEMMA RoomIsShown == ChatIInv => PresenceIsRoom
  <1> SUFFICES ASSUME ChatIInv, NEW a \in Members \ muddled, Settled(a)
               PROVE  /\ \A w \in Windows : presence[a] = <<a, w>> <=> <<a, w>> \in room
                      /\ told[a] = "online" <=> presence[a] # Offline
    BY DEF PresenceIsRoom
  <1>1. (\A e \in Events : ~Of(e, a)) /\ \A s \in SocketsOf(a) : closing[s] = "no"
    BY OfSockets, UnderOf DEF Settled, SocketsOf
  <1>2. Agree(a)
    BY <1>1 DEF ChatIInv, PhaseInv, Phase
  <1> QED BY <1>2, OfSockets DEF Agree, SocketsOf

\* Who takes an entry away, what the room hears of who has left, and which receipt goes back,
\* in every step.
LEMMA ChatActs ==
    ASSUME ChatIInv, [ChatNext]_pvars
    PROVE  /\ \A a \in Members : presence[a] # Offline /\ presence'[a] = Offline
                => \/ closing[presence[a]] = "del"
                   \/ \E e \in Events : event[e].kind = "leave" /\ stage[e] = "hdel" /\ stage'[e] = "clear"
                   \/ a \in overtaken
           /\ \A e \in Events : stage[e] = "untell" /\ stage'[e] = "done" => Who(event[e].from) \notin typing \ muddled
           /\ \A a \in Members \ overtaken' : receipt'[a] >= receipt[a]
  <1>1. ASSUME NEW a \in Members, presence[a] # Offline, presence'[a] = Offline, a \notin overtaken
        PROVE  \/ closing[presence[a]] = "del"
               \/ \E e \in Events : event[e].kind = "leave" /\ stage[e] = "hdel" /\ stage'[e] = "clear"
    <2>1. CASE \E s \in Sockets : DeleteEntry(s)
      BY <1>1, <2>1, OfSockets DEF DeleteEntry, ChatIInv, ChatTypeOK, DeleteInv
    <2>2. CASE \E e \in Events : RemovePresence(e)
      BY <1>1, <2>2 DEF RemovePresence, OnStage, ChatIInv, ChatTypeOK, StageInv, Stages
    <2>3. ASSUME NEW e \in Events, StoreEntry(e) PROVE FALSE
      BY <1>1, <2>3, OfSockets DEF StoreEntry, ChatIInv, ChatTypeOK, StageInv, Stages
    <2>4. CASE presence' = presence
      BY <1>1, <2>4
    <2> QED
      BY <2>1, <2>2, <2>3, <2>4
      DEF ChatNext, pvars, Net, Memory, Keys, Notes, Connect, Disconnect, GetEntry, TellOffline, CloseFails,
          SendEvent, CheckMember, EnterOrLeave, TellOnline, ClearTyping, TellLeft, EventFails, RestartGateway,
          TypingExpires, LoseMember
  <1>2. ASSUME NEW e \in Events, stage[e] = "untell" PROVE Who(event[e].from) \notin typing \ muddled
    <2>1. Of(e, Who(event[e].from)) /\ Who(event[e].from) \in Members
      BY <1>2, OfSockets DEF Of, Stages, ChatIInv, StageInv
    <2> QED BY <1>2, <2>1 DEF ChatIInv, PhaseInv, Phase, At
  <1>3. ASSUME NEW a \in Members, a \notin overtaken' PROVE receipt'[a] >= receipt[a]
    <2>1. receipt[a] \in Nat
      BY MaxSeqAssumption DEF ChatIInv, ChatTypeOK
    <2>2. ASSUME NEW e \in Events, StoreEntry(e) PROVE receipt'[a] >= receipt[a]
      <3>1. CASE event[e].kind = "read" /\ Who(event[e].from) = a
        <4>1. Of(e, a) /\ a \notin overtaken /\ event[e].from \in SocketsOf(a) /\ receipt'[a] = event[e].seq
          BY <1>3, <2>2, <3>1 DEF StoreEntry, Of, Stages, ChatIInv, ChatTypeOK, StageInv, SocketsOf
        <4>2. event[e].seq = reads[event[e].from] /\ event[e].seq # 0 /\ event[e].seq \in Nat
          BY <3>1, <4>1, MaxSeqAssumption DEF ChatIInv, ChatTypeOK, ReceiptInv
        <4>3. CASE receipt[a] = 0
          BY <4>1, <4>2, <4>3
        <4>4. CASE receipt[a] # 0
          <5>1. PICK s \in SocketsOf(a) : receipt[a] <= reads[s]
            BY <4>1, <4>4 DEF ChatIInv, ReceiptInv
          <5>2. reads[s] \in Nat /\ reads[s] # 0
            BY <2>1, <4>4, <5>1, MaxSeqAssumption DEF ChatIInv, ChatTypeOK, SocketsOf
          <5>3. s = event[e].from
            BY <4>1, <4>2, <5>2 DEF ChatIInv, ReceiptInv
          <5> QED BY <4>1, <4>2, <5>1, <5>3
        <4> QED BY <4>3, <4>4
      <3>2. CASE ~(event[e].kind = "read" /\ Who(event[e].from) = a)
        BY <2>1, <2>2, <3>2 DEF StoreEntry, ChatIInv, ChatTypeOK
      <3> QED BY <3>1, <3>2
    <2>3. CASE receipt' = receipt
      BY <2>1, <2>3
    <2> QED
      BY <2>2, <2>3
      DEF ChatNext, pvars, Net, Memory, Keys, Notes, Connect, Disconnect, GetEntry, DeleteEntry,
          TellOffline, CloseFails, SendEvent, CheckMember, EnterOrLeave, TellOnline, RemovePresence,
          ClearTyping, TellLeft, EventFails, RestartGateway, TypingExpires, LoseMember
  <1> QED BY <1>1, <1>2, <1>3

\* What Redis says of a conversation is what the gateway did, and who takes it back, for
\* every number of accounts, windows, events and messages (ChatGateway, ChatRedisService).
THEOREM ChatSafetyHolds == ChatSpec => ChatSafety
  <1>1. ChatSpec => []ChatIInv
    BY ChatStarts, ChatKeeps, PTL DEF ChatSpec
  <1>2. ChatIInv => ChatTypeOK /\ PresenceIsRoom
    BY RoomIsShown DEF ChatIInv
  <1>3. ChatIInv /\ [ChatNext]_pvars =>
          [\A a \in Members : presence[a] # Offline /\ presence'[a] = Offline
             => \/ closing[presence[a]] = "del"
                \/ \E e \in Events : event[e].kind = "leave" /\ stage[e] = "hdel" /\ stage'[e] = "clear"
                \/ a \in overtaken]_pvars
    BY ChatActs
  <1>4. ChatIInv /\ [ChatNext]_pvars =>
          [\A e \in Events : stage[e] = "untell" /\ stage'[e] = "done"
             => Who(event[e].from) \notin typing \ muddled]_pvars
    BY ChatActs
  <1>5. ChatIInv /\ [ChatNext]_pvars => [\A a \in Members \ overtaken' : receipt'[a] >= receipt[a]]_pvars
    BY ChatActs
  <1> QED BY <1>1, <1>2, <1>3, <1>4, <1>5, PTL
          DEF ChatSpec, ChatSafety, EntryTakenByItsOwner, LeftIsSilent, ReceiptBackOnlyByOther

====
