---- MODULE Session ----
(***************************************************************************)
(* The session of the web client: the auth store, and the requests that    *)
(* read its tokens.  ApiClient.request refreshes the access token when a   *)
(* request is answered with 401, and repeats the request; requests run     *)
(* side by side, also when the user signs out and another one signs in, or  *)
(* signs in over the session that there is.                                *)
(***************************************************************************)
EXTENDS Naturals, Sequences, FiniteSets

CONSTANTS
    Users,       \* people who use this browser
    Nobody,      \* null, and undefined
    Requests,    \* calls of ApiClient.request
    MaxTokens    \* access tokens that are issued

ASSUME NobodyAssumption == Nobody \notin Users
ASSUME MaxTokensAssumption == MaxTokens \in Nat

VARIABLES
    issued,     \* the owners of the access tokens that were issued, in order
    stale,      \* how many of them have expired
    store,      \* useAuthStore: token (0 is null), refreshToken, isAuthenticated, user
    call,       \* op; `as`, who sent it; the token it carries; whose refresh token it uses
    at,         \* where it is
    effects,    \* how often its handler ran (history)
    parted,     \* requests under way when the session changed hands (history)
    signedOver  \* somebody signed in while the store named another user (history)

svars == <<issued, stale, store, call, at, effects, parted, signedOver>>

Anybody   == Users \cup {Nobody}
NoCall    == [op |-> "any", as |-> Nobody, token |-> 0, renews |-> Nobody]
SignedOut == [token |-> 0, refresh |-> Nobody, in |-> FALSE, user |-> Nobody]

SessionTypeOK ==
    /\ issued \in Seq(Users) /\ Len(issued) <= MaxTokens /\ stale \in 0 .. Len(issued)
    /\ store \in [token : 0 .. Len(issued), refresh : Anybody, in : BOOLEAN, user : Anybody]
    /\ call \in [Requests -> [op : {"any", "me", "verify"}, as : Anybody, token : 0 .. Len(issued), renews : Anybody]]
    /\ at \in [Requests -> {"idle", "sent", "401", "renew", "renewed", "again", "answered", "over"}]
    /\ effects \in [Requests -> 0 .. 2] /\ parted \subseteq Requests /\ signedOver \in BOOLEAN

SessionInit ==
    /\ issued = <<>> /\ stale = 0 /\ store = SignedOut
    /\ call = [c \in Requests |-> NoCall] /\ at = [c \in Requests |-> "idle"]
    /\ effects = [c \in Requests |-> 0] /\ parted = {} /\ signedOver = FALSE

--------------------------------------------------------------------------------

UnderWay   == {c \in Requests : at[c] \notin {"idle", "over"}}
Step(c, s) == at' = [at EXCEPT ![c] = s]
Fresh(n)   == n > stale
Owner(n)   == IF n = 0 THEN Nobody ELSE issued[n]

\* A pair of tokens for u, of which the requests of others know nothing.
Issue(u) ==
    /\ Len(issued) < MaxTokens
    /\ issued' = Append(issued, u)
    /\ parted' = parted \cup {c \in UnderWay : call[c].as # u}
    /\ UNCHANGED <<stale, call, at, effects>>

\* setTokens with the answer of verifyOtp, whoever is signed in: the register page shows its
\* form to a user who is, and the name in the store stays.
SignIn(u) ==
    /\ Issue(u)
    /\ store' = [store EXCEPT !.token = Len(issued'), !.refresh = u, !.in = TRUE]
    /\ signedOver' = (store.user \notin {Nobody, u})

\* setTokens and setUser with the answer of createWallet; a name that there is stays.
SignInWithWallet ==
    LET u == Owner(store.token) IN
    /\ store.in /\ Fresh(store.token) /\ Issue(u)
    /\ store' = [store EXCEPT !.token = Len(issued'), !.refresh = u,
                              !.user = IF store.user = Nobody THEN u ELSE store.user]
    /\ UNCHANGED signedOver

\* A slip: the refresh token survives signing out.
SignOutOfAccess ==
    /\ store.in
    /\ store' = [SignedOut EXCEPT !.refresh = store.refresh]
    /\ parted' = parted \cup UnderWay /\ signedOver' = FALSE
    /\ UNCHANGED <<issued, stale, call, at, effects>>

SignOut ==
    /\ store.in
    /\ store' = SignedOut
    /\ parted' = parted \cup UnderWay /\ signedOver' = FALSE
    /\ UNCHANGED <<issued, stale, call, at, effects>>

AccessExpires ==
    /\ stale < Len(issued) /\ stale' = Len(issued)
    /\ UNCHANGED <<issued, store, call, at, effects, parted, signedOver>>

\* What is sent when: the layout asks who the user is while it has none, a code is typed on
\* pages that need no session.
Sendable(op) ==
    CASE op = "any"    -> store.in
      [] op = "me"     -> store.in /\ store.user = Nobody
      [] op = "verify" -> TRUE

\* executeRequest, with the token that is stored.
Send(c, op) ==
    /\ at[c] = "idle" /\ Sendable(op)
    /\ call' = [call EXCEPT ![c] = [op |-> op, as |-> Owner(store.token), renews |-> Nobody, token |-> store.token]]
    /\ Step(c, "sent")
    /\ UNCHANGED <<issued, stale, store, effects, parted, signedOver>>

\* verifyOtp has no guard, and a wrong code is a 401 too (a right one is SignIn).
Runs(c)   == call[c].op = "verify" \/ Fresh(call[c].token)
Passes(c) == call[c].op # "verify" /\ Fresh(call[c].token)

\* JwtAuthGuard and the handler; the second 401 is thrown.
Handle(c) ==
    /\ at[c] \in {"sent", "again"}
    /\ effects' = [effects EXCEPT ![c] = IF Runs(c) THEN @ + 1 ELSE @]
    /\ Step(c, IF Passes(c) THEN "answered" ELSE IF at[c] = "sent" THEN "401" ELSE "over")
    /\ UNCHANGED <<issued, stale, store, call, parted, signedOver>>

\* attemptTokenRefresh takes the refresh token that is stored by now; without one, the 401
\* is thrown and the store stays as it is.
AskRenewal(c) ==
    /\ at[c] = "401"
    /\ call' = [call EXCEPT ![c].renews = store.refresh]
    /\ Step(c, IF store.refresh = Nobody THEN "over" ELSE "renew")
    /\ UNCHANGED <<issued, stale, store, effects, parted, signedOver>>

\* AuthService.refreshToken: an access token, and no new refresh token.
Renew(c) ==
    /\ at[c] = "renew" /\ Len(issued) < MaxTokens
    /\ issued' = Append(issued, call[c].renews)
    /\ call' = [call EXCEPT ![c].token = Len(issued')]
    /\ Step(c, "renewed")
    /\ UNCHANGED <<stale, store, effects, parted, signedOver>>

\* setTokens(accessToken, undefined), whoever is signed in by now; the request is repeated.
TakeRenewal(c) ==
    /\ at[c] = "renewed"
    /\ store' = [store EXCEPT !.token = call[c].token, !.refresh = Nobody, !.in = TRUE]
    /\ Step(c, "again")
    /\ UNCHANGED <<issued, stale, call, effects, parted, signedOver>>

\* The refresh token is refused, or the network fails: logout().
RenewalFails(c) ==
    /\ at[c] \in {"renew", "renewed"}
    /\ store' = SignedOut
    /\ Step(c, "over")
    /\ parted' = parted \cup (UnderWay \ {c}) /\ signedOver' = FALSE
    /\ UNCHANGED <<issued, stale, call, effects>>

\* The answer; that of getProfile("me") names the user, and setUser signs in.
Take(c) ==
    /\ at[c] = "answered"
    /\ store' = IF call[c].op = "me" THEN [store EXCEPT !.user = Owner(call[c].token), !.in = TRUE] ELSE store
    /\ Step(c, "over")
    /\ UNCHANGED <<issued, stale, call, effects, parted, signedOver>>

SessionNext ==
    \/ \E c \in Requests :
          \/ \E op \in {"any", "me", "verify"} : Send(c, op)
          \/ Handle(c) \/ AskRenewal(c) \/ Renew(c) \/ TakeRenewal(c) \/ RenewalFails(c) \/ Take(c)
    \/ \E u \in Users : SignIn(u)
    \/ SignInWithWallet \/ SignOut \/ AccessExpires

SessionSpec == SessionInit /\ [][SessionNext]_svars

--------------------------------------------------------------------------------

\* A request that is repeated after a refresh takes effect once (but for verifyOtp, below).
EffectOnce == \A c \in Requests : call[c].op # "verify" => effects[c] <= 1

\* What one user sent is not done in the name of another one, unless the session changed
\* hands while the request was under way.
DoneInOwnName ==
    [][\A c \in Requests :
          effects'[c] # effects[c] /\ call[c].op # "verify" /\ c \notin parted
          => Owner(call[c].token) = call[c].as]_svars

\* Nobody is signed in again but by a code, or by the answer to a request that was under way
\* when the user signed out.
BackOnlyByCode ==
    [][~store.in /\ store'.in => \/ store'.refresh # Nobody
                                 \/ \E c \in parted : at'[c] # at[c]]_svars

\* The name on the screen is that of the token, while no request outlived a session, unless
\* another user has signed in over the session of the one who is named.
NameIsOfToken ==
    parted = {} /\ store.user # Nobody => store.in /\ (signedOver \/ Owner(store.token) = store.user)

\* The session changes hands by signing in and out only, in what it shows, does and answers.
SessionSafety == /\ [](SessionTypeOK /\ EffectOnce /\ NameIsOfToken)
                 /\ DoneInOwnName /\ BackOnlyByCode

\* Not kept by the code (README.md, section 3): "Exchange a refresh token for a new token
\* pair".  The answer has no refresh token, and undefined is stored.
RenewalKeepsRefresh ==
    [][\A c \in Requests : at[c] = "renewed" /\ at'[c] = "again" => store'.refresh = call[c].renews]_svars

\* Not kept by the code (README.md, section 3): one typed code is one attempt.  The 401 of a
\* wrong code refreshes the tokens of a stored session, and the code is sent again.
CodeSentOnce == \A c \in Requests : call[c].op = "verify" => effects[c] <= 1

\* Not kept by the code (README.md, section 3): whoever is named is signed in.
NamedIsSignedIn == parted = {} /\ store.user # Nobody => Owner(store.token) = store.user

================================================================================
