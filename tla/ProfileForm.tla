---- MODULE ProfileForm ----
(***************************************************************************)
(* The profile of one user: the section of the settings page that edits it,*)
(* with its check of the username while one types, updateProfile with the  *)
(* refresh of the DID NFT that it starts and does not await, and the user  *)
(* that the browser's auth store keeps.  A handle stands for all its       *)
(* spellings, which the API writes in lower case; one that is no username  *)
(* is refused at once.  The bio stands for the display name too, except    *)
(* that the store keeps the latter.  The avatar is asked for, never sent.  *)
(***************************************************************************)
EXTENDS Naturals, FiniteSets

CONSTANTS
    Handles,     \* usernames
    NoHandle,    \* none: null, or an input that is empty
    Updates,     \* requests of updateProfile
    Checks       \* requests of check-username

VARIABLES
    account,     \* users: what its row says
    rivalHandle, \* users: the username of another user
    nftSays,     \* the bio in the metadata of the DID NFT that the account names
    update,      \* the requests of the page, each with its handler and its refresh
    check,       \* the requests of the check
    fields,      \* the fields of the page, and what it says of the username
    session,     \* whose tokens the browser has
    user,        \* the user in the auth store
    unsure       \* what overlapping or failed requests have put in doubt (history)

pvars == <<account, rivalHandle, nftSays, update, check, fields, session, user, unsure>>

NoText   == "empty"
Bios     == {NoText, "written"}
Typed    == Handles \cup {NoHandle}
Accounts == {"me", "other", "nobody"}
NoCheck  == [at |-> "idle", text |-> NoHandle, says |-> FALSE]
SignedOut == [who |-> "nobody", handle |-> NoHandle]
Other    == [SignedOut EXCEPT !.who = "other"]
NoForm   == [open |-> FALSE, bio |-> NoText, text |-> NoHandle, available |-> "unknown",
             hinted |-> NoHandle, timer |-> FALSE, saving |-> FALSE, profile |-> "none"]
NoSave   == [at |-> "idle", bio |-> NoText, handle |-> NoHandle, user |-> SignedOut, awaited |-> FALSE,
             refresh |-> FALSE, clean |-> TRUE, says |-> NoText]

ProfileTypeOK ==
    /\ account \in [bio : Bios, handle : Typed] /\ rivalHandle \in Typed
    /\ nftSays \in Bios
    /\ \A s \in Updates : /\ update[s].at \in {"idle", "sent", "loaded", "checked", "saved", "failed"}
                          /\ update[s].handle \in Typed
    /\ check \in [Checks -> [at : {"idle", "asked", "answered"}, text : Typed, says : BOOLEAN]]
    /\ fields.text \in Typed /\ fields.bio \in Bios /\ fields.available \in {"unknown", "yes", "no"}
    /\ fields.profile \in {"none", "asked", "answered"}
    /\ session \in Accounts /\ user.who \in Accounts
    /\ unsure \subseteq {"nft", "session", "store", "hint"}

TheUser == [who |-> "me", handle |-> account.handle]

ProfileInit ==
    /\ account \in [bio : {NoText}, handle : Typed] /\ nftSays = NoText
    /\ rivalHandle \in Typed /\ (rivalHandle # NoHandle => rivalHandle # account.handle)
    /\ update = [s \in Updates |-> NoSave] /\ check = [k \in Checks |-> NoCheck]
    /\ fields = NoForm /\ session = "me" /\ user = TheUser /\ unsure = {}

--------------------------------------------------------------------------------
(* The session *)

\* Every page is left; the requests go on.
Leave ==
    /\ fields' = NoForm
    /\ check' = [k \in Checks |-> NoCheck]
    /\ unsure' = (unsure \cup {"store" : s \in {x \in Updates : update[x].awaited}}) \ {"hint", "session"}

\* logout.
SignOut ==
    /\ session # "nobody"
    /\ session' = "nobody" /\ user' = SignedOut
    /\ Leave
    /\ UNCHANGED <<account, rivalHandle, nftSays, update>>

\* A login, here of this user or of another.
SignIn(u) ==
    /\ session = "nobody"
    /\ session' = u.who /\ user' = u
    /\ unsure' = (IF \E s \in Updates : update[s].at # "idle" THEN unsure ELSE unsure \ {"store"}) \ {"session"}
    /\ UNCHANGED <<account, rivalHandle, nftSays, update, check, fields>>

--------------------------------------------------------------------------------
(* The page *)

OpenSettings ==
    /\ session = "me" /\ user.who = "me" /\ ~fields.open
    /\ fields' = [NoForm EXCEPT !.open = TRUE, !.profile = "asked"]
    /\ unsure' = unsure \ {"hint"}
    /\ UNCHANGED <<account, rivalHandle, nftSays, update, check, session, user>>

LeaveSettings ==
    /\ fields.open
    /\ fields' = NoForm /\ check' = [k \in Checks |-> NoCheck]
    /\ UNCHANGED <<account, rivalHandle, nftSays, update, session, user, unsure>>

InFlight == \E k \in Checks : check[k] # NoCheck

\* getMyProfile answers: what was typed meanwhile is replaced, and what is said of it stays.
ProfileArrives ==
    /\ fields.profile = "asked"
    /\ fields' = [fields EXCEPT !.bio = account.bio, !.text = account.handle, !.profile = "answered"]
    /\ unsure' = IF fields.text # account.handle THEN unsure \cup {"hint"} ELSE unsure
    /\ UNCHANGED <<account, rivalHandle, nftSays, update, check, session, user>>

ProfileFails ==
    /\ fields.profile = "asked"
    /\ fields' = [fields EXCEPT !.profile = "answered"]
    /\ UNCHANGED <<account, rivalHandle, nftSays, update, check, session, user, unsure>>

Edit(f) == fields' = f /\ UNCHANGED <<account, rivalHandle, nftSays, update, check, session, user>>

TypeBio(b) == fields.open /\ Edit([fields EXCEPT !.bio = b]) /\ UNCHANGED unsure

\* handleUsernameChange: what is no username cancels the debounced check; a request that
\* was sent is not called back.
HandleUsernameChange(t) ==
    /\ fields.open /\ t # fields.text
    /\ Edit([fields EXCEPT !.text = t, !.available = "unknown", !.timer = t \in Handles, !.hinted = t])
    /\ unsure' = IF InFlight THEN unsure \cup {"hint"} ELSE unsure

\* The debounced check, of the last username that was typed.
CheckUsername(k) ==
    /\ fields.timer /\ check[k] = NoCheck
    /\ fields' = [fields EXCEPT !.timer = FALSE]
    /\ check' = [check EXCEPT ![k] = [NoCheck EXCEPT !.at = "asked", !.text = fields.hinted]]
    /\ UNCHANGED <<account, rivalHandle, nftSays, update, session, user, unsure>>

InUse(h) == h \in {account.handle, rivalHandle}

\* checkUsernameAvailability: it does not know who asks.
CheckUsernameAvailability(k) ==
    /\ check[k].at = "asked"
    /\ check' = [check EXCEPT ![k].at = "answered",
                              ![k].says = check[k].text \in Handles /\ ~InUse(check[k].text)]
    /\ UNCHANGED <<account, rivalHandle, nftSays, update, fields, session, user, unsure>>

CheckArrives(k) ==
    /\ check[k].at = "answered"
    /\ fields' = [fields EXCEPT !.available = IF check[k].says THEN "yes" ELSE "no", !.hinted = check[k].text]
    /\ check' = [check EXCEPT ![k] = NoCheck]
    /\ UNCHANGED <<account, rivalHandle, nftSays, update, session, user, unsure>>

CheckFails(k) ==
    /\ check[k] # NoCheck
    /\ fields' = [fields EXCEPT !.available = "unknown"]
    /\ check' = [check EXCEPT ![k] = NoCheck]
    /\ UNCHANGED <<account, rivalHandle, nftSays, update, session, user, unsure>>

--------------------------------------------------------------------------------
(* Saving *)

Ongoing(s) == update[s].at # "idle" \/ update[s].refresh

\* handleSave, with the user of the store at that time.
HandleSave(s) ==
    LET others == {x \in Updates \ {s} : Ongoing(x)} IN
    /\ fields.open /\ ~fields.saving /\ ~Ongoing(s)
    /\ fields' = [fields EXCEPT !.saving = TRUE]
    /\ update' = [x \in Updates |->
                    IF x = s THEN [NoSave EXCEPT !.at = "sent", !.bio = fields.bio, !.handle = fields.text,
                                                 !.user = user, !.awaited = TRUE, !.clean = others = {}]
                    ELSE [update[x] EXCEPT !.clean = @ /\ ~Ongoing(x)]]
    /\ UNCHANGED <<account, rivalHandle, nftSays, check, session, user, unsure>>

\* updateProfile finds the user.
LoadUser(s) ==
    /\ update[s].at = "sent"
    /\ update' = [update EXCEPT ![s].at = "loaded", ![s].says = account.bio]
    /\ UNCHANGED <<account, rivalHandle, nftSays, check, fields, session, user, unsure>>

\* The username is looked for; unless another user has it, refreshDidNft starts with what is
\* to be saved on top of what was found, and the account is updated meanwhile.
FindConflict(s) ==
    LET v == update[s] IN
    /\ v.at = "loaded"
    /\ update' = IF v.handle # NoHandle /\ v.handle = rivalHandle
                 THEN [update EXCEPT ![s].at = "failed"]
                 ELSE [update EXCEPT ![s].at = "checked", ![s].refresh = TRUE,
                                     ![s].says = IF v.bio = NoText THEN v.says ELSE v.bio]
    /\ UNCHANGED <<account, rivalHandle, nftSays, check, fields, session, user, unsure>>

\* What is empty is left out of the update.
Persist(s) ==
    LET v == update[s] IN
    /\ v.at = "checked"
    /\ account' = [bio    |-> IF v.bio = NoText THEN account.bio ELSE v.bio,
                   handle |-> IF v.handle = NoHandle THEN account.handle ELSE v.handle]
    /\ update' = [update EXCEPT ![s].at = "saved", ![s].bio = NoText]
    /\ unsure' = IF v.awaited /\ v.clean THEN unsure ELSE unsure \cup {"store"}
    /\ UNCHANGED <<rivalHandle, nftSays, check, fields, session, user>>

\* The unique index refuses a username that was taken meanwhile, or the database fails;
\* the refresh goes on.
PersistFails(s) ==
    /\ update[s].at = "checked"
    /\ update' = [update EXCEPT ![s].at = "failed", ![s].clean = FALSE]
    /\ unsure' = unsure \cup {"nft"}
    /\ UNCHANGED <<account, rivalHandle, nftSays, check, fields, session, user>>

Refreshed(s) ==
    update' = [update EXCEPT ![s] = IF @.at = "idle" THEN NoSave ELSE [@ EXCEPT !.refresh = FALSE, !.says = NoText]]

\* The new NFT is minted and the account names it.
RefreshDidNft(s) ==
    /\ update[s].refresh
    /\ nftSays' = update[s].says
    /\ Refreshed(s)
    /\ unsure' = IF update[s].clean THEN unsure \ {"nft"} ELSE unsure \cup {"nft"}
    /\ UNCHANGED <<account, rivalHandle, check, fields, session, user>>

RefreshFails(s) ==
    /\ update[s].refresh
    /\ Refreshed(s)
    /\ unsure' = unsure \cup {"nft"}
    /\ UNCHANGED <<account, rivalHandle, nftSays, check, fields, session, user>>

Answered(s) ==
    update' = [update EXCEPT ![s] = 
        IF @.refresh THEN [NoSave EXCEPT !.refresh = TRUE, !.says = update[s].says, !.clean = update[s].clean]
        ELSE NoSave]

\* The rest of handleSave, also when the page was left: the user that it was called with
\* goes back into the store, with what the page had.
SaveSucceeds(s) ==
    LET v == update[s] IN
    /\ v.at = "saved" /\ v.awaited
    /\ Answered(s)
    /\ user' = [v.user EXCEPT !.handle = IF v.handle = NoHandle THEN @ ELSE v.handle]
    /\ fields' = [fields EXCEPT !.saving = FALSE]
    /\ unsure' = IF session # "me" THEN unsure \cup {"session"} ELSE unsure
    /\ UNCHANGED <<account, rivalHandle, nftSays, check, session>>

\* The answer is an error, or is lost; in the second case the handler goes on.
SaveFails(s) ==
    /\ update[s].awaited
    /\ fields' = [fields EXCEPT !.saving = FALSE]
    /\ IF update[s].at = "failed" THEN Answered(s)
       ELSE update' = [update EXCEPT ![s].awaited = FALSE, ![s].user = SignedOut]
    /\ unsure' = IF update[s].at = "saved" THEN unsure \cup {"store"} ELSE unsure
    /\ UNCHANGED <<account, rivalHandle, nftSays, check, session, user>>

\* A handler that nobody waits for ends.
Unheard(s) ==
    /\ update[s].at \in {"saved", "failed"} /\ ~update[s].awaited
    /\ Answered(s)
    /\ UNCHANGED <<account, rivalHandle, nftSays, check, fields, session, user, unsure>>

ProfileNext ==
    \/ SignOut \/ SignIn(TheUser) \/ SignIn(Other) \/ OpenSettings \/ LeaveSettings
    \/ ProfileArrives \/ ProfileFails
    \/ \E b \in Bios : TypeBio(b)
    \/ \E t \in Typed : HandleUsernameChange(t)
    \/ \E k \in Checks : CheckUsername(k) \/ CheckUsernameAvailability(k) \/ CheckArrives(k) \/ CheckFails(k)
    \/ \E s \in Updates : \/ HandleSave(s) \/ LoadUser(s) \/ FindConflict(s) \/ Persist(s) \/ PersistFails(s)
                          \/ RefreshDidNft(s) \/ RefreshFails(s) \/ SaveSucceeds(s) \/ SaveFails(s) \/ Unheard(s)

ProfileSpec == ProfileInit /\ [][ProfileNext]_pvars

--------------------------------------------------------------------------------
Quiet == \A s \in Updates : ~Ongoing(s)

\* What the page says of the username is about the text in its input, unless that changed
\* while a request was under way, or the profile came after it was typed.
HintIsOfText ==
    fields.available # "unknown" /\ "hint" \notin unsure => fields.hinted = fields.text

\* The DID NFT says what the account says once all is done, also with fields that were left
\* out, unless saves overlapped, a refresh failed, or a save failed after its refresh had
\* begun; one save that nothing overlaps puts it right.
NftMatchesProfile ==
    Quiet /\ "nft" \notin unsure => nftSays = account.bio

\* The user in the store is the one whose tokens the browser has, unless a save ended after
\* its user had signed out.
UserIsOfSession == "session" \notin unsure => user.who = session

\* The store says of its user what the account says, unless the answer of a save was lost, or
\* two overlapped, or its user signed out before.
StoreMatchesRow ==
    Quiet /\ user.who = "me" /\ unsure \cap {"store", "session"} = {} => user = TheUser

ProfileFormInv == ProfileTypeOK /\ HintIsOfText /\ NftMatchesProfile /\ UserIsOfSession /\ StoreMatchesRow

\* Not kept by the code (README.md, section 3): the hint of an input is about its text.
HintIsOfTextAlways == fields.available # "unknown" => fields.hinted = fields.text

\* Not kept by the code (README.md, section 3): who has no tokens is not signed in.
SignedOutStaysOut == session = "nobody" => user.who = "nobody"

================================================================================
