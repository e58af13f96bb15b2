---- MODULE ConversationKey ----
(***************************************************************************)
(* How the chat page comes by the key of its conversation and opens the    *)
(* messages with it: the effect that derives the key when the list of      *)
(* conversations arrives, the PIN dialog of the page, the PIN dialog of    *)
(* the layout and its event, and the effect that decrypts.  A conversation *)
(* key is known by its version, which grows with each rotation; a private  *)
(* key opens all of them (`right`) or none (`old`: it was replaced on      *)
(* another device).                                                        *)
(***************************************************************************)
EXTENDS Naturals, Sequences

CONSTANTS
    MaxRotations,  \* bound on the versions of the conversation key
    Submits        \* submissions of a PIN, as many at a time

ASSUME MaxRotationsAssumption == MaxRotations \in Nat \ {0}
ASSUME SubmitsAssumption == Submits \cap {"effect", "event"} = {}

VARIABLES
    current,     \* version of conversations.encryptedKeys
    listed,      \* the version in conversationsData; 0: not loaded
    privateKey,  \* in the localStorage of the device
    symmetricKey,\* of the page; 0 is null
    pendingKeys, \* pendingEncryptedKeys of the page; 0 is null
    deriving,    \* calls of decryptConversationKey under way, in their order
    pin,         \* of a submission under way: whose dialog it is of, and for the page's the
                 \* pendingEncryptedKeys that handlePinSubmit was made with
    dialog,      \* the PIN dialogs that are open
    loadedUnder, \* versions under which the messages of messagesData are encrypted
    opening,     \* runs of tryDecryptMessageContent under way: their key
    opened,      \* versions whose messages are in decryptedContentMap
    heldOld,     \* the page was opened with an old private key (history)
    newerList,   \* a list arrived while a PIN was checked, or after the keys it opens (history)
    behind       \* the private key was stored without this page being told (history)

keyVars == <<current, listed, privateKey, symmetricKey, pendingKeys, deriving, pin, dialog,
             loadedUnder, opening, opened, heldOld, newerList, behind>>

Rotations == 1 .. MaxRotations
NoPin     == [of |-> "none", keys |-> 0]

KeyTypeOK ==
    /\ current \in Rotations /\ listed \in 0 .. current
    /\ privateKey \in {"none", "old", "right"}
    /\ symmetricKey \in 0 .. current /\ pendingKeys \in 0 .. current
    /\ deriving \in Seq([keys : Rotations, with : {"old", "right"}, by : {"effect", "event"} \cup Submits])
    /\ pin \in [Submits -> [of : {"none", "page", "layout"}, keys : 0 .. current]]
    /\ dialog \subseteq {"page", "layout"}
    /\ loadedUnder \subseteq Rotations /\ opening \subseteq Rotations /\ opened \subseteq Rotations
    /\ heldOld \in BOOLEAN /\ newerList \in BOOLEAN /\ behind \in BOOLEAN

\* The layout asks for the PIN when the device has no key and there is a backup.
KeyInit ==
    /\ current = 1 /\ listed = 0
    /\ privateKey \in {"none", "old", "right"}
    /\ dialog = (IF privateKey = "none" THEN {"layout"} ELSE {})
    /\ symmetricKey = 0 /\ pendingKeys = 0 /\ deriving = << >> /\ pin = [h \in Submits |-> NoPin]
    /\ loadedUnder = {} /\ opening = {} /\ opened = {}
    /\ heldOld = (privateKey = "old") /\ newerList = FALSE /\ behind = FALSE

--------------------------------------------------------------------------------

\* The members change (rotateGroupKey).
RotateKey ==
    /\ current < MaxRotations
    /\ current' = current + 1
    /\ UNCHANGED <<listed, privateKey, symmetricKey, pendingKeys, deriving, pin, dialog, loadedUnder,
                   opening, opened, heldOld, newerList, behind>>

Derive(k, with, by) == Append(deriving, [keys |-> k, with |-> with, by |-> by])

\* The effect of conversationsData for the version k.
KeyEffect(k) ==
    IF privateKey # "none"
    THEN deriving' = Derive(k, privateKey, "effect") /\ UNCHANGED pendingKeys
    ELSE pendingKeys' = k /\ UNCHANGED deriving

\* The list of conversations arrives, or arrives changed.
ListArrives ==
    /\ listed # current
    /\ listed' = current
    /\ KeyEffect(current)
    /\ newerList' = (newerList \/ \E h \in Submits : pin[h].of = "page")
    /\ UNCHANGED <<current, privateKey, symmetricKey, pin, dialog, loadedUnder, opening, opened, heldOld, behind>>

\* The effect of symmetricKey and messagesData.
OpenEffect(key, versions) ==
    opening' = IF key # 0 /\ versions # {} THEN opening \cup {key} ELSE opening

SetKey(d) ==
    /\ symmetricKey' = IF d.with = "right" THEN d.keys ELSE symmetricKey
    /\ OpenEffect(symmetricKey', loadedUnder)

\* decryptConversationKey: null for an old private key, and that is not an error; the page
\* does nothing then.
KeyDerived ==
    LET d == Head(deriving) IN
    /\ deriving # << >>
    /\ deriving' = Tail(deriving)
    /\ SetKey(d)
    /\ pendingKeys' = IF d.by = "event" /\ d.with = "right" THEN 0 ELSE pendingKeys
    /\ dialog' = IF d.by \in Submits THEN dialog \ {"page"} ELSE dialog
    /\ UNCHANGED <<current, listed, privateKey, pin, loadedUnder, opened, heldOld, newerList, behind>>

\* "Enter PIN to decrypt", shown beside encrypted messages without a key.
OpenPinDialog ==
    /\ symmetricKey = 0 /\ loadedUnder # {} /\ "page" \notin dialog
    /\ dialog' = dialog \cup {"page"}
    /\ UNCHANGED <<current, listed, privateKey, symmetricKey, pendingKeys, deriving, pin, loadedUnder,
                   opening, opened, heldOld, newerList, behind>>

CancelPinDialog(x) ==
    /\ x \in dialog
    /\ dialog' = dialog \ {x}
    /\ UNCHANGED <<current, listed, privateKey, symmetricKey, pendingKeys, deriving, pin, loadedUnder,
                   opening, opened, heldOld, newerList, behind>>

\* handlePinSubmit, with the pendingEncryptedKeys of the render it was made in: it gets the
\* backup and unwraps it.  Enter submits again while it runs, and closing the dialog does
\* not end it.
HandlePinSubmit(h) ==
    /\ "page" \in dialog /\ pin[h] = NoPin /\ \A i \in DOMAIN deriving : deriving[i].by # h
    /\ pin' = [pin EXCEPT ![h] = [of |-> "page", keys |-> pendingKeys]]
    /\ newerList' = (newerList \/ pendingKeys \notin {0, listed})
    /\ UNCHANGED <<current, listed, privateKey, symmetricKey, pendingKeys, deriving, dialog, loadedUnder,
                   opening, opened, heldOld, behind>>

\* handlePinRestore of the layout.
HandlePinRestore(h) ==
    /\ "layout" \in dialog /\ pin[h] = NoPin
    /\ pin' = [pin EXCEPT ![h] = [of |-> "layout", keys |-> 0]]
    /\ UNCHANGED <<current, listed, privateKey, symmetricKey, pendingKeys, deriving, dialog, loadedUnder,
                   opening, opened, heldOld, newerList, behind>>

\* No backup, a failed call or a wrong PIN.
PinFails(h) ==
    /\ pin[h] # NoPin
    /\ pin' = [pin EXCEPT ![h] = NoPin]
    /\ UNCHANGED <<current, listed, privateKey, symmetricKey, pendingKeys, deriving, dialog, loadedUnder,
                   opening, opened, heldOld, newerList, behind>>

\* The page has unwrapped the backup: the key is stored, and used if there were keys to open.
PinIsRight(h) ==
    /\ pin[h].of = "page"
    /\ privateKey' = "right"
    /\ pin' = [pin EXCEPT ![h] = NoPin]
    /\ IF pin[h].keys # 0
       THEN deriving' = Derive(pin[h].keys, "right", h) /\ UNCHANGED dialog
       ELSE dialog' = dialog \ {"page"} /\ UNCHANGED deriving
    /\ UNCHANGED <<current, listed, symmetricKey, pendingKeys, loadedUnder, opening, opened, heldOld,
                   newerList, behind>>

\* The layout has, and tells the page, which listens to kalam-key-restored.
KeyRestored(h) ==
    /\ pin[h].of = "layout"
    /\ privateKey' = "right"
    /\ pin' = [pin EXCEPT ![h] = NoPin]
    /\ dialog' = dialog \ {"layout"}
    /\ deriving' = IF pendingKeys # 0 THEN Derive(pendingKeys, "right", "event") ELSE deriving
    /\ newerList' = (newerList \/ pendingKeys \notin {0, listed})
    /\ UNCHANGED <<current, listed, symmetricKey, pendingKeys, loadedUnder, opening, opened, heldOld, behind>>

\* The handlePinSubmit of a page that was left, or of another tab: this page hears nothing.
RestoredElsewhere ==
    /\ privateKey # "right"
    /\ privateKey' = "right" /\ behind' = TRUE
    /\ UNCHANGED <<current, listed, symmetricKey, pendingKeys, deriving, pin, dialog, loadedUnder,
                   opening, opened, heldOld, newerList>>

\* The query of the messages answers, with messages of every version.
MessagesArrive ==
    /\ loadedUnder # 1 .. current
    /\ loadedUnder' = 1 .. current
    /\ OpenEffect(symmetricKey, loadedUnder')
    /\ UNCHANGED <<current, listed, privateKey, symmetricKey, pendingKeys, deriving, pin, dialog, opened,
                   heldOld, newerList, behind>>

\* tryDecryptMessageContent is null for the messages of another version.
MessagesOpened(k) ==
    /\ k \in opening
    /\ opening' = opening \ {k}
    /\ opened' = opened \cup ({k} \cap loadedUnder)
    /\ UNCHANGED <<current, listed, privateKey, symmetricKey, pendingKeys, deriving, pin, dialog, loadedUnder,
                   heldOld, newerList, behind>>

\* The page is left and opened again, whatever is under way: calls of the page that was left
\* find nobody, but for a private key that they store (RestoredElsewhere); the answers of the
\* queries are still there.
ReopenPage ==
    /\ symmetricKey' = 0 /\ opening' = {} /\ opened' = {}
    /\ heldOld' = (privateKey = "old") /\ newerList' = FALSE /\ behind' = FALSE
    /\ dialog' = dialog \ {"page"}
    /\ pin' = [h \in Submits |-> IF pin[h].of = "page" THEN NoPin ELSE pin[h]]
    /\ pendingKeys' = IF privateKey = "none" THEN listed ELSE 0
    /\ deriving' = IF privateKey = "none" \/ listed = 0 THEN << >>
                   ELSE <<[keys |-> listed, with |-> privateKey, by |-> "effect"]>>
    /\ UNCHANGED <<current, listed, privateKey, loadedUnder>>

KeyNext ==
    \/ RotateKey \/ ListArrives \/ KeyDerived \/ OpenPinDialog \/ RestoredElsewhere \/ MessagesArrive \/ ReopenPage
    \/ \E h \in Submits : HandlePinSubmit(h) \/ HandlePinRestore(h) \/ PinFails(h) \/ PinIsRight(h) \/ KeyRestored(h)
    \/ \E x \in dialog : CancelPinDialog(x)
    \/ \E k \in Rotations : MessagesOpened(k)

KeySpec == KeyInit /\ [][KeyNext]_keyVars

--------------------------------------------------------------------------------
AtRest == deriving = << >> /\ opening = {} /\ \A h \in Submits : pin[h] = NoPin

\* A device that has the private key has the key of the conversation as the list has it,
\* whichever dialog restored it, how often it was submitted and whenever the list arrived,
\* unless the page was opened with an old key or a list arrived while a PIN was checked, or
\* after the keys that the PIN opens (pendingEncryptedKeys is not renewed by a list that
\* derives its key).  A page that was not told of the private key still has the keys of the
\* list, which its PIN dialog opens.
KeyIsFound ==
    AtRest /\ privateKey = "right" /\ listed # 0 /\ ~heldOld /\ ~newerList
    => symmetricKey = listed \/ (behind /\ symmetricKey = 0 /\ pendingKeys = listed)

\* What was loaded is opened with the key of the page, in whichever order the two came.
LoadedIsOpened == AtRest /\ symmetricKey \in loadedUnder => symmetricKey \in opened

ConversationKeyInv == KeyTypeOK /\ KeyIsFound /\ LoadedIsOpened

\* Not kept by the code (README.md, section 3): "Derivation failed - store encrypted keys so
\* the PIN banner can re-trigger": an old key derives null, which is not a failure, and the
\* right PIN then opens nothing.
PinOpensMessages ==
    AtRest /\ privateKey = "right" /\ listed # 0 /\ ~newerList => symmetricKey # 0

\* Not kept by the code (README.md, section 3): "Store locally so future sessions skip the
\* PIN modal": a page that is opened while the PIN is checked asks for it again.
RestoredIsUsed ==
    AtRest /\ privateKey = "right" /\ listed # 0 /\ ~heldOld /\ ~newerList => symmetricKey = listed

\* Not kept by the code (README.md, section 3): the page uses the newest key that it has.
KeyIsOfTheList == AtRest /\ privateKey = "right" /\ ~heldOld /\ symmetricKey # 0 => symmetricKey = listed

================================================================================
