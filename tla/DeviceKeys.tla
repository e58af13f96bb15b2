---- MODULE DeviceKeys ----
(***************************************************************************)
(* The key pair with which one user opens conversation keys: the public key*)
(* and the PIN-wrapped backup in `users` (WalletService), the private key  *)
(* in the localStorage of each device, and the places of the web client    *)
(* that move it: the layout of the app at login, the settings page, and the*)
(* PIN dialogs of the layout and of the chat page.  A key pair is known by its version; 0 is no key.  *)
(***************************************************************************)
EXTENDS Naturals

CONSTANTS
    Devices,
    MaxKeys        \* bound on the key pairs that are made

ASSUME MaxKeysAssumption == MaxKeys \in Nat \ {0}

VARIABLES
    public,     \* users.encryptionPublicKey
    backup,     \* users.encryptedPrivateKeyBackup
    made,       \* key pairs made so far
    local,      \* the private key in the localStorage of each device
    request,    \* the call of ensureEncryptionKey or getKeyBackup under way
    restore,    \* pendingBackup of the layout: the PIN dialog is open
    toWrap,     \* pendingPrivateKey of the settings page: the PIN set-up is open
    shown,      \* walletStatus as the settings page has it
    overtaken   \* requests that saw no key, when one was stored since (history)

kvars == <<public, backup, made, local, request, restore, toWrap, shown, overtaken>>

Versions  == 0 .. MaxKeys
NoRequest == [at |-> "none", force |-> FALSE, from |-> "layout", key |-> 0]

KeysTypeOK ==
    /\ public \in Versions /\ backup \in Versions /\ made \in Versions
    /\ local \in [Devices -> Versions]
    /\ request \in [Devices -> [at : {"none", "read", "write", "made", "exists"}, force : BOOLEAN,
                                from : {"layout", "settings"}, key : Versions]]
    /\ restore \in [Devices -> Versions] /\ toWrap \in [Devices -> Versions]
    /\ shown \in [Devices -> [hasKey : BOOLEAN, hasBackup : BOOLEAN, open : BOOLEAN]]
    /\ overtaken \subseteq Devices

\* createWallet stores a public key and drops the private one; accounts that are older
\* than that have no key.
KeysInit ==
    /\ made \in {0, 1} /\ public = made
    /\ backup = 0
    /\ local = [d \in Devices |-> 0]
    /\ request = [d \in Devices |-> NoRequest]
    /\ restore = [d \in Devices |-> 0] /\ toWrap = [d \in Devices |-> 0]
    /\ shown = [d \in Devices |-> [hasKey |-> FALSE, hasBackup |-> FALSE, open |-> FALSE]]
    /\ overtaken = {}

--------------------------------------------------------------------------------

Ask(d, force, from) ==
    /\ request[d] = NoRequest
    /\ request' = [request EXCEPT ![d] = [at |-> "read", force |-> force, from |-> from, key |-> 0]]

\* AppLayout: a device without a private key asks for one at login.
Login(d) ==
    /\ local[d] = 0
    /\ Ask(d, FALSE, "layout")
    /\ UNCHANGED <<public, backup, made, local, restore, toWrap, shown, overtaken>>

OpenSettings(d) ==
    /\ shown' = [shown EXCEPT ![d] = [hasKey |-> public # 0, hasBackup |-> backup # 0, open |-> TRUE]]
    /\ UNCHANGED <<public, backup, made, local, request, restore, toWrap, overtaken>>

\* "Generate Key".
GenerateKey(d) ==
    /\ shown[d].open /\ ~shown[d].hasKey
    /\ Ask(d, FALSE, "settings")
    /\ UNCHANGED <<public, backup, made, local, restore, toWrap, shown, overtaken>>

\* "Set Backup PIN": the local key is wrapped, or else a new one is forced.
SetBackupPin(d) ==
    /\ shown[d].open /\ shown[d].hasKey /\ ~shown[d].hasBackup
    /\ IF local[d] # 0
       THEN toWrap' = [toWrap EXCEPT ![d] = local[d]] /\ UNCHANGED request
       ELSE Ask(d, TRUE, "settings") /\ UNCHANGED toWrap
    /\ UNCHANGED <<public, backup, made, local, restore, shown, overtaken>>

(* WalletService.ensureEncryptionKey: find, then update *)

\* A slip: a key that exists is not looked for.
ReadNothing(d) ==
    /\ request[d].at = "read"
    /\ request' = [request EXCEPT ![d].at = "write"]
    /\ UNCHANGED <<public, backup, made, local, restore, toWrap, shown, overtaken>>

ReadUser(d) ==
    /\ request[d].at = "read"
    /\ request' = [request EXCEPT ![d].at = IF public # 0 /\ ~request[d].force THEN "exists" ELSE "write"]
    /\ UNCHANGED <<public, backup, made, local, restore, toWrap, shown, overtaken>>

MakeKey(d) ==
    /\ request[d].at = "write" /\ made < MaxKeys
    /\ made' = made + 1
    /\ public' = made + 1
    /\ backup' = 0
    /\ request' = [request EXCEPT ![d].at = "made", ![d].key = made + 1]
    /\ overtaken' = (overtaken \ {d}) \cup {e \in Devices \ {d} : request[e].at = "write"}
    /\ UNCHANGED <<local, restore, toWrap, shown>>

\* The client stores the private key it was sent; the settings page asks for a PIN.
StoreNewKey(d) ==
    LET r == request[d] IN
    /\ r.at = "made"
    /\ local' = [local EXCEPT ![d] = r.key]
    /\ toWrap' = IF r.from = "settings" THEN [toWrap EXCEPT ![d] = r.key] ELSE toWrap
    /\ shown' = IF r.from = "settings" /\ ~r.force
                THEN [shown EXCEPT ![d].hasKey = TRUE, ![d].hasBackup = FALSE] ELSE shown
    /\ request' = [request EXCEPT ![d] = NoRequest]
    /\ UNCHANGED <<public, backup, made, restore, overtaken>>

\* The key exists: the layout gets the backup and asks for the PIN, if there is one.
FetchBackup(d) ==
    LET r == request[d] IN
    /\ r.at = "exists"
    /\ restore' = IF r.from = "layout" /\ backup # 0 THEN [restore EXCEPT ![d] = backup] ELSE restore
    /\ shown' = IF r.from = "settings"
                THEN [shown EXCEPT ![d].hasKey = TRUE, ![d].hasBackup = FALSE] ELSE shown
    /\ request' = [request EXCEPT ![d] = NoRequest]
    /\ UNCHANGED <<public, backup, made, local, toWrap, overtaken>>

\* The answer is lost: with a new key, the private half is gone.
LoseAnswer(d) ==
    /\ request[d].at \in {"made", "exists"}
    /\ request' = [request EXCEPT ![d] = NoRequest]
    /\ UNCHANGED <<public, backup, made, local, restore, toWrap, shown, overtaken>>

(* The PIN dialogs *)

\* handlePinRestore of the layout, with the right PIN (a wrong one changes nothing).
PinRestore(d) ==
    /\ restore[d] # 0
    /\ local' = [local EXCEPT ![d] = restore[d]]
    /\ restore' = [restore EXCEPT ![d] = 0]
    /\ UNCHANGED <<public, backup, made, request, toWrap, shown, overtaken>>

\* handlePinSubmit of the chat page gets the backup when the PIN is submitted.
PinSubmit(d) ==
    /\ backup # 0
    /\ local' = [local EXCEPT ![d] = backup]
    /\ UNCHANGED <<public, backup, made, request, restore, toWrap, shown, overtaken>>

\* handlePinSet and storeKeyBackup.
PinSet(d) ==
    /\ toWrap[d] # 0
    /\ backup' = toWrap[d]
    /\ toWrap' = [toWrap EXCEPT ![d] = 0]
    /\ shown' = [shown EXCEPT ![d].hasBackup = TRUE]
    /\ UNCHANGED <<public, made, local, request, restore, overtaken>>

\* The browser's data is cleared, or the dialogs are closed.
Forget(d) ==
    /\ local' \in {local, [local EXCEPT ![d] = 0]}
    /\ restore' = [restore EXCEPT ![d] = 0]
    /\ toWrap' = [toWrap EXCEPT ![d] = 0]
    /\ UNCHANGED <<public, backup, made, request, shown, overtaken>>

KeysNext ==
    \E d \in Devices :
        \/ Login(d) \/ OpenSettings(d) \/ GenerateKey(d) \/ SetBackupPin(d)
        \/ ReadUser(d) \/ MakeKey(d) \/ StoreNewKey(d) \/ FetchBackup(d) \/ LoseAnswer(d)
        \/ PinRestore(d) \/ PinSubmit(d) \/ PinSet(d) \/ Forget(d)

KeysSpec == KeysInit /\ [][KeysNext]_kvars

--------------------------------------------------------------------------------

Outdated(k) == k # 0 /\ k # public

\* What the client may still be holding of an older key pair.
Held(d) == {local[d], toWrap[d], restore[d]} \cup (IF request[d].at = "made" THEN {request[d].key} ELSE {})

\* The backup stops opening what the public key locks only when a device that holds an
\* older key stores that one: never by the server, and never by a device that has the
\* current key.
BackupSpoiltByOldDevice ==
    [][~Outdated(backup) /\ backup' # 0 /\ backup' # public'
       => \E d \in Devices : Outdated(toWrap[d]) /\ toWrap'[d] = 0]_kvars

\* A key in use is replaced by "Set Backup PIN" on a device that lacks it, or by a
\* request that had seen no key before it was stored; a login never replaces one.
KeyReplacedOnlyByForce ==
    [][public # 0 /\ public' # public
       => \E d \in Devices : /\ request[d].at = "write" /\ request'[d].at = "made"
                             /\ request[d].force \/ d \in overtaken]_kvars

\* The key pair is replaced, and its backup spoilt, by nothing but what is named above.
KeySafety == []KeysTypeOK /\ BackupSpoiltByOldDevice /\ KeyReplacedOnlyByForce

\* Not kept by the code (README.md, section 3):
\* the backup restores the key others encrypt for.
BackupIsCurrent == backup \in {0, public}

\* Not kept by the code (README.md, section 3): "No local key, no DB key -> auto-generate
\* (first time setup)": somebody has the private half of the public key.  createWallet
\* stores a key whose private half it drops.
KeyIsHeld == public # 0 => backup = public \/ \E d \in Devices : public \in Held(d)

================================================================================
