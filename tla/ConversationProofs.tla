---- MODULE ConversationProofs ----
(***************************************************************************)
(* Proofs that the properties of ConversationMembership,                   *)
(* DirectConversations and DeviceKeys, and what is said of the pages of    *)
(* Broadcasts, ConversationKey and TypingIndicator, hold for every number  *)
(* of accounts, handlers, creations, devices, keys, channels, texts,       *)
(* loads, rotations, rooms and events.                                     *)
(***************************************************************************)
EXTENDS MCConversations, FiniteSetTheorems, WellFoundedInduction, TLAPS

--------------------------------------------------------------------------------
(* The key pair of a user (DeviceKeys) *)

\* Who is about to write a key over another one was told to, or has been overtaken.
WriteInv == \A d \in Devices : request[d].at = "write" /\ public # 0 => request[d].force \/ d \in overtaken

LEMMA KeysTypeStep == KeysTypeOK /\ [KeysNext]_kvars => KeysTypeOK'
  <1> SUFFICES ASSUME KeysTypeOK, [KeysNext]_kvars PROVE KeysTypeOK'
    OBVIOUS
  <1>0. 0 \in Versions
    BY MaxKeysAssumption DEF Versions
  <1> DEFINE Req == [at : {"none", "read", "write", "made", "exists"}, force : BOOLEAN,
                     from : {"layout", "settings"}, key : Versions]
             Page == [hasKey : BOOLEAN, hasBackup : BOOLEAN, open : BOOLEAN]
  <1>1. ASSUME NEW d \in Devices, Login(d) \/ GenerateKey(d) \/ SetBackupPin(d)
        PROVE  KeysTypeOK'
    <2>1. request' \in [Devices -> Req]
      <3>1. \A force \in BOOLEAN, from \in {"layout", "settings"} :
               [at |-> "read", force |-> force, from |-> from, key |-> 0] \in Req
        BY <1>0
      <3>2. ASSUME NEW force \in BOOLEAN, NEW from \in {"layout", "settings"}, Ask(d, force, from)
            PROVE  request' \in [Devices -> Req]
        <4> DEFINE r == [at |-> "read", force |-> force, from |-> from, key |-> 0]
        <4>1. r \in Req /\ request' = [request EXCEPT ![d] = r]
          BY <3>1, <3>2 DEF Ask
        <4> HIDE DEF r, Req
        <4>2. request \in [Devices -> Req]
          BY DEF KeysTypeOK, Req
        <4> QED BY <4>1, <4>2
      <3>3. request' = request \/ \E force \in BOOLEAN, from \in {"layout", "settings"} : Ask(d, force, from)
        BY <1>1 DEF Login, GenerateKey, SetBackupPin
      <3> QED BY <3>2, <3>3 DEF KeysTypeOK
    <2>2. toWrap' \in [Devices -> Versions]
      <3>1. local[d] \in Versions
        BY DEF KeysTypeOK
      <3>2. toWrap' = toWrap \/ toWrap' = [toWrap EXCEPT ![d] = local[d]]
        BY <1>1 DEF Login, GenerateKey, SetBackupPin
      <3> QED BY <3>1, <3>2 DEF KeysTypeOK
    <2>3. UNCHANGED <<public, backup, made, local, restore, shown, overtaken>>
      BY <1>1 DEF Login, GenerateKey, SetBackupPin
    <2> QED BY <2>1, <2>2, <2>3 DEF KeysTypeOK
  <1>2. ASSUME NEW d \in Devices, OpenSettings(d)
        PROVE  KeysTypeOK'
    BY <1>2 DEF OpenSettings, KeysTypeOK
  <1>3. ASSUME NEW d \in Devices, ReadUser(d)
        PROVE  KeysTypeOK'
    <2>1. PICK s \in {"exists", "write"} : request' = [request EXCEPT ![d] = [request[d] EXCEPT !.at = s]]
      BY <1>3 DEF ReadUser, KeysTypeOK
    <2>2. [request[d] EXCEPT !.at = s] \in Req
      BY DEF KeysTypeOK
    <2>3. request' \in [Devices -> Req]
      BY <2>1, <2>2 DEF KeysTypeOK
    <2> QED BY <1>3, <2>3 DEF ReadUser, KeysTypeOK
  <1>4. ASSUME NEW d \in Devices, MakeKey(d)
        PROVE  KeysTypeOK'
    <2>1. PICK k \in Versions : k = made + 1
      BY <1>4 DEF MakeKey, KeysTypeOK, Versions
    <2>2. request' = [request EXCEPT ![d] = [request[d] EXCEPT !.at = "made", !.key = k]]
      BY <1>4, <2>1 DEF MakeKey, KeysTypeOK
    <2>3. request' \in [Devices -> Req]
      <3>1. [request[d] EXCEPT !.at = "made", !.key = k] \in Req
        <4>1. PICK q \in Req : q = request[d]
          BY DEF KeysTypeOK
        <4> QED BY <2>1, <4>1
      <3> QED BY <2>2, <3>1 DEF KeysTypeOK
    <2> QED BY <1>0, <1>4, <2>1, <2>3 DEF MakeKey, KeysTypeOK
  <1>5. ASSUME NEW d \in Devices, StoreNewKey(d) \/ FetchBackup(d) \/ LoseAnswer(d)
        PROVE  KeysTypeOK'
    <2>1. request' \in [Devices -> Req]
      <3>1. NoRequest \in Req
        BY <1>0 DEF NoRequest
      <3>2. request' = [request EXCEPT ![d] = NoRequest]
        BY <1>5 DEF StoreNewKey, FetchBackup, LoseAnswer
      <3> QED BY <3>1, <3>2 DEF KeysTypeOK
    <2>2. shown' \in [Devices -> Page]
      <3>1. shown' \in {shown, [shown EXCEPT ![d].hasKey = TRUE, ![d].hasBackup = FALSE]}
        BY <1>5 DEF StoreNewKey, FetchBackup, LoseAnswer
      <3>2. PICK p \in Page : p = [hasKey |-> TRUE, hasBackup |-> FALSE, open |-> shown[d].open]
        BY DEF KeysTypeOK
      <3>3. shown' = shown \/ shown' = [shown EXCEPT ![d] = p]
        BY <3>1, <3>2 DEF KeysTypeOK
      <3> QED BY <3>3 DEF KeysTypeOK
    <2>3. request[d].key \in Versions /\ backup \in Versions
      BY DEF KeysTypeOK
    <2>4. /\ local' = local \/ local' = [local EXCEPT ![d] = request[d].key]
          /\ toWrap' = toWrap \/ toWrap' = [toWrap EXCEPT ![d] = request[d].key]
          /\ restore' = restore \/ restore' = [restore EXCEPT ![d] = backup]
          /\ UNCHANGED <<public, backup, made, overtaken>>
      BY <1>5 DEF StoreNewKey, FetchBackup, LoseAnswer
    <2>5. local' \in [Devices -> Versions] /\ toWrap' \in [Devices -> Versions] /\ restore' \in [Devices -> Versions]
      BY <2>3, <2>4 DEF KeysTypeOK
    <2> QED BY <2>1, <2>2, <2>4, <2>5 DEF KeysTypeOK
  <1>6. ASSUME NEW d \in Devices, PinRestore(d) \/ PinSubmit(d) \/ PinSet(d) \/ Forget(d)
        PROVE  KeysTypeOK'
    <2>1. shown' \in [Devices -> Page]
      <3>1. [shown[d] EXCEPT !.hasBackup = TRUE] \in Page
        BY DEF KeysTypeOK
      <3>2. shown' = shown \/ shown' = [shown EXCEPT ![d] = [shown[d] EXCEPT !.hasBackup = TRUE]]
        BY <1>6 DEF PinRestore, PinSubmit, PinSet, Forget, KeysTypeOK
      <3> QED BY <3>1, <3>2 DEF KeysTypeOK
    <2>2. local' \in [Devices -> Versions] /\ restore' \in [Devices -> Versions] /\ toWrap' \in [Devices -> Versions]
      <3>1. /\ local' = local \/ \E k \in Versions : local' = [local EXCEPT ![d] = k]
            /\ restore' = restore \/ restore' = [restore EXCEPT ![d] = 0]
            /\ toWrap' = toWrap \/ toWrap' = [toWrap EXCEPT ![d] = 0]
        BY <1>0, <1>6 DEF PinRestore, PinSubmit, PinSet, Forget, KeysTypeOK
      <3>2. local' \in [Devices -> Versions]
        BY <3>1 DEF KeysTypeOK
      <3>3. restore' \in [Devices -> Versions]
        BY <1>0, <3>1 DEF KeysTypeOK
      <3>4. toWrap' \in [Devices -> Versions]
        BY <1>0, <3>1 DEF KeysTypeOK
      <3> QED BY <3>2, <3>3, <3>4
    <2>3. backup' \in Versions /\ UNCHANGED <<public, made, request, overtaken>>
      BY <1>6 DEF PinRestore, PinSubmit, PinSet, Forget, KeysTypeOK
    <2> QED BY <2>1, <2>2, <2>3 DEF KeysTypeOK
  <1>7. CASE UNCHANGED kvars
    BY <1>7 DEF kvars, KeysTypeOK
  <1> QED BY <1>1, <1>2, <1>3, <1>4, <1>5, <1>6, <1>7 DEF KeysNext

LEMMA WriteStep == KeysTypeOK /\ WriteInv /\ [KeysNext]_kvars => WriteInv'
  <1> SUFFICES ASSUME KeysTypeOK, WriteInv, [KeysNext]_kvars PROVE WriteInv'
    OBVIOUS
  <1> USE DEF KeysTypeOK, WriteInv
  <1>1. ASSUME NEW d \in Devices, Login(d) \/ GenerateKey(d) \/ SetBackupPin(d)
        PROVE  WriteInv'
    <2>1. UNCHANGED <<public, overtaken>> /\ (request' = request \/ \E r : r.at = "read" /\ request' = [request EXCEPT ![d] = r])
      BY <1>1 DEF Login, GenerateKey, SetBackupPin, Ask
    <2> QED BY <2>1
  <1>2. ASSUME NEW d \in Devices, ReadUser(d) \/ LoseAnswer(d) \/ StoreNewKey(d) \/ FetchBackup(d)
        PROVE  WriteInv'
    <2>1. UNCHANGED <<public, overtaken>> /\ \A e \in Devices \ {d} : request'[e] = request[e]
      BY <1>2 DEF ReadUser, LoseAnswer, StoreNewKey, FetchBackup
    <2>2. CASE ReadUser(d)
      <3>1. request'[d].force = request[d].force /\ (request'[d].at = "write" => public = 0 \/ request[d].force)
        BY <2>2 DEF ReadUser
      <3> QED BY <2>1, <3>1
    <2>3. CASE request'[d].at = "none"
      BY <2>1, <2>3
    <2>4. ReadUser(d) \/ request'[d].at = "none"
      BY <1>2 DEF LoseAnswer, StoreNewKey, FetchBackup, NoRequest
    <2> QED BY <2>2, <2>3, <2>4
  <1>3. ASSUME NEW d \in Devices, MakeKey(d)
        PROVE  WriteInv'
    BY <1>3 DEF MakeKey
  <1>4. CASE UNCHANGED <<request, public, overtaken>>
    BY <1>4
  <1> QED BY <1>1, <1>2, <1>3, <1>4 DEF KeysNext, OpenSettings, PinRestore, PinSubmit, PinSet, Forget, kvars

\* For any number of devices and keys, the key pair is replaced only by force or by a request
\* that was overtaken, and its backup spoilt only by a device with an older key.
THEOREM KeySafetyHolds == KeysSpec => KeySafety
  <1>1. KeysInit => KeysTypeOK /\ WriteInv
    BY MaxKeysAssumption DEF KeysInit, KeysTypeOK, WriteInv, Versions, NoRequest
  <1>2. KeysTypeOK /\ WriteInv /\ [KeysNext]_kvars => (KeysTypeOK /\ WriteInv)'
    BY KeysTypeStep, WriteStep
  <1>3. KeysTypeOK /\ [KeysNext]_kvars =>
           [~Outdated(backup) /\ backup' # 0 /\ backup' # public'
            => \E d \in Devices : Outdated(toWrap[d]) /\ toWrap'[d] = 0]_kvars
    <2> SUFFICES ASSUME KeysTypeOK, KeysNext, ~Outdated(backup), backup' # 0, backup' # public'
                 PROVE  \E d \in Devices : Outdated(toWrap[d]) /\ toWrap'[d] = 0
      OBVIOUS
    <2>1. PICK d \in Devices : PinSet(d)
      BY DEF KeysNext, Outdated, Login, OpenSettings, GenerateKey, SetBackupPin, ReadUser, MakeKey, StoreNewKey, FetchBackup,
         LoseAnswer, PinRestore, PinSubmit, Forget
    <2> QED BY <2>1 DEF PinSet, Outdated, KeysTypeOK
  <1>4. KeysTypeOK /\ WriteInv /\ [KeysNext]_kvars =>
           [public # 0 /\ public' # public
            => \E d \in Devices : /\ request[d].at = "write" /\ request'[d].at = "made"
                                  /\ request[d].force \/ d \in overtaken]_kvars
    <2> SUFFICES ASSUME KeysTypeOK, WriteInv, KeysNext, public # 0, public' # public
                 PROVE  \E d \in Devices : /\ request[d].at = "write" /\ request'[d].at = "made"
                                           /\ request[d].force \/ d \in overtaken
      OBVIOUS
    <2>1. PICK d \in Devices : MakeKey(d)
      BY DEF KeysNext, Login, OpenSettings, GenerateKey, SetBackupPin, ReadUser, PinSet, StoreNewKey, FetchBackup,
         LoseAnswer, PinRestore, PinSubmit, Forget
    <2> QED BY <2>1 DEF MakeKey, WriteInv, KeysTypeOK
  <1> QED BY <1>1, <1>2, <1>3, <1>4, PTL DEF KeysSpec, KeySafety, BackupSpoiltByOldDevice, KeyReplacedOnlyByForce

--------------------------------------------------------------------------------
(* The conversation of two users (DirectConversations) *)

Complete == saved \cap announced \cap topics

\* A creation has done what comes before its await, and whoever found nothing has met the
\* creation of what is there now.
CreationInv ==
    /\ \A c \in Creations : /\ stage[c] = "announce" => c \in topics
                            /\ stage[c] = "row" => c \in topics \cap announced
                            /\ stage[c] = "members" => c \in Complete
                            /\ inside[c] # {} => c \in Complete
    /\ \A b, c \in Creations : stage[b] \in Stages /\ stage[c] \in Stages /\ b # c => b \in crossed
    /\ \A c \in Creations : stage[c] \in {"topic", "announce", "row", "members"} /\ Shared # {} => c \in crossed

DirectInv == DirectTypeOK /\ CreationInv /\ FoundIsComplete

LEMMA CreationStep == DirectInv /\ [DirectNext]_dvars => DirectInv'
  <1> SUFFICES ASSUME DirectInv, [DirectNext]_dvars PROVE DirectInv'
    OBVIOUS
  <1> USE DEF DirectInv, DirectTypeOK, CreationInv, FoundIsComplete, Complete, Shared, Stages, To
  <1>0. Pair # {}
    BY PairAssumption, FS_EmptySet
  <1>1. ASSUME NEW c \in Creations, Begin(c)
        PROVE  DirectInv'
    BY <1>1 DEF Begin, Creating
  <1>2. ASSUME NEW c \in Creations, Find(c)
        PROVE  DirectInv'
    BY <1>0, <1>2 DEF Find
  <1>3. ASSUME NEW c \in Creations, NEW u \in Pair, Existing(c, u)
        PROVE  DirectInv'
    BY <1>3, PairAssumption DEF Existing
  <1>4. ASSUME NEW c \in Creations, CreateTopic(c) \/ Announce(c)
        PROVE  DirectInv'
    BY <1>4 DEF CreateTopic, Announce
  <1>5. ASSUME NEW c \in Creations, SaveRow(c)
        PROVE  DirectInv'
    BY <1>0, <1>5 DEF SaveRow
  <1>6. ASSUME NEW c \in Creations, SaveMembers(c)
        PROVE  DirectInv'
    BY <1>6, PairAssumption DEF SaveMembers
  <1>7. ASSUME NEW c \in Creations, Throw(c)
        PROVE  DirectInv'
    BY <1>7 DEF Throw
  <1>8. ASSUME NEW d \in saved, NEW u \in Pair, Leave(d, u)
        PROVE  DirectInv'
    BY <1>8 DEF Leave
  <1>9. CASE UNCHANGED dvars
    BY <1>9 DEF dvars
  <1> QED BY <1>1, <1>2, <1>3, <1>4, <1>5, <1>6, <1>7, <1>8, <1>9 DEF DirectNext

\* With any number of creations: what is found or answered is complete, and a second
\* conversation of the pair comes only from creations that overlapped.
THEOREM DirectSafetyHolds == DirectSpec => DirectSafety
  <1>1. DirectInit => DirectInv
    BY PairAssumption DEF DirectInit, DirectInv, DirectTypeOK, CreationInv, FoundIsComplete, Complete, Shared, Stages
  <1>2. DirectInv /\ [DirectNext]_dvars =>
           [\A c \in Creations : Shared # {} /\ inside[c] # Pair /\ inside'[c] = Pair => c \in crossed]_dvars
    <2> SUFFICES ASSUME DirectInv, DirectNext, NEW c \in Creations, Shared # {}, inside[c] # Pair, inside'[c] = Pair
                 PROVE  c \in crossed
      OBVIOUS
    <2>1. SaveMembers(c)
      BY DEF DirectInv, DirectTypeOK, DirectNext, Begin, Find, Existing, CreateTopic, Announce, SaveRow, SaveMembers, Throw, Leave
    <2> QED BY <2>1 DEF SaveMembers, DirectInv, CreationInv
  <1> QED BY <1>1, <1>2, CreationStep, PTL DEF DirectSpec, DirectSafety, SecondOnlyFromOverlap, DirectInv

--------------------------------------------------------------------------------
(* The members and the keys of a group (ConversationMembership) *)

Rotating(c) == call[c].op \in {"add", "remove", "leave"}

\* Handlers that run at the same time disturb each other.
DisturbInv == \A c, d \in Calls : pc[c] \in Awaits /\ pc[d] \in Awaits /\ c # d => c \in disturbed

\* What each await was given by the ones before.
MemberAwaitInv ==
    \A c \in Calls :
        /\ pc[c] \in {"check", "admins", "oldest", "promote", "member", "list", "submit"} => call[c].op # "sync"
        /\ pc[c] \in {"admins", "oldest", "promote", "member", "list", "submit"} => call[c].op # "send"
        /\ pc[c] \in {"admins", "oldest", "promote"} => call[c].op = "leave"
        /\ pc[c] \in Awaits /\ call[c].op \in {"leave", "send"} => call[c].by \in Accounts
        /\ pc[c] \in Awaits /\ call[c].op \in {"add", "remove"} => call[c].target \in Accounts
        /\ pc[c] = "promote" => call[c].next \in Accounts
        /\ pc[c] \in {"admins", "oldest", "promote", "member"} => call[c].row.active = (call[c].op = "add")

\* The row of the conversation is written as it was read, or with an exchange of the topic.
TopicInv ==
    /\ conv \in onTopic
    /\ \A c \in Calls : /\ pc[c] \in Awaits => call[c].snap \in onTopic
                        /\ pc[c] = "save" /\ Rotating(c) => Rotated(c) \in onTopic

\* Undisturbed, a handler still finds what it has read.
AloneInv ==
    \A c \in Calls \ disturbed :
        /\ pc[c] \in Awaits /\ ~Rotating(c) => call[c].snap = conv
        /\ pc[c] = "submit" \/ (pc[c] = "save" /\ Rotating(c)) => call[c].for = Active(member)
        /\ pc[c] = "member" /\ call[c].op = "add" => call[c].target \notin Active(member)
        /\ pc[c] = "promote" => call[c].next \in Active(member) \ {call[c].by}
        /\ pc[c] = "member" /\ call[c].op = "leave" /\ call[c].by \in Admins(member)
              => Admins(member) \ {call[c].by} # {} \/ Active(member) = {call[c].by}

\* Without overlaps and failures, the members that nobody is changing have the stored key.
SettledKeys ==
    disturbed = {} /\ failed = {} /\ Active(member) # {} =>
        \/ conv.for = Active(member)
        \/ \E c \in Calls : pc[c] \in {"list", "submit"} \/ (pc[c] = "save" /\ Rotating(c))

GroupInv == TypeOK /\ DisturbInv /\ MemberAwaitInv /\ TopicInv /\ AloneInv /\ SettledKeys

CallRec == [op : Ops, by : Accounts \cup {Nobody}, target : Accounts \cup {Nobody},
            next : Accounts \cup {Nobody}, snap : Exchange, row : Member, for : SUBSET Accounts]

LEMMA GroupTypeStep == TypeOK /\ MemberAwaitInv /\ [Next]_vars => TypeOK'
  <1> SUFFICES ASSUME TypeOK, MemberAwaitInv, [Next]_vars PROVE TypeOK'
    OBVIOUS
  <1>1. call \in [Calls -> CallRec] /\ conv \in Exchange /\ member \in [Accounts -> Member]
        /\ pc \in [Calls -> Awaits \cup {"idle", "done"}]
    BY DEF TypeOK, CallRec
  <1>2. NoCall \in CallRec
    BY FoundersAssumption DEF NoCall, CallRec, Ops, Exchange, Keys, Member, Stranger
  <1>3. SUFFICES ASSUME [Next]_vars
                 PROVE  /\ member' \in [Accounts -> Member] /\ conv' \in Exchange /\ onTopic' \subseteq Exchange
                        /\ call' \in [Calls -> CallRec] /\ pc' \in [Calls -> Awaits \cup {"idle", "done"}]
                        /\ disturbed' \subseteq Calls /\ failed' \subseteq Calls
    BY DEF TypeOK, CallRec
  <1>4. \A c \in Calls : Rotated(c) \in Exchange
    BY <1>1 DEF Rotated, CallRec, Exchange, Keys
  <1> DEFINE Goal == /\ member' \in [Accounts -> Member] /\ conv' \in Exchange /\ onTopic' \subseteq Exchange
                     /\ call' \in [Calls -> CallRec] /\ pc' \in [Calls -> Awaits \cup {"idle", "done"}]
                     /\ disturbed' \subseteq Calls /\ failed' \subseteq Calls
  <1>5. ASSUME NEW c \in Calls, NEW op \in Ops, NEW by \in Accounts \cup {Nobody}, NEW target \in Accounts \cup {Nobody},
               Load(c, op, by, target)
        PROVE  Goal
    <2>1. PICK k \in CallRec : k = [NoCall EXCEPT !.op = op, !.by = by, !.target = target, !.snap = conv]
      BY <1>1, <1>2 DEF CallRec
    <2>2. call' \in [Calls -> CallRec]
      BY <1>1, <1>5, <2>1 DEF Load
    <2> QED BY <1>1, <1>5, <2>2 DEF Load, Goto, TypeOK, Awaits, Running
  <1>6. ASSUME NEW c \in Calls, Check(c)
        PROVE  Goal
    <2>1. Joined \in Nat
      <3>1. IsFiniteSet({a \in Accounts \ Founders : member[a].role # "none"})
        BY AccountsAssumption, FS_Subset
      <3> QED BY <3>1, FS_CardinalityType DEF Joined
    <2>2. CASE call' = [call EXCEPT ![c].row = Changed(c)] /\ pc[c] = "check" /\ call[c].op # "send"
      <3>1. Changed(c) \in Member
        <4>1. CASE call[c].op = "add"
          <5>1. member[call[c].target] \in Member
            BY <1>1, <2>2, <4>1 DEF MemberAwaitInv, Awaits
          <5>2. PICK n \in Nat : n = IF member[call[c].target].role = "none" THEN Joined + 1 ELSE member[call[c].target].since
            BY <2>1, <5>1 DEF Member
          <5>3. Changed(c) = [role |-> "member", active |-> TRUE, since |-> n]
            BY <4>1, <5>2 DEF Changed, Entering
          <5> QED BY <5>3 DEF Member
        <4>2. CASE call[c].op # "add"
          <5>1. PICK a \in Accounts : Changed(c) = [member[a] EXCEPT !.active = FALSE]
            BY <1>1, <2>2, <4>2 DEF MemberAwaitInv, Awaits, Changed, Going, CallRec, Ops
          <5>2. member[a] \in Member
            BY <1>1
          <5> QED BY <5>1, <5>2 DEF Member
        <4> QED BY <4>1, <4>2
      <3>2. call' \in [Calls -> CallRec]
        BY <1>1, <2>2, <3>1 DEF CallRec
      <3> QED BY <1>1, <1>6, <3>2 DEF Check, Goto, End, TypeOK, Awaits
    <2>3. CASE call' = call \/ call' = [call EXCEPT ![c] = NoCall]
      <3>1. call' \in [Calls -> CallRec]
        BY <1>1, <1>2, <2>3
      <3> QED BY <1>1, <1>6, <3>1 DEF Check, Goto, End, TypeOK, Awaits
    <2> QED BY <1>6, <2>2, <2>3 DEF Check, Goto, End
  <1>7. ASSUME NEW c \in Calls, FindAdmins(c) \/ FindOldest(c)
        PROVE  Goal
    <2>1. call' \in [Calls -> CallRec]
      BY <1>1, <1>7 DEF FindAdmins, FindOldest, Oldest, Active, CallRec
    <2> QED BY <1>1, <1>7, <2>1 DEF FindAdmins, FindOldest, Goto, TypeOK, Awaits
  <1>8. ASSUME NEW c \in Calls, Promote(c)
        PROVE  Goal
    <2>1. member' \in [Accounts -> Member]
      BY <1>1, <1>8 DEF Promote, Member
    <2> QED BY <1>1, <1>8, <2>1 DEF Promote, Goto, TypeOK, Awaits
  <1>9. ASSUME NEW c \in Calls, SaveMember(c)
        PROVE  Goal
    <2>1. member' \in [Accounts -> Member]
      BY <1>1, <1>9 DEF SaveMember, CallRec
    <2> QED BY <1>1, <1>9, <2>1 DEF SaveMember, Goto, TypeOK, Awaits
  <1>10. ASSUME NEW c \in Calls, ListMembers(c)
         PROVE  Goal
    <2>1. call' \in [Calls -> CallRec]
      <3>1. Active(member) \in SUBSET Accounts
        BY DEF Active
      <3> QED BY <1>1, <1>2, <1>10, <3>1 DEF ListMembers, End, CallRec
    <2> QED BY <1>1, <1>10, <2>1 DEF ListMembers, Goto, End, TypeOK, Awaits
  <1>11. ASSUME NEW c \in Calls, Submit(c) \/ SaveConversation(c)
         PROVE  Goal
    <2>1. call' \in [Calls -> CallRec]
      BY <1>1, <1>2, <1>11 DEF Submit, SaveConversation, End
    <2>2. conv' \in Exchange
      BY <1>1, <1>4, <1>11 DEF Submit, SaveConversation, CallRec
    <2> QED BY <1>1, <1>4, <1>11, <2>1, <2>2 DEF Submit, SaveConversation, Goto, End, TypeOK, Awaits
  <1>12. CASE Crash
    BY <1>1, <1>2, <1>12 DEF Crash, Running, TypeOK
  <1>13. CASE UNCHANGED vars
    BY <1>1, <1>13 DEF vars, TypeOK
  <1> QED BY <1>5, <1>6, <1>7, <1>8, <1>9, <1>10, <1>11, <1>12, <1>13 DEF Next, Step, Ops

\* A handler that starts disturbs those that run, and is disturbed by them.
LEMMA DisturbStep == TypeOK /\ DisturbInv /\ [Next]_vars => DisturbInv' /\ disturbed \subseteq disturbed'
  <1> SUFFICES ASSUME TypeOK, DisturbInv, [Next]_vars PROVE DisturbInv' /\ disturbed \subseteq disturbed'
    OBVIOUS
  <1>1. ASSUME NEW c \in Calls, NEW op, NEW by, NEW target, Load(c, op, by, target)
        PROVE  DisturbInv' /\ disturbed \subseteq disturbed'
    BY <1>1 DEF Load, Goto, Running, TypeOK, DisturbInv
  <1>2. ASSUME UNCHANGED disturbed, \A c \in Calls : pc'[c] \in Awaits => pc[c] \in Awaits
        PROVE  DisturbInv' /\ disturbed \subseteq disturbed'
    BY <1>2 DEF DisturbInv
  <1>3. ASSUME NEW c \in Calls, Step(c)
        PROVE  UNCHANGED disturbed /\ pc[c] \in Awaits /\ \A d \in Calls \ {c} : pc'[d] = pc[d]
    BY <1>3 DEF Step, Check, FindAdmins, FindOldest, Promote, SaveMember, ListMembers, Submit, SaveConversation, Goto, End,
       TypeOK, Awaits
  <1>4. CASE Crash \/ UNCHANGED vars
    BY <1>2, <1>4 DEF Crash, vars, Awaits, TypeOK, Running
  <1>5. ASSUME NEW c \in Calls, Step(c)
        PROVE  DisturbInv' /\ disturbed \subseteq disturbed'
    BY <1>2, <1>3, <1>5
  <1> QED BY <1>1, <1>4, <1>5 DEF Next

\* A handler that runs is the only one that changes its own call and await.
LEMMA OthersWait ==
    ASSUME TypeOK, NEW c \in Calls, Step(c)
    PROVE  /\ pc[c] \in Awaits /\ UNCHANGED disturbed
           /\ \A d \in Calls \ {c} : pc'[d] = pc[d] /\ call'[d] = call[d]
  BY DEF Step, Check, FindAdmins, FindOldest, Promote, SaveMember, ListMembers, Submit, SaveConversation, Goto, End,
     TypeOK, Awaits

\* What MemberAwaitInv says of one handler.
Given(c) ==
    /\ pc[c] \in {"check", "admins", "oldest", "promote", "member", "list", "submit"} => call[c].op # "sync"
    /\ pc[c] \in {"admins", "oldest", "promote", "member", "list", "submit"} => call[c].op # "send"
    /\ pc[c] \in {"admins", "oldest", "promote"} => call[c].op = "leave"
    /\ pc[c] \in Awaits /\ call[c].op \in {"leave", "send"} => call[c].by \in Accounts
    /\ pc[c] \in Awaits /\ call[c].op \in {"add", "remove"} => call[c].target \in Accounts
    /\ pc[c] = "promote" => call[c].next \in Accounts
    /\ pc[c] \in {"admins", "oldest", "promote", "member"} => call[c].row.active = (call[c].op = "add")

LEMMA MemberAwaitStep == TypeOK /\ MemberAwaitInv /\ [Next]_vars => MemberAwaitInv'
  <1> SUFFICES ASSUME TypeOK, MemberAwaitInv, [Next]_vars PROVE MemberAwaitInv'
    OBVIOUS
  <1>1. \A c \in Calls : Given(c)
    BY DEF MemberAwaitInv, Given
  <1>2. SUFFICES ASSUME NEW d \in Calls PROVE Given(d)'
    BY DEF MemberAwaitInv, Given
  <1>3. ASSUME NEW c \in Calls, NEW op, NEW by, NEW target, Load(c, op, by, target), op \in Ops,
               op \in {"leave", "send"} => by \in Accounts, op \in {"add", "remove"} => target \in Accounts
        PROVE  Given(d)'
    BY <1>1, <1>3 DEF Load, Goto, NoCall, Given, TypeOK, Awaits, Ops
  <1>4. ASSUME NEW c \in Calls, Step(c)
        PROVE  Given(d)'
    <2>1. CASE d # c
      BY <1>1, <1>4, <2>1, OthersWait DEF Given
    <2>2. CASE d = c
      <3>1. Given(c) /\ pc \in [Calls -> Awaits \cup {"idle", "done"}]
        BY <1>1 DEF TypeOK
      <3>2. CASE Check(c)
        <4>1. CASE ~Allowed(c) \/ call[c].op = "send"
          BY <2>2, <3>1, <3>2, <4>1 DEF Check, Goto, End, Given, Awaits
        <4>2. CASE Allowed(c) /\ call[c].op # "send"
          <5>1. call'[c] = [call[c] EXCEPT !.row = Changed(c)] /\ pc'[c] \in {"admins", "member"}
                /\ (pc'[c] = "admins" => call[c].op = "leave")
            BY <3>1, <3>2, <4>2 DEF Check, Goto, TypeOK
          <5>2. Changed(c).active = (call[c].op = "add")
            <6>1. CASE call[c].op = "add"
              BY <6>1 DEF Changed, Entering
            <6>2. CASE call[c].op # "add"
              <7>1. PICK a \in Accounts : Changed(c) = [member[a] EXCEPT !.active = FALSE]
                BY <3>1, <3>2, <4>2, <6>2 DEF Check, Given, Awaits, Changed, Going, TypeOK, Ops
              <7>2. member[a] \in Member
                BY DEF TypeOK
              <7> QED BY <6>2, <7>1, <7>2 DEF Member
            <6> QED BY <6>1, <6>2
          <5>3. call'[c].row = Changed(c) /\ call'[c].op = call[c].op /\ call'[c].by = call[c].by
                /\ call'[c].target = call[c].target
            BY <5>1 DEF TypeOK
          <5>4. call'[c].row.active = (call'[c].op = "add")
            BY <5>2, <5>3
          <5>5. pc[c] = "check" /\ pc[c] \in Awaits
            BY <3>2 DEF Check, Awaits
          <5>6. Given(c)'
            BY <3>1, <4>2, <5>1, <5>3, <5>4, <5>5 DEF Given
          <5> QED BY <2>2, <5>6
        <4> QED BY <4>1, <4>2
      <3>3. CASE FindAdmins(c) \/ FindOldest(c)
        BY <2>2, <3>1, <3>3 DEF FindAdmins, FindOldest, Oldest, Active, Goto, Given, Awaits, TypeOK
      <3>4. CASE Promote(c) \/ SaveMember(c)
        BY <2>2, <3>1, <3>4 DEF Promote, SaveMember, Goto, Given, Awaits
      <3>5. CASE ListMembers(c) \/ Submit(c) \/ SaveConversation(c)
        BY <2>2, <3>1, <3>5 DEF ListMembers, Submit, SaveConversation, Goto, End, Given, Awaits, TypeOK
      <3> QED BY <1>4, <3>2, <3>3, <3>4, <3>5 DEF Step
    <2> QED BY <2>1, <2>2
  <1>5. CASE Crash
    BY <1>1, <1>5 DEF Crash, Running, Given, Awaits, TypeOK
  <1>6. CASE UNCHANGED vars
    BY <1>1, <1>6 DEF vars, Given
  <1> QED BY <1>3, <1>4, <1>5, <1>6 DEF Next, Ops

\* The stored key is one of the topic.
LEMMA TopicStep == TypeOK /\ TopicInv /\ [Next]_vars => TopicInv'
  <1> SUFFICES ASSUME TypeOK, TopicInv, [Next]_vars PROVE TopicInv'
    OBVIOUS
  <1> USE DEF TopicInv, Rotating, Rotated
  <1>1. ASSUME NEW c \in Calls, NEW op, NEW by, NEW target, Load(c, op, by, target)
        PROVE  TopicInv'
    BY <1>1 DEF Load, Goto, NoCall, TypeOK
  <1>2. ASSUME NEW c \in Calls, Check(c) \/ FindAdmins(c) \/ FindOldest(c) \/ Promote(c) \/ SaveMember(c) \/ ListMembers(c)
        PROVE  TopicInv'
    <2>1. /\ UNCHANGED <<conv, onTopic>> /\ pc[c] \in Awaits /\ \A d \in Calls \ {c} : pc'[d] = pc[d] /\ call'[d] = call[d]
      BY <1>2, OthersWait DEF Step, Check, FindAdmins, FindOldest, Promote, SaveMember, ListMembers
    <2>2. \/ pc'[c] = "done"
          \/ pc'[c] # "save" /\ call'[c].snap = call[c].snap
          \/ pc'[c] = "save" /\ call[c].op = "send" /\ call'[c] = call[c]
      BY <1>2 DEF Check, FindAdmins, FindOldest, Promote, SaveMember, ListMembers, Goto, End, TypeOK
    <2> QED BY <2>1, <2>2 DEF Awaits
  <1>3. ASSUME NEW c \in Calls, Submit(c)
        PROVE  TopicInv'
    BY <1>3 DEF Submit, Goto, End, TypeOK, Awaits
  <1>4. ASSUME NEW c \in Calls, SaveConversation(c)
        PROVE  TopicInv'
    BY <1>4 DEF SaveConversation, Goto, End, TypeOK, Awaits, Ops
  <1>5. CASE Crash
    BY <1>5 DEF Crash, Running, TypeOK, Awaits
  <1>6. CASE UNCHANGED vars
    BY <1>6 DEF vars
  <1> QED BY <1>1, <1>2, <1>3, <1>4, <1>5, <1>6 DEF Next, Step

\* What AloneInv says of one handler.
Unmoved(c) ==
    /\ pc[c] \in Awaits /\ ~Rotating(c) => call[c].snap = conv
    /\ pc[c] = "submit" \/ (pc[c] = "save" /\ Rotating(c)) => call[c].for = Active(member)
    /\ pc[c] = "member" /\ call[c].op = "add" => call[c].target \notin Active(member)
    /\ pc[c] = "promote" => call[c].next \in Active(member) \ {call[c].by}
    /\ pc[c] = "member" /\ call[c].op = "leave" /\ call[c].by \in Admins(member)
          => Admins(member) \ {call[c].by} # {} \/ Active(member) = {call[c].by}

LEMMA AloneStep == TypeOK /\ DisturbInv /\ MemberAwaitInv /\ AloneInv /\ [Next]_vars => AloneInv'
  <1> SUFFICES ASSUME TypeOK, DisturbInv, MemberAwaitInv, AloneInv, [Next]_vars PROVE AloneInv'
    OBVIOUS
  <1>1. /\ \A c \in Calls \ disturbed : Unmoved(c)
        /\ \A c \in Calls : Given(c)
    BY DEF AloneInv, Unmoved, MemberAwaitInv, Given
  <1>2. SUFFICES ASSUME NEW d \in Calls, d \notin disturbed' PROVE Unmoved(d)'
    BY DEF AloneInv, Unmoved
  <1>3. d \notin disturbed
    BY <1>2, DisturbStep
  <1>4. pc'[d] \notin Awaits => Unmoved(d)'
    BY DEF Unmoved, Awaits
  <1>5. ASSUME NEW c \in Calls, NEW op, NEW by, NEW target, Load(c, op, by, target)
        PROVE  Unmoved(d)'
    <2>1. CASE c = d
      <3>1. pc'[d] \in {"save", "check"} /\ call'[d].snap = conv /\ call'[d].op = op /\ (pc'[d] = "save" => op = "sync")
            /\ conv' = conv
        BY <1>5, <2>1 DEF Load, Goto, NoCall, TypeOK
      <3> QED BY <3>1 DEF Unmoved, Rotating
    <2>2. CASE c # d
      BY <1>2, <1>4, <1>5, <2>2 DEF Load, Goto, Running, TypeOK
    <2> QED BY <2>1, <2>2
  <1>6. ASSUME NEW c \in Calls, c # d, Step(c)
        PROVE  Unmoved(d)'
    BY <1>3, <1>4, <1>6, OthersWait DEF DisturbInv
  <1>7. CASE Step(d)
    <2> USE <1>1, <1>3
    <2>1. CASE Check(d)
      <3>1. CASE ~Allowed(d)
        BY <1>4, <2>1, <3>1 DEF Check, End, Goto, TypeOK, Awaits
      <3>2. CASE Allowed(d) /\ call[d].op = "send"
        BY <2>1, <3>2 DEF Check, Goto, TypeOK, Unmoved, Rotating, Awaits
      <3>3. CASE Allowed(d) /\ call[d].op # "send"
        <4>1. /\ UNCHANGED <<member, conv>> /\ call'[d].op = call[d].op /\ call'[d].by = call[d].by
              /\ call'[d].target = call[d].target /\ call'[d].snap = call[d].snap /\ pc'[d] \in {"admins", "member"}
              /\ (call[d].op = "leave" /\ call[d].by \in Admins(member) => pc'[d] = "admins")
          BY <2>1, <3>3 DEF Check, Goto, TypeOK
        <4>2. call[d].op = "add" => call[d].target \notin Active(member)
          BY <3>3 DEF Allowed, MayAdd
        <4>3. Rotating(d)
          BY <2>1, <3>3 DEF Given, Check, Rotating, TypeOK, Ops
        <4> QED BY <4>1, <4>2, <4>3 DEF Unmoved, Rotating
      <3> QED BY <3>1, <3>2, <3>3
    <2>2. CASE FindAdmins(d)
      BY <2>2 DEF FindAdmins, Goto, TypeOK, Unmoved, Rotating, Given, Awaits
    <2>3. CASE FindOldest(d)
      <3>1. /\ UNCHANGED <<member, conv>> /\ call'[d].op = "leave" /\ call'[d].by = call[d].by
            /\ \/ pc'[d] = "member" /\ Active(member) \ {call[d].by} = {}
               \/ pc'[d] = "promote" /\ call'[d].next \in Active(member) \ {call[d].by}
        BY <2>3 DEF FindOldest, Oldest, Goto, TypeOK, Given
      <3> QED BY <3>1 DEF Unmoved, Rotating, Admins
    <2>4. CASE Promote(d)
      <3> DEFINE a == call[d].next
      <3>1. a \in Accounts /\ a # call[d].by /\ pc'[d] = "member" /\ call' = call /\ call[d].op = "leave" /\ conv' = conv
        BY <2>4 DEF Promote, Goto, Unmoved, TypeOK, Given, Active
      <3>2. member'[a].role = "admin" /\ member'[a].active
        BY <2>4, <3>1 DEF Promote, TypeOK, Member
      <3>3. a \in Admins(member')
        BY <3>1, <3>2 DEF Admins, Active
      <3> QED BY <3>1, <3>3 DEF Unmoved, Rotating
    <2>5. CASE SaveMember(d)
      BY <2>5 DEF SaveMember, Goto, TypeOK, Unmoved, Rotating, Given, Ops
    <2>6. CASE ListMembers(d)
      <3>1. CASE Active(member) = {}
        BY <1>4, <2>6, <3>1 DEF ListMembers, End, Goto, TypeOK, Awaits
      <3>2. CASE Active(member) # {}
        <4>1. pc'[d] = "submit" /\ call'[d].op = call[d].op /\ call'[d].for = Active(member) /\ UNCHANGED <<member, conv>>
          BY <2>6, <3>2 DEF ListMembers, Goto, TypeOK
        <4> QED BY <2>6, <4>1 DEF ListMembers, Unmoved, Rotating, Given, TypeOK, Ops
      <3> QED BY <3>1, <3>2
    <2>7. CASE Submit(d)
      <3>1. CASE pc'[d] = "done"
        BY <1>4, <3>1 DEF Awaits
      <3>2. CASE pc'[d] # "done"
        <4>1. pc[d] = "submit" /\ pc'[d] = "save" /\ UNCHANGED <<call, member, conv>>
          BY <2>7, <3>2 DEF Submit, Goto, End, TypeOK
        <4> QED BY <4>1 DEF Unmoved, Rotating, Given, TypeOK, Ops
      <3> QED BY <3>1, <3>2
    <2>8. CASE SaveConversation(d)
      BY <1>4, <2>8 DEF SaveConversation, End, Goto, TypeOK, Awaits
    <2> QED BY <1>7, <2>1, <2>2, <2>3, <2>4, <2>5, <2>6, <2>7, <2>8 DEF Step
  <1>8. CASE Crash
    BY <1>4, <1>8 DEF Crash, Running, TypeOK, Awaits
  <1>9. CASE UNCHANGED vars
    BY <1>1, <1>3, <1>9 DEF vars, Unmoved, Rotating
  <1> QED BY <1>5, <1>6, <1>7, <1>8, <1>9 DEF Next

\* Serially and without failures the stored key follows the members.
LEMMA SettledStep ==
    TypeOK /\ DisturbInv /\ MemberAwaitInv /\ AloneInv /\ SettledKeys /\ [Next]_vars => SettledKeys'
  <1> SUFFICES ASSUME TypeOK, DisturbInv, MemberAwaitInv, AloneInv, SettledKeys, [Next]_vars,
                      disturbed' = {}, failed' = {}, Active(member') # {}
               PROVE  \/ conv'.for = Active(member')
                      \/ \E c \in Calls : pc'[c] \in {"list", "submit"} \/ (pc'[c] = "save" /\ Rotating(c)')
    BY DEF SettledKeys
  <1> DEFINE Rotation(c) == pc[c] \in {"list", "submit"} \/ (pc[c] = "save" /\ Rotating(c))
             Goal == \/ conv'.for = Active(member')
                     \/ \E c \in Calls : pc'[c] \in {"list", "submit"} \/ (pc'[c] = "save" /\ Rotating(c)')
  <1>1. disturbed = {} /\ failed = {}
    <2>1. failed \subseteq failed'
      BY DEF Next, Load, Step, Check, FindAdmins, FindOldest, Promote, SaveMember, ListMembers, Submit, SaveConversation,
         Crash, vars
    <2> QED BY <2>1, DisturbStep
  <1>2. /\ \A c \in Calls : Unmoved(c) /\ Given(c)
        /\ Active(member) # {} => conv.for = Active(member) \/ \E c \in Calls : Rotation(c)
    BY <1>1 DEF AloneInv, Unmoved, MemberAwaitInv, Given, SettledKeys
  <1>3. \A c \in Calls : Rotation(c) => pc[c] \in Awaits
    BY DEF Awaits
  <1>4. ASSUME NEW c \in Calls, NEW op, NEW by, NEW target, Load(c, op, by, target)
        PROVE  Goal
    BY <1>2, <1>3, <1>4 DEF Load, Running
  <1>5. ASSUME NEW c \in Calls, Step(c), ~Rotation(c), Active(member) # {}
        PROVE  conv.for = Active(member)
    BY <1>1, <1>2, <1>3, <1>5, OthersWait DEF DisturbInv
  <1>6. ASSUME NEW c \in Calls, Check(c) \/ FindAdmins(c) \/ FindOldest(c)
        PROVE  Goal
    <2>1. Step(c) /\ ~Rotation(c) /\ UNCHANGED <<member, conv>>
      BY <1>6 DEF Step, Check, FindAdmins, FindOldest
    <2> QED BY <1>5, <2>1
  <1>7. ASSUME NEW c \in Calls, Promote(c)
        PROVE  Goal
    <2>1. Step(c) /\ ~Rotation(c) /\ conv' = conv
      BY <1>7 DEF Step, Promote
    <2>2. call[c].next \in Active(member)
      BY <1>2, <1>7 DEF Unmoved, Promote
    <2>3. Active(member') = Active(member)
      BY <1>7, <2>2 DEF Promote, Active, TypeOK, Member
    <2> QED BY <1>5, <2>1, <2>2, <2>3
  <1>8. ASSUME NEW c \in Calls, SaveMember(c) \/ ListMembers(c)
        PROVE  Goal
    <2>1. pc'[c] \in {"list", "submit"}
      BY <1>8 DEF SaveMember, ListMembers, Goto, End, TypeOK
    <2> QED BY <2>1
  <1>9. ASSUME NEW c \in Calls, Submit(c)
        PROVE  Goal
    <2>1. pc'[c] = "save" /\ call' = call /\ Rotating(c)
      BY <1>2, <1>9 DEF Submit, Goto, Given, Rotating, TypeOK, Ops
    <2> QED BY <2>1 DEF Rotating
  <1>10. ASSUME NEW c \in Calls, SaveConversation(c)
         PROVE  Goal
    <2>1. pc[c] = "save" /\ member' = member /\ Step(c)
      BY <1>10 DEF SaveConversation, Step
    <2>2. CASE Rotating(c)
      BY <1>2, <1>10, <2>1, <2>2 DEF SaveConversation, Unmoved, Rotating, Rotated
    <2>3. CASE ~Rotating(c)
      <3>1. conv' = conv
        BY <1>2, <1>10, <2>1, <2>3 DEF SaveConversation, Unmoved, Rotating, TypeOK, Ops, Awaits
      <3> QED BY <1>5, <2>1, <2>3, <3>1
    <2> QED BY <2>2, <2>3
  <1>11. ~Crash
    BY DEF Crash
  <1>12. CASE UNCHANGED vars
    BY <1>2, <1>12 DEF vars, Rotating
  <1> QED BY <1>4, <1>6, <1>7, <1>8, <1>9, <1>10, <1>11, <1>12 DEF Next, Step

LEMMA GroupInductive == Spec => []GroupInv
  <1>1. Init => GroupInv
    <2> SUFFICES ASSUME Init PROVE GroupInv
      OBVIOUS
    <2>1. TypeOK
      <3>1. conv \in Exchange /\ onTopic \subseteq Exchange
        BY FoundersAssumption DEF Init, Exchange, Keys
      <3>2. NoCall \in CallRec
        BY FoundersAssumption DEF NoCall, CallRec, Ops, Exchange, Keys, Member, Stranger
      <3>3. member \in [Accounts -> Member]
        BY DEF Init, Member, Stranger
      <3> QED BY <3>1, <3>2, <3>3 DEF Init, TypeOK, CallRec
    <2>2. DisturbInv /\ MemberAwaitInv /\ TopicInv /\ AloneInv
      BY DEF Init, DisturbInv, MemberAwaitInv, TopicInv, AloneInv, Awaits
    <2>3. Active(member) = Founders /\ conv.for = Founders
      BY FoundersAssumption DEF Init, Active, Stranger
    <2> QED BY <2>1, <2>2, <2>3 DEF GroupInv, SettledKeys
  <1>2. GroupInv /\ [Next]_vars => GroupInv'
    BY GroupTypeStep, DisturbStep, MemberAwaitStep, TopicStep, AloneStep, SettledStep DEF GroupInv
  <1> QED BY <1>1, <1>2, PTL DEF Spec

\* A rotation that nothing overlapped with and that worked stores the key of the members.
LEMMA RotationKeeps ==
    ASSUME GroupInv, Next, NEW c \in Calls \ (disturbed \cup failed),
           pc[c] = "save", pc'[c] = "done", c \notin failed', call[c].op \in {"add", "remove", "leave"}
    PROVE  conv'.for = Active(member')
  <1>1. SaveConversation(c)
    <2>1. ~Crash
      BY DEF Crash, Running, Awaits
    <2>2. ASSUME NEW d \in Calls, Step(d) PROVE d = c
      BY <2>2, OthersWait DEF GroupInv
    <2>3. ASSUME NEW d \in Calls, NEW op, NEW by, NEW target, Load(d, op, by, target) PROVE FALSE
      BY <2>3 DEF Load, Goto, GroupInv, TypeOK
    <2>4. Step(c)
      BY <2>1, <2>2, <2>3 DEF Next
    <2> QED BY <2>4 DEF Step, Check, FindAdmins, FindOldest, Promote, SaveMember, ListMembers, Submit
  <1>2. call[c].for = Active(member)
    BY DEF GroupInv, AloneInv, Rotating
  <1> QED BY <1>1, <1>2 DEF SaveConversation, Rotated

\* The steps that write a member's row.
LEMMA MemberSteps ==
    ASSUME GroupInv, Next, member' # member
    PROVE  \E c \in Calls : Promote(c) \/ SaveMember(c)
  BY DEF Next, Load, Step, Check, FindAdmins, FindOldest, ListMembers, Submit, SaveConversation, Crash

\* The last admin goes by a removal, or in a race.
LEMMA AdminKeeps ==
    ASSUME GroupInv, Next, Admins(member) # {}, Admins(member') = {}, Active(member') # {}
    PROVE  \E c \in Calls : /\ pc[c] = "member" /\ pc'[c] = "list"
                            /\ call[c].op = "remove" \/ c \in disturbed
  <1> USE DEF GroupInv, TypeOK
  <1>1. ASSUME NEW c \in Calls, Promote(c) PROVE FALSE
    <2> DEFINE a == call[c].next
    <2>1. a \in Accounts
      BY <1>1 DEF Promote, MemberAwaitInv
    <2>2. member'[a].role = "admin" /\ member'[a].active
      BY <1>1, <2>1 DEF Promote, Member
    <2> QED BY <2>1, <2>2 DEF Admins, Active
  <1>2. PICK c \in Calls : SaveMember(c)
    BY <1>1, MemberSteps
  <1>3. pc[c] = "member" /\ pc'[c] = "list"
    BY <1>2 DEF SaveMember, Goto
  <1>4. ASSUME c \notin disturbed, call[c].op = "add" PROVE FALSE
    <2>1. call[c].target \notin Active(member) /\ call[c].target \in Accounts
      BY <1>3, <1>4 DEF AloneInv, MemberAwaitInv, Awaits
    <2>2. member' = [member EXCEPT ![call[c].target] = call[c].row]
      BY <1>2, <1>4 DEF SaveMember
    <2>3. Admins(member) \subseteq Admins(member')
      BY <2>1, <2>2 DEF Admins, Active
    <2> QED BY <2>3
  <1>5. ASSUME c \notin disturbed, call[c].op = "leave" PROVE FALSE
    <2>1. call[c].by \in Accounts /\ ~call[c].row.active
      BY <1>3, <1>5 DEF MemberAwaitInv, Awaits
    <2>2. member' = [member EXCEPT ![call[c].by] = call[c].row]
      BY <1>2, <1>5 DEF SaveMember
    <2>3. Admins(member) \ {call[c].by} \subseteq Admins(member')
      BY <2>1, <2>2 DEF Admins, Active
    <2>4. Active(member') = Active(member) \ {call[c].by}
      BY <2>1, <2>2 DEF Active
    <2>5. call[c].by \in Admins(member) => Admins(member) \ {call[c].by} # {} \/ Active(member) = {call[c].by}
      BY <1>3, <1>5 DEF AloneInv
    <2> QED BY <2>3, <2>4, <2>5
  <1>6. call[c].op \in {"add", "remove", "leave"}
    BY <1>3 DEF MemberAwaitInv, Ops
  <1> QED BY <1>3, <1>4, <1>5, <1>6

\* Who left comes back by addParticipant, or by a promotion that was overtaken.
LEMMA ReturnKeeps ==
    ASSUME GroupInv, Next, NEW a \in Accounts, ~member[a].active, member'[a].active
    PROVE  \E c \in Calls : \/ pc[c] = "member" /\ call[c].op = "add" /\ call[c].target = a
                            \/ pc[c] = "promote" /\ call[c].next = a /\ c \in disturbed
  <1> USE DEF GroupInv, TypeOK
  <1>1. PICK c \in Calls : Promote(c) \/ SaveMember(c)
    BY MemberSteps
  <1>2. CASE Promote(c)
    <2>1. pc[c] = "promote" /\ call[c].next = a
      BY <1>2 DEF Promote, Member
    <2>2. c \in disturbed
      BY <2>1 DEF AloneInv, Active
    <2> QED BY <2>1, <2>2
  <1>3. CASE SaveMember(c)
    <2>1. pc[c] = "member" /\ call[c].row.active /\ a = IF call[c].op = "leave" THEN call[c].by ELSE call[c].target
      BY <1>3 DEF SaveMember
    <2>2. call[c].op = "add"
      BY <2>1 DEF MemberAwaitInv
    <2> QED BY <2>1, <2>2
  <1> QED BY <1>1, <1>2, <1>3

\* For any number of accounts and handlers, crashes and failing submissions included: the
\* stored key is on the topic and, where nothing overlapped, for the members; the last admin
\* and who has left go and come back only as the module says.
THEOREM MembershipSafetyHolds == Spec => MembershipSafety
  <1>1. GroupInv => TypeOK /\ KeysOfMembers /\ StoredKeyIsOnTopic
    BY DEF GroupInv, KeysOfMembers, StoredKeyIsOnTopic, SettledKeys, TopicInv, Running, Awaits
  <1>2. GroupInv /\ [Next]_vars =>
           [\A c \in Calls \ (disturbed \cup failed) :
               pc[c] = "save" /\ pc'[c] = "done" /\ c \notin failed' /\ call[c].op \in {"add", "remove", "leave"}
               => conv'.for = Active(member')]_vars
    BY RotationKeeps
  <1>3. GroupInv /\ [Next]_vars =>
           [Admins(member) # {} /\ Admins(member') = {} /\ Active(member') # {}
            => \E c \in Calls : /\ pc[c] = "member" /\ pc'[c] = "list"
                                /\ call[c].op = "remove" \/ c \in disturbed]_vars
    BY AdminKeeps
  <1>4. GroupInv /\ [Next]_vars =>
           [\A a \in Accounts :
               ~member[a].active /\ member'[a].active
               => \E c \in Calls : \/ pc[c] = "member" /\ call[c].op = "add" /\ call[c].target = a
                                   \/ pc[c] = "promote" /\ call[c].next = a /\ c \in disturbed]_vars
    BY ReturnKeeps
  <1> QED BY <1>1, <1>2, <1>3, <1>4, GroupInductive, PTL
      DEF Spec, MembershipSafety, RotationReachesMembers, AdminLostOnlyByRemoval, ReturnsOnlyByAdd

--------------------------------------------------------------------------------
(* The key of a conversation on its page (ConversationKey) *)

Derivation == [keys : Rotations, with : {"old", "right"}, by : {"effect", "event"} \cup Submits]

\* No call under way has keys that are newer than those of the conversation.
BoundInv == \A i \in DOMAIN deriving : deriving[i].keys <= current

\* What is loaded has been opened with the page's key, or will be.
OpeningInv == symmetricKey \in loadedUnder \ opening => symmetricKey \in opened

\* The key that the page will have when the calls under way have ended.
FinalKey == IF deriving = << >> THEN symmetricKey ELSE deriving[Len(deriving)].keys

\* A page that was not opened with an old key: before the device has the private key, the
\* keys of the list wait for it, also in a PIN dialog; afterwards they are derived last.
FoundInv ==
    ~heldOld =>
        /\ privateKey # "old" /\ \A i \in DOMAIN deriving : deriving[i].with = "right"
        /\ ~newerList =>
             /\ \A h \in Submits : pin[h].of = "page" =>
                   pin[h].keys \in {0, listed} /\ (privateKey = "none" => pin[h].keys = listed)
             /\ privateKey = "none" => deriving = << >> /\ pendingKeys = listed /\ symmetricKey = 0
             /\ privateKey = "right" =>
                   FinalKey = listed \/ (behind /\ FinalKey = 0 /\ pendingKeys = listed)

KeyIInv == KeyTypeOK /\ BoundInv /\ OpeningInv /\ FoundInv

LEMMA KeyInitial == KeyInit => KeyIInv
  <1> SUFFICES ASSUME KeyInit PROVE KeyIInv
    OBVIOUS
  <1>a. deriving = << >> /\ deriving \in Seq(Derivation) /\ DOMAIN deriving = {}
    BY DEF KeyInit
  <1>b. heldOld \in BOOLEAN /\ (heldOld <=> privateKey = "old") /\ pin = [h \in Submits |-> NoPin]
    BY DEF KeyInit
  <1>c. pin \in [Submits -> [of : {"none", "page", "layout"}, keys : 0 .. current]]
    BY DEF KeyInit, NoPin
  <1>d. dialog \subseteq {"page", "layout"} /\ privateKey \in {"none", "old", "right"}
    BY DEF KeyInit
  <1>e. newerList = FALSE /\ behind = FALSE /\ loadedUnder = {} /\ opening = {} /\ opened = {}
    BY DEF KeyInit
  <1>f. current \in Rotations /\ listed \in 0 .. current /\ symmetricKey \in 0 .. current /\ pendingKeys \in 0 .. current
    BY MaxRotationsAssumption DEF KeyInit, Rotations
  <1>1. KeyTypeOK
    BY <1>a, <1>b, <1>c, <1>d, <1>e, <1>f DEF KeyTypeOK, Derivation
  <1>2. OpeningInv
    BY DEF KeyInit, OpeningInv
  <1>3. FoundInv
    BY <1>a, <1>b DEF KeyInit, FoundInv, FinalKey, NoPin
  <1>4. BoundInv
    BY <1>a DEF BoundInv
  <1> QED BY <1>1, <1>2, <1>3, <1>4 DEF KeyIInv

\* A call that joins the ones under way is the last of them.
LEMMA DeriveJoins ==
    ASSUME deriving \in Seq(Derivation), NEW k \in Rotations, NEW with \in {"old", "right"},
           NEW by \in {"effect", "event"} \cup Submits, deriving' = Derive(k, with, by)
    PROVE  /\ deriving' \in Seq(Derivation) /\ deriving' # << >>
           /\ deriving'[Len(deriving')].keys = k
           /\ (\A i \in DOMAIN deriving : deriving[i].with = "right") /\ with = "right"
                => \A i \in DOMAIN deriving' : deriving'[i].with = "right"
           /\ BoundInv /\ k <= current => \A i \in DOMAIN deriving' : deriving'[i].keys <= current
  <1> DEFINE d == [keys |-> k, with |-> with, by |-> by]
  <1>1. d \in Derivation /\ d.keys = k /\ d.with = with /\ deriving' = Append(deriving, d)
    BY DEF Derivation, Derive
  <1> HIDE DEF d
  <1>2. deriving' \in Seq(Derivation) /\ deriving' # << >> /\ Len(deriving') = Len(deriving) + 1
        /\ deriving'[Len(deriving')] = d
    BY <1>1
  <1>3. \A i \in DOMAIN deriving' : deriving'[i] = d \/ (i \in DOMAIN deriving /\ deriving'[i] = deriving[i])
    BY <1>1
  <1> QED BY <1>1, <1>2, <1>3 DEF BoundInv

\* The call that ends is the first; the last one stays the last.
LEMMA DeriveEnds ==
    ASSUME deriving \in Seq(Derivation), deriving # << >>, deriving' = Tail(deriving)
    PROVE  /\ Head(deriving) \in Derivation /\ Head(deriving) = deriving[1] /\ 1 \in DOMAIN deriving
           /\ deriving' \in Seq(Derivation)
           /\ deriving' = << >> => deriving[Len(deriving)] = Head(deriving)
           /\ deriving' # << >> => deriving'[Len(deriving')] = deriving[Len(deriving)]
           /\ \A i \in DOMAIN deriving' : i + 1 \in DOMAIN deriving /\ deriving'[i] = deriving[i + 1]
  OBVIOUS

LEMMA KeyTypeStep == KeyTypeOK /\ BoundInv /\ [KeyNext]_keyVars => KeyTypeOK' /\ BoundInv'
  <1> SUFFICES ASSUME KeyTypeOK, BoundInv, [KeyNext]_keyVars PROVE KeyTypeOK' /\ BoundInv'
    OBVIOUS
  <1> DEFINE Pin(c)  == [of : {"none", "page", "layout"}, keys : 0 .. c]
             Pins(c) == [Submits -> Pin(c)]
  <1>0. /\ deriving \in Seq(Derivation) /\ current \in Rotations /\ current \in Nat /\ current # 0
        /\ Rotations \subseteq Nat /\ pin \in Pins(current)
        /\ \A k \in 0 .. current : k # 0 => k \in Rotations /\ k <= current
    BY MaxRotationsAssumption DEF KeyTypeOK, Derivation, Rotations
  <1>a. NoPin \in Pin(current)
    BY <1>0 DEF NoPin
  <1>b. ASSUME NEW h \in Submits, NEW p \in Pin(current), pin' = [pin EXCEPT ![h] = p] PROVE pin' \in Pins(current)
    BY <1>0, <1>b
  <1>1. CASE RotateKey
    <2>1. current' \in Rotations /\ current' = current + 1
      BY <1>0, <1>1, MaxRotationsAssumption DEF RotateKey, Rotations
    <2>2. 0 .. current \subseteq 0 .. current'
      BY <1>0, <2>1
    <2>3. pin' \in Pins(current')
      <3>1. Pin(current) \subseteq Pin(current')
        BY <2>2
      <3> QED BY <1>0, <1>1, <3>1 DEF RotateKey
    <2>4. BoundInv'
      <3>1. \A i \in DOMAIN deriving : deriving[i].keys \in Nat
        <4>1. \A i \in DOMAIN deriving : deriving[i] \in Derivation
          BY <1>0
        <4> QED BY <1>0, <4>1 DEF Derivation
      <3> QED BY <1>0, <1>1, <2>1, <3>1 DEF RotateKey, BoundInv
    <2> QED BY <1>0, <1>1, <2>1, <2>2, <2>3, <2>4 DEF RotateKey, KeyTypeOK
  <1> HIDE DEF Pin, Pins
  <1>2. CASE ListArrives
    <2>1. deriving' \in Seq(Derivation) /\ pendingKeys' \in 0 .. current /\ BoundInv'
      <3>1. CASE privateKey # "none"
        <4>1. deriving' = Derive(current, privateKey, "effect") /\ privateKey \in {"old", "right"}
              /\ pendingKeys' = pendingKeys /\ current' = current
          BY <1>2, <3>1 DEF ListArrives, KeyEffect, KeyTypeOK
        <4> QED BY <1>0, <4>1, DeriveJoins DEF BoundInv, KeyTypeOK
      <3>2. CASE privateKey = "none"
        BY <1>0, <1>2, <3>2 DEF ListArrives, KeyEffect, BoundInv
      <3> QED BY <3>1, <3>2
    <2>2. listed' \in 0 .. current' /\ current' = current /\ newerList' \in BOOLEAN
      BY <1>0, <1>2 DEF ListArrives
    <2> QED BY <1>2, <2>1, <2>2 DEF ListArrives, KeyTypeOK, Derivation
  <1>3. CASE KeyDerived
    <2>1. deriving' \in Seq(Derivation) /\ Head(deriving) \in Derivation /\ Head(deriving) = deriving[1]
          /\ 1 \in DOMAIN deriving /\ BoundInv'
      BY <1>0, <1>3, DeriveEnds DEF KeyDerived, BoundInv
    <2>2. symmetricKey' \in 0 .. current
      <3>1. Head(deriving).keys \in Nat /\ Head(deriving).keys <= current
        BY <1>0, <2>1 DEF BoundInv, Derivation
      <3> QED BY <1>0, <1>3, <3>1 DEF KeyDerived, SetKey, KeyTypeOK
    <2>3. opening' \subseteq Rotations
      <3>1. symmetricKey' # 0 => symmetricKey' \in Rotations
        BY <1>0, <2>2
      <3> QED BY <1>3, <3>1 DEF KeyDerived, SetKey, OpenEffect, KeyTypeOK
    <2>4. pendingKeys' \in 0 .. current /\ dialog' \subseteq {"page", "layout"}
      BY <1>0, <1>3 DEF KeyDerived, KeyTypeOK
    <2> QED BY <1>3, <2>1, <2>2, <2>3, <2>4 DEF KeyDerived, KeyTypeOK, Derivation
  <1>4. CASE OpenPinDialog
    BY <1>4 DEF OpenPinDialog, KeyTypeOK, BoundInv
  <1>5. ASSUME NEW h \in Submits, HandlePinSubmit(h) PROVE KeyTypeOK' /\ BoundInv'
    <2>1. [of |-> "page", keys |-> pendingKeys] \in Pin(current)
      BY DEF KeyTypeOK, Pin
    <2>2. pin' \in Pins(current) /\ newerList' \in BOOLEAN
      BY <1>5, <1>b, <2>1 DEF HandlePinSubmit
    <2> QED BY <1>5, <2>2 DEF HandlePinSubmit, KeyTypeOK, Pin, Pins, BoundInv
  <1>6. ASSUME NEW h \in Submits, HandlePinRestore(h) PROVE KeyTypeOK' /\ BoundInv'
    <2>1. [of |-> "layout", keys |-> 0] \in Pin(current)
      BY <1>0 DEF Pin
    <2>2. pin' \in Pins(current)
      BY <1>6, <1>b, <2>1 DEF HandlePinRestore
    <2> QED BY <1>6, <2>2 DEF HandlePinRestore, KeyTypeOK, Pin, Pins, BoundInv
  <1>7. ASSUME NEW h \in Submits, PinFails(h) PROVE KeyTypeOK' /\ BoundInv'
    <2>1. pin' \in Pins(current)
      BY <1>7, <1>a, <1>b DEF PinFails
    <2> QED BY <1>7, <2>1 DEF PinFails, KeyTypeOK, Pin, Pins, BoundInv
  <1>8. ASSUME NEW h \in Submits, PinIsRight(h) PROVE KeyTypeOK' /\ BoundInv'
    <2>1. deriving' \in Seq(Derivation) /\ BoundInv'
      <3>1. CASE pin[h].keys # 0
        <4>1. deriving' = Derive(pin[h].keys, "right", h) /\ pin[h].keys \in Rotations /\ pin[h].keys <= current
              /\ current' = current
          BY <1>0, <1>8, <3>1 DEF PinIsRight, Pin, Pins
        <4> QED BY <1>0, <4>1, DeriveJoins DEF BoundInv
      <3>2. CASE pin[h].keys = 0
        BY <1>0, <1>8, <3>2 DEF PinIsRight, BoundInv
      <3> QED BY <3>1, <3>2
    <2>2. dialog' \subseteq {"page", "layout"} /\ pin' \in Pins(current)
      BY <1>8, <1>a, <1>b DEF PinIsRight, KeyTypeOK
    <2> QED BY <1>8, <2>1, <2>2 DEF PinIsRight, KeyTypeOK, Derivation, Pin, Pins
  <1>9. ASSUME NEW h \in Submits, KeyRestored(h) PROVE KeyTypeOK' /\ BoundInv'
    <2>1. deriving' \in Seq(Derivation) /\ BoundInv'
      <3>1. CASE pendingKeys # 0
        <4>1. deriving' = Derive(pendingKeys, "right", "event") /\ pendingKeys \in Rotations
              /\ pendingKeys <= current /\ current' = current
          BY <1>0, <1>9, <3>1 DEF KeyRestored, KeyTypeOK
        <4> QED BY <1>0, <4>1, DeriveJoins DEF BoundInv
      <3>2. CASE pendingKeys = 0
        BY <1>0, <1>9, <3>2 DEF KeyRestored, BoundInv
      <3> QED BY <3>1, <3>2
    <2>2. dialog' \subseteq {"page", "layout"} /\ pin' \in Pins(current) /\ newerList' \in BOOLEAN
      BY <1>9, <1>a, <1>b DEF KeyRestored, KeyTypeOK
    <2> QED BY <1>9, <2>1, <2>2 DEF KeyRestored, KeyTypeOK, Derivation, Pin, Pins
  <1>10. CASE MessagesArrive
    <2>1. loadedUnder' \subseteq Rotations
      BY <1>0, <1>10, MaxRotationsAssumption DEF MessagesArrive, Rotations
    <2>2. symmetricKey # 0 => symmetricKey \in Rotations
      BY <1>0 DEF KeyTypeOK
    <2> QED BY <1>10, <2>1, <2>2 DEF MessagesArrive, OpenEffect, KeyTypeOK, BoundInv
  <1>11. CASE ReopenPage
    <2>2. deriving' \in Seq(Derivation) /\ BoundInv' /\ pendingKeys' \in 0 .. current
      <3>1. CASE privateKey # "none" /\ listed # 0
        <4>1. listed \in Rotations /\ listed <= current /\ privateKey \in {"old", "right"}
          BY <1>0, <3>1 DEF KeyTypeOK
        <4>2. deriving' = <<[keys |-> listed, with |-> privateKey, by |-> "effect"]>> /\ pendingKeys' = 0
              /\ current' = current
          BY <1>11, <3>1 DEF ReopenPage
        <4>3. [keys |-> listed, with |-> privateKey, by |-> "effect"] \in Derivation
          BY <4>1 DEF Derivation
        <4> QED BY <1>0, <4>1, <4>2, <4>3 DEF BoundInv
      <3>2. CASE privateKey = "none" \/ listed = 0
        BY <1>0, <1>11, <3>2 DEF ReopenPage, BoundInv, KeyTypeOK
      <3> QED BY <3>1, <3>2
    <2>3. heldOld' \in BOOLEAN
      BY <1>11, Zenon DEF ReopenPage
    <2>5. newerList' = FALSE /\ behind' = FALSE /\ symmetricKey' \in 0 .. current /\ opened' = {} /\ opening' = {}
      BY <1>0, <1>11 DEF ReopenPage
    <2>6. pin' \in Pins(current)
      BY <1>0, <1>11, <1>a DEF ReopenPage, Pins
    <2>4. dialog' \subseteq {"page", "layout"} /\ UNCHANGED <<current, listed, privateKey, loadedUnder>>
      BY <1>11 DEF ReopenPage, KeyTypeOK
    <2> QED BY <2>2, <2>3, <2>4, <2>5, <2>6 DEF KeyTypeOK, Derivation, Pin, Pins
  <1>15. CASE RestoredElsewhere
    BY <1>15 DEF RestoredElsewhere, KeyTypeOK, BoundInv
  <1>12. ASSUME NEW x \in dialog, CancelPinDialog(x) PROVE KeyTypeOK' /\ BoundInv'
    BY <1>12 DEF CancelPinDialog, KeyTypeOK, BoundInv
  <1>13. ASSUME NEW k \in Rotations, MessagesOpened(k) PROVE KeyTypeOK' /\ BoundInv'
    BY <1>13 DEF MessagesOpened, KeyTypeOK, BoundInv
  <1>14. CASE UNCHANGED keyVars
    BY <1>14 DEF keyVars, KeyTypeOK, BoundInv
  <1> QED BY <1>1, <1>2, <1>3, <1>4, <1>5, <1>6, <1>7, <1>8, <1>9, <1>10, <1>11, <1>12, <1>13, <1>14, <1>15 DEF KeyNext

LEMMA OpeningStep == KeyTypeOK /\ OpeningInv /\ [KeyNext]_keyVars => OpeningInv'
  <1> SUFFICES ASSUME KeyTypeOK, OpeningInv, [KeyNext]_keyVars PROVE OpeningInv'
    OBVIOUS
  <1>0. 0 \notin loadedUnder /\ 0 \notin 1 .. current
    BY DEF KeyTypeOK, Rotations
  <1>1. CASE KeyDerived
    BY <1>0, <1>1 DEF KeyDerived, SetKey, OpenEffect, OpeningInv
  <1>2. CASE MessagesArrive
    BY <1>0, <1>2 DEF MessagesArrive, OpenEffect, OpeningInv
  <1>3. CASE ReopenPage
    BY <1>0, <1>3 DEF ReopenPage, OpeningInv
  <1>4. ASSUME NEW k \in Rotations, MessagesOpened(k) PROVE OpeningInv'
    BY <1>4 DEF MessagesOpened, OpeningInv
  <1>5. UNCHANGED <<symmetricKey, loadedUnder, opening, opened>> => OpeningInv'
    BY DEF OpeningInv
  <1> QED BY <1>1, <1>2, <1>3, <1>4, <1>5 DEF KeyNext, keyVars, RotateKey, ListArrives, OpenPinDialog,
             HandlePinSubmit, HandlePinRestore, PinFails, PinIsRight, KeyRestored, RestoredElsewhere, CancelPinDialog

LEMMA FoundStep == KeyTypeOK /\ BoundInv /\ FoundInv /\ [KeyNext]_keyVars => FoundInv'
  <1> SUFFICES ASSUME KeyTypeOK, BoundInv, FoundInv, [KeyNext]_keyVars PROVE FoundInv'
    OBVIOUS
  <1> DEFINE AllRight == \A i \in DOMAIN deriving : deriving[i].with = "right"
  <1>0. /\ deriving \in Seq(Derivation) /\ current \in Rotations
        /\ \A k \in 0 .. current : k # 0 => k \in Rotations
        /\ privateKey \in {"none", "old", "right"} /\ 0 \notin Rotations
    BY MaxRotationsAssumption DEF KeyTypeOK, Derivation, Rotations
  <1>a. /\ pin \in [Submits -> [of : {"none", "page", "layout"}, keys : 0 .. current]]
        /\ NoPin.of = "none"
    BY DEF KeyTypeOK, NoPin
  <1>1. CASE ListArrives
    <2>1. CASE privateKey = "none"
      BY <1>1, <2>1 DEF ListArrives, KeyEffect, FoundInv, FinalKey
    <2>2. CASE privateKey # "none"
      <3>1. deriving' = Derive(current, privateKey, "effect") /\ privateKey \in {"old", "right"}
            /\ listed' = current /\ UNCHANGED <<privateKey, pin, heldOld>>
            /\ (~newerList' => ~newerList /\ \A h \in Submits : pin[h].of # "page")
        BY <1>0, <1>1, <2>2 DEF ListArrives, KeyEffect
      <3>2. deriving' # << >> /\ deriving'[Len(deriving')].keys = listed'
            /\ (AllRight /\ privateKey = "right" => AllRight')
        BY <1>0, <3>1, DeriveJoins
      <3> QED BY <3>1, <3>2 DEF FoundInv, FinalKey
    <2> QED BY <2>1, <2>2
  <1>2. CASE KeyDerived
    <2>1. /\ Head(deriving) = deriving[1] /\ 1 \in DOMAIN deriving
          /\ deriving' = << >> => deriving[Len(deriving)] = Head(deriving)
          /\ deriving' # << >> => deriving'[Len(deriving')] = deriving[Len(deriving)]
          /\ AllRight => AllRight' /\ Head(deriving).with = "right"
      BY <1>0, <1>2, DeriveEnds DEF KeyDerived
    <2>2. deriving # << >> /\ UNCHANGED <<listed, privateKey, pin, heldOld, newerList, behind>>
          /\ (Head(deriving).with = "right" => symmetricKey' = Head(deriving).keys)
      BY <1>2 DEF KeyDerived, SetKey
    <2>3. deriving[Len(deriving)].keys # 0
      <3>1. deriving[Len(deriving)] \in Derivation
        BY <1>0, <2>2
      <3> QED BY <1>0, <3>1 DEF Derivation
    <2> QED BY <2>1, <2>2, <2>3 DEF FoundInv, FinalKey
  <1>3. ASSUME NEW h \in Submits, HandlePinSubmit(h) PROVE FoundInv'
    <2>1. /\ pin'[h].keys = pendingKeys /\ \A g \in Submits \ {h} : pin'[g] = pin[g]
          /\ UNCHANGED <<listed, privateKey, symmetricKey, pendingKeys, deriving, heldOld, behind>>
          /\ (newerList' <=> newerList \/ pendingKeys \notin {0, listed})
      BY <1>3, <1>a DEF HandlePinSubmit
    <2> QED BY <2>1 DEF FoundInv, FinalKey
  <1>4. ASSUME NEW h \in Submits, HandlePinRestore(h) PROVE FoundInv'
    <2>1. /\ pin'[h].of = "layout" /\ \A g \in Submits \ {h} : pin'[g] = pin[g]
          /\ UNCHANGED <<listed, privateKey, symmetricKey, pendingKeys, deriving, heldOld, newerList, behind>>
      BY <1>4, <1>a DEF HandlePinRestore
    <2> QED BY <2>1 DEF FoundInv, FinalKey
  <1>5. ASSUME NEW h \in Submits, PinFails(h) PROVE FoundInv'
    <2>1. /\ pin'[h].of = "none" /\ \A g \in Submits \ {h} : pin'[g] = pin[g]
          /\ UNCHANGED <<listed, privateKey, symmetricKey, pendingKeys, deriving, heldOld, newerList, behind>>
      BY <1>5, <1>a DEF PinFails
    <2> QED BY <2>1 DEF FoundInv, FinalKey
  <1>6. ASSUME NEW h \in Submits, PinIsRight(h) PROVE FoundInv'
    <2>1. /\ pin[h].of = "page" /\ pin'[h].of = "none" /\ \A g \in Submits \ {h} : pin'[g] = pin[g]
          /\ privateKey' = "right"
          /\ UNCHANGED <<listed, symmetricKey, pendingKeys, heldOld, newerList, behind>>
      BY <1>6, <1>a DEF PinIsRight
    <2>2. CASE pin[h].keys # 0
      <3>1. deriving' = Derive(pin[h].keys, "right", h) /\ pin[h].keys \in Rotations
        BY <1>0, <1>6, <1>a, <2>2 DEF PinIsRight
      <3>2. deriving' # << >> /\ deriving'[Len(deriving')].keys = pin[h].keys /\ (AllRight => AllRight')
        BY <1>0, <3>1, DeriveJoins
      <3> QED BY <2>1, <2>2, <3>2 DEF FoundInv, FinalKey
    <2>3. CASE pin[h].keys = 0
      <3>1. UNCHANGED deriving
        BY <1>6, <2>3 DEF PinIsRight
      <3> QED BY <1>0, <2>1, <2>3, <3>1 DEF FoundInv, FinalKey
    <2> QED BY <2>2, <2>3
  <1>7. ASSUME NEW h \in Submits, KeyRestored(h) PROVE FoundInv'
    <2>1. /\ pin'[h].of = "none" /\ \A g \in Submits \ {h} : pin'[g] = pin[g]
          /\ privateKey' = "right" /\ UNCHANGED <<listed, symmetricKey, pendingKeys, heldOld, behind>>
          /\ (newerList' <=> newerList \/ pendingKeys \notin {0, listed})
      BY <1>7, <1>a DEF KeyRestored
    <2>2. CASE pendingKeys # 0
      <3>1. deriving' = Derive(pendingKeys, "right", "event") /\ pendingKeys \in Rotations
        BY <1>0, <1>7, <2>2 DEF KeyRestored, KeyTypeOK
      <3>2. deriving' # << >> /\ deriving'[Len(deriving')].keys = pendingKeys /\ (AllRight => AllRight')
        BY <1>0, <3>1, DeriveJoins
      <3> QED BY <2>1, <2>2, <3>2 DEF FoundInv, FinalKey
    <2>3. CASE pendingKeys = 0
      <3>1. UNCHANGED deriving
        BY <1>7, <2>3 DEF KeyRestored
      <3> QED BY <1>0, <2>1, <2>3, <3>1 DEF FoundInv, FinalKey
    <2> QED BY <2>2, <2>3
  <1>8. CASE ReopenPage
    <2>1. /\ symmetricKey' = 0 /\ (heldOld' <=> privateKey = "old") /\ UNCHANGED <<listed, privateKey>>
          /\ \A h \in Submits : pin'[h].of # "page"
      BY <1>8, <1>a DEF ReopenPage
    <2>2. CASE privateKey = "none" \/ listed = 0
      BY <1>0, <1>8, <2>1, <2>2 DEF ReopenPage, FoundInv, FinalKey
    <2>3. CASE privateKey # "none" /\ listed # 0
      <3>1. deriving' = <<[keys |-> listed, with |-> privateKey, by |-> "effect"]>>
        BY <1>8, <2>3 DEF ReopenPage
      <3>2. ~heldOld' => privateKey' = "right" /\ AllRight' /\ FinalKey' = listed'
        BY <1>0, <2>1, <2>3, <3>1 DEF FinalKey
      <3> QED BY <2>1, <3>2 DEF FoundInv
    <2> QED BY <2>2, <2>3
  <1>9. UNCHANGED <<listed, privateKey, symmetricKey, pendingKeys, deriving, pin, heldOld, newerList, behind>> => FoundInv'
    BY DEF FoundInv, FinalKey
  <1>10. ASSUME NEW k \in Rotations, MessagesOpened(k) PROVE FoundInv'
    BY <1>9, <1>10 DEF MessagesOpened
  <1>11. ASSUME NEW x \in dialog, CancelPinDialog(x) PROVE FoundInv'
    BY <1>9, <1>11 DEF CancelPinDialog
  <1>12. CASE RotateKey \/ OpenPinDialog \/ MessagesArrive
    BY <1>9, <1>12 DEF RotateKey, OpenPinDialog, MessagesArrive
  <1>13. CASE UNCHANGED keyVars
    BY <1>9, <1>13 DEF keyVars
  <1>14. CASE RestoredElsewhere
    <2>1. /\ privateKey' = "right" /\ privateKey # "right" /\ behind'
          /\ UNCHANGED <<listed, symmetricKey, pendingKeys, deriving, pin, heldOld, newerList>>
      BY <1>14 DEF RestoredElsewhere
    <2> QED BY <1>0, <2>1 DEF FoundInv, FinalKey
  <1> QED BY <1>1, <1>2, <1>3, <1>4, <1>5, <1>6, <1>7, <1>8, <1>10, <1>11, <1>12, <1>13, <1>14 DEF KeyNext

\* The invariant says what the page shows.
LEMMA KeyIs == KeyIInv => ConversationKeyInv
  BY DEF KeyIInv, OpeningInv, FoundInv, FinalKey, ConversationKeyInv, KeyIsFound, LoadedIsOpened, AtRest

LEMMA KeyStep == KeyIInv /\ [KeyNext]_keyVars => KeyIInv'
  BY KeyTypeStep, OpeningStep, FoundStep DEF KeyIInv

--------------------------------------------------------------------------------
(* Who is typing (TypingIndicator) *)

Event   == [room : Rooms, isTyping : BOOLEAN]
Command == [room : Rooms, name : {"hset", "expire", "hdel"}]

\* A stop for r after the place i of the wire or of the commands.
StopOnWire(r, i)  == \E j \in DOMAIN wire : j > i /\ wire[j].room = r /\ ~wire[j].isTyping
StopAtRedis(r, i) == \E j \in DOMAIN commands : j > i /\ commands[j].room = r /\ commands[j].name = "hdel"

\* A page with a timer is in a room, and has told it that its member is typing.
TypistInv == (typist.timer <=> typist.ref) /\ (typist.timer => typist.room # NoRoom)

\* Every start on the wire has a stop behind it, or a timer that will send one.
WireInv == \A r \in Rooms, i \in DOMAIN wire :
    wire[i].room = r /\ wire[i].isTyping => Armed(r) \/ StopOnWire(r, i)

\* And so has every start at Redis: behind its first command, or anywhere once the second
\* waits, for a stop that is told before it counts as missed.
CommandsInv ==
    ~stopMissed =>
        \A r \in Rooms :
            /\ \A i \in DOMAIN commands : commands[i].room = r /\ commands[i].name = "hset"
                                         => Armed(r) \/ StopOnWire(r, 0) \/ StopAtRedis(r, i)
            /\ \A i \in DOMAIN commands : commands[i].room = r /\ commands[i].name = "expire"
                                         => Armed(r) \/ StopOnWire(r, 0) \/ StopAtRedis(r, 0)
            /\ heardIn = r /\ r # NoRoom => Armed(r) \/ StopOnWire(r, 0) \/ StopAtRedis(r, 0)

TypingIInv == TypingTypeOK /\ TypistInv /\ WireInv /\ CommandsInv

LEMMA TypingInitial == TypingInit => TypingIInv
  <1> SUFFICES ASSUME TypingInit PROVE TypingIInv
    OBVIOUS
  <1>1. wire = << >> /\ DOMAIN wire = {} /\ wire \in Seq(Event) /\ commands = << >> /\ DOMAIN commands = {}
        /\ commands \in Seq(Command)
    BY DEF TypingInit
  <1>2. typist = NoTypist /\ NoTypist \in [room : Visits, ref : BOOLEAN, timer : BOOLEAN]
        /\ ~NoTypist.timer /\ ~NoTypist.ref
    BY DEF TypingInit, NoTypist, Visits
  <1>3. TypingTypeOK
    BY <1>1, <1>2 DEF TypingInit, TypingTypeOK, Event, Command, Visits
  <1> QED BY <1>1, <1>2, <1>3 DEF TypingInit, TypingIInv, TypistInv, WireInv, CommandsInv

\* What an event on the wire does to the stops that are there.
LEMMA EmitKeeps ==
    ASSUME wire \in Seq(Event), NEW r \in Rooms, NEW b \in BOOLEAN, Emit(r, b)
    PROVE  /\ wire' \in Seq(Event)
           /\ \A i \in DOMAIN wire : i \in DOMAIN wire' /\ wire'[i] = wire[i]
           /\ \A i \in DOMAIN wire' : i \in DOMAIN wire \/ wire'[i] = [room |-> r, isTyping |-> b]
           /\ \A x, i : StopOnWire(x, i) => StopOnWire(x, i)'
           /\ ~b => \A i \in DOMAIN wire : StopOnWire(r, i)'
           /\ ~b => StopOnWire(r, 0)'
  <1> DEFINE e == [room |-> r, isTyping |-> b]
  <1>1. e \in Event /\ e.room = r /\ e.isTyping = b /\ wire' = Append(wire, e)
    BY DEF Emit, Event
  <1>2. wire' = Append(wire, e) /\ e = [room |-> r, isTyping |-> b]
    BY <1>1
  <1> HIDE DEF e
  <1>3. /\ wire' \in Seq(Event) /\ Len(wire') = Len(wire) + 1 /\ wire'[Len(wire')] = e /\ Len(wire') \in DOMAIN wire'
        /\ \A i \in DOMAIN wire : i \in DOMAIN wire' /\ wire'[i] = wire[i] /\ i < Len(wire') /\ i \in Nat
        /\ \A i \in DOMAIN wire' : i \in DOMAIN wire \/ wire'[i] = e
        /\ Len(wire') > 0
    BY <1>1
  <1>4. \A x, i : StopOnWire(x, i) => StopOnWire(x, i)'
    BY <1>3 DEF StopOnWire
  <1>5. ~b => (\A i \in DOMAIN wire : StopOnWire(r, i)') /\ StopOnWire(r, 0)'
    BY <1>1, <1>3 DEF StopOnWire
  <1> QED BY <1>2, <1>3, <1>4, <1>5

\* What travels is known by its room and its name.
LEMMA Elements ==
    ASSUME TypingTypeOK
    PROVE  /\ wire \in Seq(Event) /\ commands \in Seq(Command)
           /\ \A i \in DOMAIN wire : wire[i] \in Event /\ wire[i].room \in Rooms /\ wire[i].isTyping \in BOOLEAN
           /\ \A i \in DOMAIN commands : commands[i] \in Command /\ commands[i].room \in Rooms
  <1>1. wire \in Seq(Event) /\ commands \in Seq(Command)
    BY DEF TypingTypeOK, Event, Command
  <1>2. (\A i \in DOMAIN wire : wire[i] \in Event) /\ \A i \in DOMAIN commands : commands[i] \in Command
    BY <1>1
  <1> QED BY <1>1, <1>2 DEF Event, Command

\* A step that takes no stop away and adds no start keeps what there is.
LEMMA StopsStay ==
    ASSUME CommandsInv, UNCHANGED <<commands, heardIn, stopMissed>>,
           \A r \in Rooms : Armed(r) => Armed(r)' \/ StopOnWire(r, 0)',
           \A r \in Rooms : StopOnWire(r, 0) => StopOnWire(r, 0)'
    PROVE  CommandsInv'
  <1>1. \A r, i : StopAtRedis(r, i)' <=> StopAtRedis(r, i)
    BY DEF StopAtRedis
  <1> QED BY <1>1 DEF CommandsInv

LEMMA WireStays ==
    ASSUME WireInv,
           \A r \in Rooms : Armed(r) => Armed(r)' \/ \A i \in DOMAIN wire : StopOnWire(r, i)',
           \A r \in Rooms, i \in DOMAIN wire : StopOnWire(r, i) => StopOnWire(r, i)',
           \A i \in DOMAIN wire' : \/ i \in DOMAIN wire /\ wire'[i] = wire[i]
                                   \/ \A r \in Rooms : wire'[i].room = r /\ wire'[i].isTyping => Armed(r)'
    PROVE  WireInv'
  <1> SUFFICES ASSUME NEW r \in Rooms, NEW i \in DOMAIN wire', wire'[i].room = r, wire'[i].isTyping
               PROVE  Armed(r)' \/ StopOnWire(r, i)'
    BY DEF WireInv
  <1>2. CASE i \in DOMAIN wire /\ wire'[i] = wire[i]
    BY <1>2 DEF WireInv
  <1> QED BY <1>2

\* A timer, a page that sends or is left: what was started has its stop.
LEMMA TypistStep ==
    ASSUME TypingIInv,
           \/ Keystroke \/ StopTyping \/ HandleSend
           \/ (\E r \in Rooms : StopTypingLate(r))
           \/ (\E r \in Visits : OpenRoom(r))
    PROVE  TypingIInv'
  <1>0. /\ TypingTypeOK /\ TypistInv /\ wire \in Seq(Event) /\ typist \in [room : Visits, ref : BOOLEAN, timer : BOOLEAN]
        /\ typist.room # NoRoom => typist.room \in Rooms
    BY Elements DEF TypingIInv, TypingTypeOK, Visits
  <1>a. ASSUME wire' \in Seq(Event), typist' \in [room : Visits, ref : BOOLEAN, timer : BOOLEAN], oldTimers' \subseteq Rooms,
               UNCHANGED <<commands, redisTyping, readerRoom, heardIn, stopMissed>>
        PROVE  TypingTypeOK'
    BY <1>0, <1>a DEF TypingTypeOK, Event
  <1>b. ASSUME UNCHANGED <<commands, heardIn, stopMissed>>,
               \A r \in Rooms : Armed(r) => Armed(r)' \/ (StopOnWire(r, 0)' /\ \A i \in DOMAIN wire : StopOnWire(r, i)'),
               \A r, i : StopOnWire(r, i) => StopOnWire(r, i)',
               \A i \in DOMAIN wire' : \/ i \in DOMAIN wire /\ wire'[i] = wire[i]
                                       \/ \A r \in Rooms : wire'[i].room = r /\ wire'[i].isTyping => Armed(r)'
        PROVE  WireInv' /\ CommandsInv'
    BY <1>b, StopsStay, WireStays DEF TypingIInv
  <1>1. CASE Keystroke
    <2>1. /\ typist' = [typist EXCEPT !.ref = TRUE, !.timer = TRUE] /\ typist.room \in Rooms /\ UNCHANGED oldTimers
          /\ UNCHANGED <<commands, redisTyping, readerRoom, heardIn, stopMissed>>
      BY <1>0, <1>1 DEF Keystroke
    <2>2. /\ typist'.room = typist.room /\ typist'.ref /\ typist'.timer
          /\ typist' \in [room : Visits, ref : BOOLEAN, timer : BOOLEAN]
      BY <1>0, <2>1
    <2>3. (\A r \in Rooms : Armed(r) => Armed(r)') /\ Armed(typist.room)'
      BY <2>1, <2>2 DEF Armed
    <2>4. CASE typist.ref
      <3>1. UNCHANGED wire
        BY <1>1, <2>4 DEF Keystroke
      <3>2. \A r, i : StopOnWire(r, i) => StopOnWire(r, i)'
        BY <3>1 DEF StopOnWire
      <3>3. WireInv' /\ CommandsInv'
        BY <1>b, <2>1, <2>3, <3>1, <3>2
      <3>4. TypingTypeOK'
        BY <1>0, <1>a, <2>1, <2>2, <3>1 DEF TypingTypeOK
      <3>5. TypistInv'
        BY <2>1, <2>2, <1>1 DEF TypistInv, Keystroke
      <3> QED BY <3>3, <3>4, <3>5 DEF TypingIInv
    <2>5. CASE ~typist.ref
      <3>1. Emit(typist.room, TRUE)
        BY <1>1, <2>5 DEF Keystroke
      <3>2. /\ wire' \in Seq(Event)
            /\ \A i \in DOMAIN wire : i \in DOMAIN wire' /\ wire'[i] = wire[i]
            /\ \A i \in DOMAIN wire' : i \in DOMAIN wire \/ wire'[i] = [room |-> typist.room, isTyping |-> TRUE]
            /\ \A x, i : StopOnWire(x, i) => StopOnWire(x, i)'
        BY <1>0, <2>1, <3>1, EmitKeeps
      <3>3. \A i \in DOMAIN wire' : \/ i \in DOMAIN wire /\ wire'[i] = wire[i]
                                    \/ wire'[i].room = typist.room
        BY <3>2
      <3>4. \A i \in DOMAIN wire' : \/ i \in DOMAIN wire /\ wire'[i] = wire[i]
                                    \/ \A r \in Rooms : wire'[i].room = r /\ wire'[i].isTyping => Armed(r)'
        BY <2>1, <2>3, <3>3
      <3>5. WireInv' /\ CommandsInv'
        BY <1>b, <2>1, <2>3, <3>2, <3>4
      <3>6. TypingTypeOK'
        BY <1>0, <1>a, <2>1, <2>2, <3>2 DEF TypingTypeOK
      <3>7. TypistInv'
        BY <2>1, <2>2, <1>1 DEF TypistInv, Keystroke
      <3> QED BY <3>5, <3>6, <3>7 DEF TypingIInv
    <2> QED BY <2>4, <2>5
  <1> DEFINE Silent(r) == Emit(r, FALSE) /\ \A x \in Rooms \ {r} : Armed(x) => Armed(x)'
  <1>c. ASSUME NEW r \in Rooms, Silent(r), UNCHANGED <<commands, redisTyping, readerRoom, heardIn, stopMissed>>
        PROVE  wire' \in Seq(Event) /\ WireInv' /\ CommandsInv'
    <2>2. /\ wire' \in Seq(Event)
          /\ \A i \in DOMAIN wire : i \in DOMAIN wire' /\ wire'[i] = wire[i]
          /\ \A i \in DOMAIN wire' : i \in DOMAIN wire \/ wire'[i] = [room |-> r, isTyping |-> FALSE]
          /\ \A x, i : StopOnWire(x, i) => StopOnWire(x, i)'
          /\ (\A i \in DOMAIN wire : StopOnWire(r, i)') /\ StopOnWire(r, 0)'
      BY <1>0, <1>c, EmitKeeps
    <2>3. \A i \in DOMAIN wire' : (i \in DOMAIN wire /\ wire'[i] = wire[i]) \/ ~wire'[i].isTyping
      BY <2>2
    <2>4. \A x \in Rooms : Armed(x) => Armed(x)' \/ (StopOnWire(x, 0)' /\ \A i \in DOMAIN wire : StopOnWire(x, i)')
      BY <1>c, <2>2
    <2>5. WireInv' /\ CommandsInv'
      BY <1>b, <1>c, <2>2, <2>3, <2>4
    <2> QED BY <2>2, <2>5
  <1> DEFINE Off == [typist EXCEPT !.ref = FALSE, !.timer = FALSE]
  <1>d. Off \in [room : Visits, ref : BOOLEAN, timer : BOOLEAN] /\ Off.room = typist.room /\ ~Off.ref /\ ~Off.timer
    BY <1>0
  <1> HIDE DEF Off
  <1>2. CASE StopTyping \/ (HandleSend /\ typist.ref)
    <2>1. /\ typist' = Off /\ typist.room \in Rooms /\ Emit(typist.room, FALSE) /\ UNCHANGED oldTimers
          /\ UNCHANGED <<commands, redisTyping, readerRoom, heardIn, stopMissed>>
      BY <1>0, <1>2 DEF StopTyping, HandleSend, TypistInv, Off
    <2>2. Silent(typist.room)
      BY <1>d, <2>1 DEF Armed
    <2>3. wire' \in Seq(Event) /\ WireInv' /\ CommandsInv'
      BY <1>c, <2>1, <2>2
    <2>4. TypingTypeOK' /\ TypistInv'
      BY <1>0, <1>a, <1>d, <2>1, <2>3 DEF TypingTypeOK, TypistInv
    <2> QED BY <2>3, <2>4 DEF TypingIInv
  <1>3. CASE HandleSend /\ ~typist.ref
    <2>1. /\ typist' = Off /\ UNCHANGED oldTimers /\ UNCHANGED wire
          /\ UNCHANGED <<commands, redisTyping, readerRoom, heardIn, stopMissed>>
      BY <1>3 DEF HandleSend, Off
    <2>2. \A r : Armed(r) => Armed(r)'
      BY <1>0, <1>3, <2>1 DEF Armed, TypistInv
    <2>3. \A r, i : StopOnWire(r, i) => StopOnWire(r, i)'
      BY <2>1 DEF StopOnWire
    <2>4. TypingTypeOK' /\ TypistInv'
      BY <1>0, <1>a, <1>d, <2>1 DEF TypingTypeOK, TypistInv
    <2> QED BY <1>b, <2>1, <2>2, <2>3, <2>4 DEF TypingIInv
  <1>4. ASSUME NEW r \in Rooms, StopTypingLate(r) PROVE TypingIInv'
    <2>1. /\ oldTimers' = oldTimers \ {r} /\ Emit(r, FALSE) /\ UNCHANGED typist
          /\ UNCHANGED <<commands, redisTyping, readerRoom, heardIn, stopMissed>>
      BY <1>4 DEF StopTypingLate
    <2>2. Silent(r)
      BY <2>1 DEF Armed
    <2>3. wire' \in Seq(Event) /\ WireInv' /\ CommandsInv'
      BY <1>c, <2>1, <2>2
    <2>4. TypingTypeOK' /\ TypistInv'
      BY <1>0, <1>a, <2>1, <2>3 DEF TypingTypeOK, TypistInv
    <2> QED BY <2>3, <2>4 DEF TypingIInv
  <1>5. ASSUME NEW r \in Visits, OpenRoom(r) PROVE TypingIInv'
    <2>1. /\ typist' = [room |-> r, ref |-> FALSE, timer |-> FALSE] /\ UNCHANGED wire
          /\ oldTimers' = IF typist.timer THEN oldTimers \cup {typist.room} ELSE oldTimers
          /\ UNCHANGED <<commands, redisTyping, readerRoom, heardIn, stopMissed>>
      BY <1>5 DEF OpenRoom, NoTypist
    <2>2. \A x : Armed(x) => Armed(x)'
      BY <2>1 DEF Armed
    <2>3. \A x, i : StopOnWire(x, i) => StopOnWire(x, i)'
      BY <2>1 DEF StopOnWire
    <2>4. typist' \in [room : Visits, ref : BOOLEAN, timer : BOOLEAN] /\ ~typist'.timer /\ ~typist'.ref
      BY <2>1
    <2>5. oldTimers' \subseteq Rooms
      BY <1>0, <2>1 DEF TypingTypeOK, TypistInv
    <2>6. TypingTypeOK' /\ TypistInv'
      BY <1>0, <1>a, <2>1, <2>4, <2>5 DEF TypingTypeOK, TypistInv
    <2> QED BY <1>b, <2>1, <2>2, <2>3, <2>6 DEF TypingIInv
  <1> QED BY <1>1, <1>2, <1>3, <1>4, <1>5

\* The first of a sequence is taken: the others are one place nearer.
LEMMA TakenWire ==
    ASSUME wire \in Seq(Event), wire # << >>, wire' = Tail(wire)
    PROVE  /\ Head(wire) = wire[1] /\ 1 \in DOMAIN wire /\ wire' \in Seq(Event)
           /\ \A i \in DOMAIN wire' : i + 1 \in DOMAIN wire /\ wire'[i] = wire[i + 1]
           /\ \A i \in DOMAIN wire : i # 1 => i - 1 \in DOMAIN wire' /\ wire'[i - 1] = wire[i]
           /\ \A r \in Rooms, i \in DOMAIN wire' : StopOnWire(r, i + 1) => StopOnWire(r, i)'
           /\ \A r \in Rooms : StopOnWire(r, 1) => StopOnWire(r, 0)'
           /\ \A r \in Rooms : StopOnWire(r, 0) => StopOnWire(r, 0)' \/ (wire[1].room = r /\ ~wire[1].isTyping)
  <1>1. /\ Head(wire) = wire[1] /\ 1 \in DOMAIN wire /\ wire' \in Seq(Event) /\ DOMAIN wire \subseteq Nat
        /\ DOMAIN wire' \subseteq Nat
        /\ \A i \in DOMAIN wire' : i + 1 \in DOMAIN wire /\ wire'[i] = wire[i + 1]
        /\ \A i \in DOMAIN wire : i # 1 => i - 1 \in DOMAIN wire' /\ wire'[i - 1] = wire[i] /\ i > 1
    OBVIOUS
  <1>2. \A r \in Rooms, i \in DOMAIN wire' : StopOnWire(r, i + 1) => StopOnWire(r, i)'
    <2> SUFFICES ASSUME NEW r \in Rooms, NEW i \in DOMAIN wire', NEW j \in DOMAIN wire, j > i + 1, wire[j].room = r,
                        ~wire[j].isTyping
                 PROVE  \E k \in DOMAIN wire' : k > i /\ wire'[k].room = r /\ ~wire'[k].isTyping
      BY DEF StopOnWire
    <2>1. j - 1 \in DOMAIN wire' /\ j - 1 > i /\ wire'[j - 1] = wire[j]
      BY <1>1
    <2> QED BY <2>1
  <1>3. ASSUME NEW r \in Rooms, NEW j \in DOMAIN wire, j # 1, wire[j].room = r, ~wire[j].isTyping
        PROVE  StopOnWire(r, 0)'
    <2>1. j - 1 \in DOMAIN wire' /\ j - 1 > 0 /\ wire'[j - 1] = wire[j]
      BY <1>1, <1>3
    <2> QED BY <1>3, <2>1 DEF StopOnWire
  <1>4. \A r \in Rooms : StopOnWire(r, 1) => StopOnWire(r, 0)'
    BY <1>1, <1>3 DEF StopOnWire
  <1>5. \A r \in Rooms : StopOnWire(r, 0) => StopOnWire(r, 0)' \/ (wire[1].room = r /\ ~wire[1].isTyping)
    BY <1>1, <1>3 DEF StopOnWire
  <1> QED BY <1>1, <1>2, <1>4, <1>5

LEMMA TakenCommand ==
    ASSUME NEW s \in Seq(Command), commands \in Seq(Command), commands # << >>, commands' = Tail(commands) \o s
    PROVE  /\ Head(commands) = commands[1] /\ 1 \in DOMAIN commands /\ commands' \in Seq(Command)
           /\ \A i \in DOMAIN commands' : \/ i \in DOMAIN commands /\ i + 1 \in DOMAIN commands /\ commands'[i] = commands[i + 1]
                                          \/ \E k \in DOMAIN s : commands'[i] = s[k]
           /\ \A r \in Rooms, i \in DOMAIN commands : StopAtRedis(r, i + 1) => StopAtRedis(r, i)'
           /\ \A r \in Rooms : StopAtRedis(r, 0) =>
                 StopAtRedis(r, 0)' \/ (commands[1].room = r /\ commands[1].name = "hdel")
  <1>1. /\ Head(commands) = commands[1] /\ 1 \in DOMAIN commands /\ commands' \in Seq(Command)
        /\ DOMAIN commands \subseteq Nat /\ DOMAIN commands' \subseteq Nat
        /\ Tail(commands) \in Seq(Command) /\ Len(Tail(commands)) = Len(commands) - 1
    OBVIOUS
  <1>2. /\ Len(commands') = (Len(commands) - 1) + Len(s)
        /\ \A i \in 1 .. (Len(commands) - 1) : i \in DOMAIN commands' /\ commands'[i] = commands[i + 1]
        /\ \A i \in DOMAIN commands' : i > Len(commands) - 1 =>
              i - (Len(commands) - 1) \in DOMAIN s /\ commands'[i] = s[i - (Len(commands) - 1)]
    BY <1>1
  <1>3. \A i \in DOMAIN commands' : \/ i \in DOMAIN commands /\ i + 1 \in DOMAIN commands /\ commands'[i] = commands[i + 1]
                                    \/ \E k \in DOMAIN s : commands'[i] = s[k]
    BY <1>1, <1>2
  <1>4. \A i \in DOMAIN commands : i # 1 => i - 1 \in DOMAIN commands' /\ commands'[i - 1] = commands[i] /\ i > 1
    <2> SUFFICES ASSUME NEW i \in DOMAIN commands, i # 1
                 PROVE  i - 1 \in DOMAIN commands' /\ commands'[i - 1] = commands[i] /\ i > 1
      OBVIOUS
    <2>1. i - 1 \in 1 .. (Len(commands) - 1) /\ (i - 1) + 1 = i /\ i > 1
      OBVIOUS
    <2> QED BY <1>2, <2>1
  <1>5. ASSUME NEW r \in Rooms, NEW i \in Nat, StopAtRedis(r, i + 1) PROVE StopAtRedis(r, i)'
    <2>1. PICK j \in DOMAIN commands : j > i + 1 /\ commands[j].room = r /\ commands[j].name = "hdel"
      BY <1>5 DEF StopAtRedis
    <2>2. j - 1 \in DOMAIN commands' /\ j - 1 > i /\ commands'[j - 1] = commands[j]
      BY <1>1, <1>4, <2>1
    <2> QED BY <2>1, <2>2 DEF StopAtRedis
  <1>6. ASSUME NEW r \in Rooms, StopAtRedis(r, 0)
        PROVE  StopAtRedis(r, 0)' \/ (commands[1].room = r /\ commands[1].name = "hdel")
    <2>1. PICK j \in DOMAIN commands : j > 0 /\ commands[j].room = r /\ commands[j].name = "hdel"
      BY <1>6 DEF StopAtRedis
    <2>2. CASE j # 1
      <3>1. j - 1 \in DOMAIN commands' /\ j - 1 > 0 /\ commands'[j - 1] = commands[j]
        BY <1>1, <1>4, <2>1, <2>2
      <3> QED BY <2>1, <3>1 DEF StopAtRedis
    <2> QED BY <2>1, <2>2
  <1> QED BY <1>1, <1>3, <1>5, <1>6

\* handleTyping: what was on the wire is at Redis, the start with its stop behind it.
LEMMA HandleTypingStep == TypingIInv /\ HandleTyping => TypingIInv'
  <1> SUFFICES ASSUME TypingIInv, HandleTyping PROVE TypingIInv'
    OBVIOUS
  <1> DEFINE name == IF Head(wire).isTyping THEN "hset" ELSE "hdel"
             c == [room |-> Head(wire).room, name |-> name]
  <1>1. /\ TypingTypeOK /\ wire \in Seq(Event) /\ commands \in Seq(Command) /\ wire # << >>
        /\ wire' = Tail(wire) /\ commands' = Append(commands, c)
        /\ UNCHANGED <<typist, oldTimers, redisTyping, readerRoom, heardIn, stopMissed>>
    BY Elements DEF TypingIInv, HandleTyping
  <1>2. /\ Head(wire) = wire[1] /\ 1 \in DOMAIN wire /\ wire' \in Seq(Event)
        /\ \A i \in DOMAIN wire' : i + 1 \in DOMAIN wire /\ wire'[i] = wire[i + 1]
        /\ \A r \in Rooms, i \in DOMAIN wire' : StopOnWire(r, i + 1) => StopOnWire(r, i)'
        /\ \A r \in Rooms : StopOnWire(r, 1) => StopOnWire(r, 0)'
        /\ \A r \in Rooms : StopOnWire(r, 0) => StopOnWire(r, 0)' \/ (wire[1].room = r /\ ~wire[1].isTyping)
    BY <1>1, TakenWire
  <1>3. c \in Command /\ c.room = wire[1].room /\ c.name \in {"hset", "hdel"} /\ (c.name = "hset" <=> wire[1].isTyping)
    BY <1>1, <1>2, Elements DEF Command
  <1> HIDE DEF c, name
  <1>4. /\ commands' \in Seq(Command) /\ Len(commands') = Len(commands) + 1 /\ commands'[Len(commands')] = c
        /\ Len(commands') \in DOMAIN commands' /\ Len(commands') > 0
        /\ \A i \in DOMAIN commands : i \in DOMAIN commands' /\ commands'[i] = commands[i] /\ i < Len(commands')
        /\ \A i \in DOMAIN commands' : i \in DOMAIN commands \/ i = Len(commands')
    BY <1>1, <1>3
  <1>5. \A r : Armed(r)' <=> Armed(r)
    BY <1>1 DEF Armed
  <1>6. \A r, i : StopAtRedis(r, i) => StopAtRedis(r, i)'
    BY <1>4 DEF StopAtRedis
  <1>7. ASSUME NEW r \in Rooms, wire[1].room = r, ~wire[1].isTyping
        PROVE  StopAtRedis(r, 0)' /\ \A i \in DOMAIN commands : StopAtRedis(r, i)'
    BY <1>3, <1>4, <1>7 DEF StopAtRedis
  <1>8. WireInv'
    <2>1. ASSUME NEW r \in Rooms, NEW i \in DOMAIN wire', wire'[i].room = r, wire'[i].isTyping
          PROVE  Armed(r)' \/ StopOnWire(r, i)'
      BY <1>2, <1>5, <2>1 DEF TypingIInv, WireInv
    <2> QED BY <2>1 DEF WireInv
  <1>9. CommandsInv'
    <2> SUFFICES ASSUME ~stopMissed, NEW r \in Rooms
                 PROVE  /\ \A i \in DOMAIN commands' : commands'[i].room = r /\ commands'[i].name = "hset"
                                         => Armed(r)' \/ StopOnWire(r, 0)' \/ StopAtRedis(r, i)'
                        /\ \A i \in DOMAIN commands' : commands'[i].room = r /\ commands'[i].name = "expire"
                                         => Armed(r)' \/ StopOnWire(r, 0)' \/ StopAtRedis(r, 0)'
                        /\ heardIn = r /\ r # NoRoom => Armed(r)' \/ StopOnWire(r, 0)' \/ StopAtRedis(r, 0)'
      BY <1>1 DEF CommandsInv
    <2>1. ASSUME NEW i \in DOMAIN commands', commands'[i].room = r, commands'[i].name = "hset"
          PROVE  Armed(r)' \/ StopOnWire(r, 0)' \/ StopAtRedis(r, i)'
      <3>1. CASE i \in DOMAIN commands
        BY <1>2, <1>4, <1>5, <1>6, <1>7, <2>1, <3>1 DEF TypingIInv, CommandsInv
      <3>2. CASE i = Len(commands')
        <4>1. wire[1].room = r /\ wire[1].isTyping
          BY <1>3, <1>4, <2>1, <3>2
        <4>2. Armed(r) \/ StopOnWire(r, 1)
          BY <1>2, <4>1 DEF TypingIInv, WireInv
        <4> QED BY <1>2, <1>5, <4>2
      <3> QED BY <1>4, <3>1, <3>2
    <2>2. ASSUME NEW i \in DOMAIN commands', commands'[i].room = r, commands'[i].name = "expire"
          PROVE  Armed(r)' \/ StopOnWire(r, 0)' \/ StopAtRedis(r, 0)'
      <3>1. i \in DOMAIN commands /\ commands[i] = commands'[i]
        BY <1>3, <1>4, <2>2
      <3> QED BY <1>2, <1>5, <1>6, <1>7, <2>2, <3>1 DEF TypingIInv, CommandsInv
    <2>3. heardIn = r /\ r # NoRoom => Armed(r)' \/ StopOnWire(r, 0)' \/ StopAtRedis(r, 0)'
      BY <1>2, <1>5, <1>6, <1>7 DEF TypingIInv, CommandsInv
    <2> QED BY <2>1, <2>2, <2>3
  <1>10. TypingTypeOK'
    BY <1>1, <1>2, <1>4 DEF TypingTypeOK, Event, Command
  <1>11. TypistInv'
    BY <1>1 DEF TypingIInv, TypistInv
  <1> QED BY <1>8, <1>9, <1>10, <1>11 DEF TypingIInv

\* The gateway: the first command is answered, and a start may wait for its second.
LEMMA RedisStep ==
    ASSUME TypingIInv, SetTyping \/ TellStart \/ TellStop \/ CommandFails
    PROVE  TypingIInv'
  <1> DEFINE c == commands[1]
             x == [room |-> c.room, name |-> "expire"]
             s == IF SetTyping THEN << x >> ELSE << >>
  <1>1. /\ TypingTypeOK /\ wire \in Seq(Event) /\ commands \in Seq(Command) /\ commands # << >>
        /\ Head(commands) = c /\ c \in Command /\ c.room \in Rooms
        /\ UNCHANGED <<typist, oldTimers, wire, readerRoom>>
    BY Elements DEF TypingIInv, SetTyping, TellStart, TellStop, CommandFails, TellRoom, Hear
  <1>2. x \in Command /\ x.room = c.room /\ x.name = "expire" /\ [c EXCEPT !.name = "expire"] = x
    BY <1>1 DEF Command
  <1> HIDE DEF c, x
  <1>3. s \in Seq(Command) /\ \A k \in DOMAIN s : s[k] = x
    BY <1>2
  <1>4. commands' = Tail(commands) \o s
    <2>1. CASE SetTyping
      <3>1. commands' = Append(Tail(commands), x) /\ s = << x >>
        BY <1>1, <1>2, <2>1 DEF SetTyping
      <3>2. Tail(commands) \in Seq(Command)
        BY <1>1
      <3> QED BY <1>2, <3>1, <3>2
    <2>2. CASE ~SetTyping
      <3>1. commands' = Tail(commands) /\ s = << >>
        BY <2>2 DEF TellStart, TellStop, CommandFails
      <3>2. Tail(commands) \in Seq(Command)
        BY <1>1
      <3> QED BY <3>1, <3>2
    <2> QED BY <2>1, <2>2
  <1>5. /\ commands' \in Seq(Command)
        /\ \A i \in DOMAIN commands' : \/ i \in DOMAIN commands /\ i + 1 \in DOMAIN commands /\ commands'[i] = commands[i + 1]
                                       \/ commands'[i] = x /\ SetTyping
        /\ \A r \in Rooms, i \in DOMAIN commands : StopAtRedis(r, i + 1) => StopAtRedis(r, i)'
        /\ \A r \in Rooms : StopAtRedis(r, 0) => StopAtRedis(r, 0)' \/ (c.room = r /\ c.name = "hdel")
    <2> HIDE DEF s
    <2>1. \A i \in DOMAIN commands' : \/ i \in DOMAIN commands /\ i + 1 \in DOMAIN commands /\ commands'[i] = commands[i + 1]
                                      \/ \E k \in DOMAIN s : commands'[i] = s[k]
      BY <1>1, <1>3, <1>4, TakenCommand
    <2>2. \A k \in DOMAIN s : s[k] = x /\ SetTyping
      BY <1>3 DEF s
    <2>3. /\ commands' \in Seq(Command)
          /\ \A r \in Rooms, i \in DOMAIN commands : StopAtRedis(r, i + 1) => StopAtRedis(r, i)'
          /\ \A r \in Rooms : StopAtRedis(r, 0) => StopAtRedis(r, 0)' \/ (c.room = r /\ c.name = "hdel")
      BY <1>1, <1>3, <1>4, TakenCommand DEF c
    <2> QED BY <2>1, <2>2, <2>3
  <1> HIDE DEF s
  <1>6. (\A r : Armed(r)' <=> Armed(r)) /\ \A r, i : StopOnWire(r, i)' <=> StopOnWire(r, i)
    BY <1>1 DEF Armed, StopOnWire
  <1>7. WireInv' /\ TypistInv'
    BY <1>1, <1>6 DEF TypingIInv, WireInv, TypistInv
  <1>8. redisTyping' \subseteq Rooms /\ heardIn' \in Visits /\ stopMissed' \in BOOLEAN
    <2>a. redisTyping \subseteq Rooms /\ heardIn \in Visits /\ stopMissed \in BOOLEAN
      BY <1>1 DEF TypingTypeOK
    <2>1. CASE SetTyping
      BY <1>1, <2>a, <2>1 DEF SetTyping
    <2>2. CASE CommandFails
      <3>1. stopMissed' \in BOOLEAN
        BY <2>2, Zenon DEF CommandFails
      <3> QED BY <2>a, <2>2, <3>1 DEF CommandFails
    <2>3. ASSUME NEW b \in BOOLEAN, TellRoom(c.room, b) PROVE heardIn' \in Visits /\ stopMissed' \in BOOLEAN
      <3>1. heardIn' \in Visits
        BY <1>1, <2>a, <2>3 DEF TellRoom, Hear, Visits
      <3>2. stopMissed' \in BOOLEAN
        BY <2>a, <2>3, Zenon DEF TellRoom
      <3> QED BY <3>1, <3>2
    <2>4. CASE TellStart
      BY <1>1, <2>a, <2>3, <2>4 DEF TellStart
    <2>5. CASE TellStop
      BY <1>1, <2>a, <2>3, <2>5 DEF TellStop
    <2> QED BY <2>1, <2>2, <2>4, <2>5
  <1>9. TypingTypeOK'
    BY <1>1, <1>5, <1>8 DEF TypingTypeOK, Event, Command
  <1>10. ASSUME TellStop, stopMissed, ~stopMissed'
         PROVE  heardIn' = NoRoom /\ \A i \in DOMAIN commands : commands[i].name = "hdel"
    BY <1>1, <1>10 DEF TellStop, TellRoom, Hear
  <1>11. ASSUME ~stopMissed', ~(TellStop /\ stopMissed)
         PROVE  /\ ~stopMissed
                /\ c.name = "hdel" => \A i \in DOMAIN commands : commands[i] # [room |-> c.room, name |-> "expire"]
                /\ c.name = "hdel" => heardIn' = NoRoom \/ (heardIn' = heardIn /\ heardIn # c.room)
                /\ c.name = "hset" => heardIn' = heardIn
                /\ c.name = "expire" => heardIn' \in {heardIn, c.room}
    <2>1. CASE SetTyping
      BY <1>1, <1>11, <2>1 DEF SetTyping
    <2>2. CASE CommandFails
      BY <1>1, <1>11, <2>2 DEF CommandFails
    <2>3. CASE TellStart
      BY <1>1, <1>11, <2>3 DEF TellStart, TellRoom, Hear
    <2>4. CASE TellStop
      <3>1. ~stopMissed /\ c.name = "hdel" /\ TellRoom(c.room, FALSE)
        BY <1>1, <1>11, <2>4 DEF TellStop
      <3>2. CASE readerRoom = c.room
        BY <1>11, <3>1, <3>2 DEF TellRoom, Hear
      <3>3. CASE readerRoom # c.room
        BY <1>11, <3>1, <3>3 DEF TellRoom
      <3> QED BY <3>1, <3>2, <3>3
    <2> QED BY <2>1, <2>2, <2>3, <2>4
  <1>12. c.name \in {"hset", "expire", "hdel"} /\ (SetTyping => c.name = "hset") /\ 1 \in DOMAIN commands /\ commands[1] = c
    BY <1>1 DEF Command, SetTyping, c
  <1>13. CommandsInv'
    <2>1. CASE TellStop /\ stopMissed
      <3>1. ~SetTyping
        BY <1>1, <2>1 DEF TellStop, SetTyping
      <3>2. ~stopMissed' => heardIn' = NoRoom /\ \A i \in DOMAIN commands' : commands'[i].name = "hdel"
        BY <1>5, <1>10, <2>1, <3>1
      <3> QED BY <3>2 DEF CommandsInv
    <2>2. CASE ~(TellStop /\ stopMissed)
      <3> SUFFICES ASSUME ~stopMissed', NEW r \in Rooms
                   PROVE  /\ \A i \in DOMAIN commands' : commands'[i].room = r /\ commands'[i].name = "hset"
                                         => Armed(r)' \/ StopOnWire(r, 0)' \/ StopAtRedis(r, i)'
                          /\ \A i \in DOMAIN commands' : commands'[i].room = r /\ commands'[i].name = "expire"
                                         => Armed(r)' \/ StopOnWire(r, 0)' \/ StopAtRedis(r, 0)'
                          /\ heardIn' = r /\ r # NoRoom => Armed(r)' \/ StopOnWire(r, 0)' \/ StopAtRedis(r, 0)'
        BY DEF CommandsInv
      <3>0. ~stopMissed
        BY <1>11, <2>2
      <3>1. ASSUME NEW i \in DOMAIN commands', commands'[i].room = r, commands'[i].name = "hset"
            PROVE  Armed(r)' \/ StopOnWire(r, 0)' \/ StopAtRedis(r, i)'
        <4>1. i \in DOMAIN commands /\ i + 1 \in DOMAIN commands /\ commands'[i] = commands[i + 1]
          BY <1>2, <1>5, <3>1
        <4> QED BY <1>5, <1>6, <3>0, <3>1, <4>1 DEF TypingIInv, CommandsInv
      <3>2. ASSUME NEW i \in DOMAIN commands', commands'[i].room = r, commands'[i].name = "expire"
            PROVE  Armed(r)' \/ StopOnWire(r, 0)' \/ StopAtRedis(r, 0)'
        <4>1. CASE i \in DOMAIN commands /\ i + 1 \in DOMAIN commands /\ commands'[i] = commands[i + 1]
          <5>1. ~(c.room = r /\ c.name = "hdel")
            <6>1. commands[i + 1] \in Command
              BY <1>1, <4>1
            <6>2. commands[i + 1] = [room |-> r, name |-> "expire"]
              BY <3>2, <4>1, <6>1 DEF Command
            <6> QED BY <1>11, <2>2, <4>1, <6>2
          <5>2. Armed(r) \/ StopOnWire(r, 0) \/ StopAtRedis(r, 0)
            BY <3>0, <3>2, <4>1 DEF TypingIInv, CommandsInv
          <5> QED BY <1>5, <1>6, <5>1, <5>2
        <4>2. CASE commands'[i] = x /\ SetTyping
          <5>1. c.room = r /\ c.name = "hset"
            BY <1>2, <1>12, <3>2, <4>2
          <5>2. Armed(r) \/ StopOnWire(r, 0) \/ StopAtRedis(r, 1)
            BY <1>12, <3>0, <5>1 DEF TypingIInv, CommandsInv
          <5>3. StopAtRedis(r, 1) => StopAtRedis(r, 0)
            BY <1>1 DEF StopAtRedis
          <5> QED BY <1>5, <1>6, <5>1, <5>2, <5>3
        <4> QED BY <1>5, <4>1, <4>2
      <3>3. ASSUME heardIn' = r, r # NoRoom
            PROVE  Armed(r)' \/ StopOnWire(r, 0)' \/ StopAtRedis(r, 0)'
        <4>1. ~(c.room = r /\ c.name = "hdel")
          BY <1>11, <2>2, <3>3
        <4>2. heardIn = r \/ (c.room = r /\ c.name = "expire")
          BY <1>11, <1>12, <2>2, <3>3
        <4>3. Armed(r) \/ StopOnWire(r, 0) \/ StopAtRedis(r, 0)
          BY <1>12, <3>0, <3>3, <4>2 DEF TypingIInv, CommandsInv
        <4> QED BY <1>5, <1>6, <4>1, <4>3
      <3> QED BY <3>1, <3>2, <3>3
    <2> QED BY <2>1, <2>2
  <1> QED BY <1>7, <1>9, <1>13 DEF TypingIInv

LEMMA TypingStep == TypingIInv /\ [TypingNext]_typingVars => TypingIInv'
  <1> SUFFICES ASSUME TypingIInv, [TypingNext]_typingVars PROVE TypingIInv'
    OBVIOUS
  <1>0. TypingTypeOK
    BY DEF TypingIInv
  <1>1. CASE CloseBrowser
    <2>1. /\ wire' = << >> /\ wire' \in Seq(Event) /\ DOMAIN wire' = {}
          /\ typist' = NoTypist /\ NoTypist \in [room : Visits, ref : BOOLEAN, timer : BOOLEAN]
          /\ ~NoTypist.timer /\ ~NoTypist.ref /\ stopMissed' = TRUE /\ oldTimers' = {}
          /\ UNCHANGED <<commands, redisTyping, readerRoom, heardIn>>
      BY <1>1 DEF CloseBrowser, NoTypist, Visits
    <2>2. TypingTypeOK'
      BY <1>0, <2>1 DEF TypingTypeOK, Event
    <2> QED BY <2>1, <2>2 DEF TypingIInv, TypistInv, WireInv, CommandsInv
  <1>2. ASSUME UNCHANGED <<typist, oldTimers, wire, commands, heardIn, stopMissed>>, redisTyping' \subseteq Rooms,
               readerRoom' \in Visits
        PROVE  TypingIInv'
    <2>1. /\ \A r : Armed(r)' <=> Armed(r)
          /\ \A r, i : StopOnWire(r, i)' <=> StopOnWire(r, i)
          /\ \A r, i : StopAtRedis(r, i)' <=> StopAtRedis(r, i)
      BY <1>2 DEF Armed, StopOnWire, StopAtRedis
    <2>2. TypingTypeOK'
      BY <1>0, <1>2 DEF TypingTypeOK
    <2>3. TypistInv' /\ WireInv' /\ CommandsInv'
      BY <1>2, <2>1 DEF TypingIInv, TypistInv, WireInv, CommandsInv
    <2> QED BY <2>2, <2>3 DEF TypingIInv
  <1>3. CASE UNCHANGED typingVars
    BY <1>0, <1>2, <1>3 DEF typingVars, TypingTypeOK
  <1>4. ASSUME NEW r \in Rooms, TypingExpires(r) PROVE TypingIInv'
    BY <1>0, <1>2, <1>4 DEF TypingExpires, TypingTypeOK
  <1>5. ASSUME NEW r \in Visits, ReaderOpens(r) PROVE TypingIInv'
    BY <1>0, <1>2, <1>5 DEF ReaderOpens, TypingTypeOK
  <1> QED BY <1>1, <1>3, <1>4, <1>5, TypistStep, HandleTypingStep, RedisStep DEF TypingNext

\* The invariant says who is shown.
LEMMA TypingIs == TypingIInv => TypingInv
  <1> SUFFICES ASSUME TypingIInv, heardIn # NoRoom, ~stopMissed PROVE Armed(heardIn) \/ Under(heardIn)
    BY DEF TypingIInv, TypingInv, StopIsComing
  <1>1. heardIn \in Rooms
    BY DEF TypingIInv, TypingTypeOK, Visits
  <1>2. Armed(heardIn) \/ StopOnWire(heardIn, 0) \/ StopAtRedis(heardIn, 0)
    BY <1>1 DEF TypingIInv, CommandsInv
  <1>3. ASSUME StopOnWire(heardIn, 0) PROVE Under(heardIn)
    <2>1. PICK j \in DOMAIN wire : wire[j].room = heardIn /\ ~wire[j].isTyping
      BY <1>3 DEF StopOnWire
    <2>2. wire[j] \in Event
      BY Elements DEF TypingIInv
    <2>3. wire[j] = [room |-> heardIn, isTyping |-> FALSE]
      BY <2>1, <2>2 DEF Event
    <2> QED BY <2>3 DEF Under
  <1>4. ASSUME StopAtRedis(heardIn, 0) PROVE Under(heardIn)
    <2>1. PICK j \in DOMAIN commands : commands[j].room = heardIn /\ commands[j].name = "hdel"
      BY <1>4 DEF StopAtRedis
    <2>2. commands[j] \in Command
      BY Elements DEF TypingIInv
    <2>3. commands[j] = [room |-> heardIn, name |-> "hdel"]
      BY <2>1, <2>2 DEF Command
    <2> QED BY <2>3 DEF Under
  <1> QED BY <1>2, <1>3, <1>4

--------------------------------------------------------------------------------
(* Broadcasts and their feed (Broadcasts) *)

RowType   == [in : SUBSET Channels, seq : Nat, at : 0 .. MaxMessages]
PaperType == [at : {"idle", "checked", "answered", "done", "failed"}, to : Channels, seq : Nat, when : 0 .. MaxMessages]
FetchType == [at : {"idle", "asked", "got", "failed"}, cursor : 1 .. Never, items : Seq(Texts),
              more : BOOLEAN, fresh : BOOLEAN]

BroadcastTypes ==
    /\ channelLog \in [Channels -> Seq(Texts)] /\ stored \in [Texts -> RowType]
    /\ publication \in [NewTexts -> PaperType] /\ clock \in 0 .. MaxMessages
    /\ lost \subseteq NewTexts /\ subscribed \subseteq Channels
    /\ feed \in Seq(Texts) /\ nextCursor \in 1 .. Never /\ fetch \in [Fetches -> FetchType]
    /\ isSubscribing \in {"idle", "sent", "reload", "failed"} /\ isPublishing \in NewTexts \cup {Silence}
    /\ hasMore \in BOOLEAN /\ isLoading \in BOOLEAN /\ mixed \in BOOLEAN

\* A text has a date when its row has one, or waits to be stored with it.
HasRow(t)  == stored[t].in # {}
Waits(t)   == t \in NewTexts /\ publication[t].at = "answered"
Date(t)    == IF HasRow(t) THEN stored[t].at ELSE publication[t].when

\* No two have the same date, and who waits has no row yet; a row is stored once.
DatesInv ==
    /\ \A t \in Texts : HasRow(t) \/ Waits(t) => Date(t) \in 1 .. clock
    /\ \A t, u \in Texts : (HasRow(t) \/ Waits(t)) /\ (HasRow(u) \/ Waits(u)) /\ Date(t) = Date(u) => t = u
    /\ \A t \in Texts : ~HasRow(t) => stored[t] = NoRow
    /\ \A t \in NewTexts : HasRow(t) => publication[t].at = "done"
    /\ \A t \in NewTexts : publication[t].at = "done" => HasRow(t)
    /\ \A t \in Texts \ NewTexts : HasRow(t)

IsAt(t, c, i) == i \in DOMAIN channelLog[c] /\ channelLog[c][i] = t

\* What is on the topics of a text, by how far its publication is.
LogInv ==
    /\ \A t \in Texts, c \in Channels, i \in Nat : c \in stored[t].in /\ i = stored[t].seq => IsAt(t, c, i)
    /\ \A t \in NewTexts, c \in Channels, i \in Nat :
          Waits(t) /\ c = publication[t].to /\ i = publication[t].seq => IsAt(t, c, i)
    /\ \A t \in Texts \ lost, c, d \in Channels, i, j \in Nat : IsAt(t, c, i) /\ IsAt(t, d, j) => c = d /\ i = j
    /\ \A t \in NewTexts \ lost, c \in Channels, i \in Nat :
          publication[t].at \in {"idle", "checked", "failed"} => ~IsAt(t, c, i)

\* Whatever is under way: an answer has rows only, and a cursor is the date of one.
IsCursor(n) == n = Never \/ \E u \in Texts : HasRow(u) /\ stored[u].at = n
RowsHeld(f) ==
    /\ IsCursor(f.cursor)
    /\ f.more => f.items # <<>>
    /\ \A i \in DOMAIN f.items : HasRow(f.items[i])
HeldInv == IsCursor(nextCursor) /\ \A l \in Fetches : RowsHeld(fetch[l])

Visible(t) == stored[t].in \cap subscribed # {}
Falling(s) == \A i, j \in DOMAIN s : i < j => Later(s[i], s[j])
Listed(s)  == \A i \in DOMAIN s : Visible(s[i])
Has(s, t)  == \E k \in DOMAIN s : s[k] = t

Between(s) == \A t \in Texts, i, j \in DOMAIN s : Visible(t) /\ Later(s[i], t) /\ Later(t, s[j]) => Has(s, t)
Page(s)    == Falling(s) /\ Listed(s) /\ Between(s)

\* The pages shown, and where the next one begins.
FeedWhole ==
    ~mixed => Page(feed) /\ (hasMore => feed # <<>> /\ nextCursor = stored[feed[Len(feed)]].at)

\* An answer of one moment has what there is behind its cursor, down to its last row.
Behind(s, c) ==
    /\ Falling(s) /\ Listed(s)
    /\ \A i \in DOMAIN s : stored[s[i]].at < c
    /\ \A t \in Texts, j \in DOMAIN s :
          Visible(t) /\ stored[t].at < c /\ Later(t, s[j]) /\ (c = Never => Later(s[1], t)) => Has(s, t)
AnswersInv ==
    \A l \in Fetches : fetch[l].at = "got" /\ fetch[l].fresh => Behind(fetch[l].items, fetch[l].cursor)

\* One load at most is under way for a further page, and it is the next one.
MoreInv ==
    ~mixed => \A l \in Fetches : fetch[l].cursor # Never =>
                 /\ hasMore /\ fetch[l].cursor = nextCursor
                 /\ \A k \in Fetches \ {l} : fetch[k].cursor = Never

BroadcastIInv == BroadcastTypes /\ DatesInv /\ LogInv /\ HeldInv /\ FeedWhole /\ AnswersInv /\ MoreInv

\* The invariant says what the feed shows.
LEMMA BroadcastIs == BroadcastIInv => BroadcastInv
  <1> SUFFICES ASSUME BroadcastIInv PROVE BroadcastInv
    OBVIOUS
  <1>0. BroadcastTypes /\ MaxMessages \in Nat /\ 0 .. MaxMessages \subseteq 0 .. Never
    BY BroadcastAssumption DEF BroadcastIInv, Never
  <1>1. BroadcastTypeOK
    <2>1. /\ \A l \in Fetches : fetch[l].at \in {"idle", "asked", "got", "failed"} /\ fetch[l].cursor \in 1 .. Never
          /\ \A c \in Channels : channelLog[c] \in Seq(Texts)
      BY <1>0 DEF BroadcastTypes, FetchType
    <2>2. stored \in [Texts -> [in : SUBSET Channels, seq : Nat, at : 0 .. Never]]
      <3>1. RowType \subseteq [in : SUBSET Channels, seq : Nat, at : 0 .. Never]
        BY <1>0 DEF RowType
      <3> QED BY <1>0, <3>1 DEF BroadcastTypes
    <2>3. publication \in [NewTexts -> [at : {"idle", "checked", "answered", "done", "failed"},
                                        to : Channels, seq : Nat, when : 0 .. Never]]
      <3>1. PaperType \subseteq [at : {"idle", "checked", "answered", "done", "failed"},
                                 to : Channels, seq : Nat, when : 0 .. Never]
        BY <1>0 DEF PaperType
      <3> QED BY <1>0, <3>1 DEF BroadcastTypes
    <2>4. {hasMore, isLoading, mixed} \subseteq BOOLEAN
      BY <1>0 DEF BroadcastTypes
    <2> QED BY <1>0, <2>1, <2>2, <2>3, <2>4 DEF BroadcastTypeOK, BroadcastTypes
  <1>2. RowsAreOnTopic
    <2>1. ASSUME NEW t \in Texts, NEW x PROVE x \in Copies(t) <=> \E c \in Channels, i \in Nat : x = <<c, i>> /\ IsAt(t, c, i)
      <3>1. \A c \in Channels : DOMAIN channelLog[c] \subseteq Nat
        <4>1. \A c \in Channels : channelLog[c] \in Seq(Texts)
          BY <1>0 DEF BroadcastTypes
        <4> QED BY <4>1
      <3> QED BY <3>1 DEF Copies, IsAt
    <2>2. ASSUME NEW t \in Texts, NEW c \in stored[t].in PROVE <<c, stored[t].seq>> \in Copies(t)
      <3>1. c \in Channels /\ stored[t].seq \in Nat /\ IsAt(t, c, stored[t].seq)
        BY <1>0, <2>2 DEF BroadcastIInv, LogInv, BroadcastTypes, RowType
      <3> QED BY <2>1, <3>1
    <2>3. ASSUME NEW t \in Texts, t \notin lost PROVE \A x, y \in Copies(t) : x = y
      BY <2>1, <2>3 DEF BroadcastIInv, LogInv
    <2>4. ASSUME NEW t \in Texts, Copies(t) # {}, stored[t] = NoRow, t \notin lost
          PROVE  t \in NewTexts /\ publication[t].at = "answered"
      <3>1. ~HasRow(t)
        BY <2>4 DEF HasRow, NoRow
      <3>2. t \in NewTexts /\ publication[t].at # "done"
        BY <3>1 DEF BroadcastIInv, DatesInv
      <3>3. PICK c \in Channels, i \in Nat : IsAt(t, c, i)
        BY <2>1, <2>4
      <3>4. publication[t].at \notin {"idle", "checked", "failed"}
        BY <2>4, <3>2, <3>3 DEF BroadcastIInv, LogInv
      <3>5. publication[t].at \in {"idle", "checked", "answered", "done", "failed"}
        BY <1>0, <3>2 DEF BroadcastTypes, PaperType
      <3> QED BY <3>2, <3>4, <3>5
    <2> QED BY <2>2, <2>3, <2>4 DEF RowsAreOnTopic
  <1>3. PagesAreWhole
    <2>1. feed \in Seq(Texts) /\ DOMAIN feed = 1 .. Len(feed)
      BY <1>0 DEF BroadcastTypes
    <2> QED BY <2>1 DEF BroadcastIInv, FeedWhole, Page, Between, PagesAreWhole, Falling, Visible, Has
  <1> QED BY <1>1, <1>2, <1>3 DEF BroadcastInv

--------------------------------------------------------------------------------
(* Rows in their order *)

\* Finitely many rows of different dates have an order: the latest, and then the others.
LEMMA OrderExists ==
    ASSUME BroadcastTypes, NEW n \in Nat, NEW S \in SUBSET Texts, IsFiniteSet(S), Cardinality(S) = n,
           \A t, u \in S : stored[t].at = stored[u].at => t = u
    PROVE  \E s \in [1 .. n -> S] : (\A t \in S : \E i \in 1 .. n : s[i] = t)
                                    /\ \A i, j \in 1 .. n : i < j => Later(s[i], s[j])
  <1> DEFINE Ordered(X, m) == \E s \in [1 .. m -> X] : (\A t \in X : \E i \in 1 .. m : s[i] = t)
                                                       /\ \A i, j \in 1 .. m : i < j => Later(s[i], s[j])
             Bad == {m \in Nat : \E X \in SUBSET S : Cardinality(X) = m /\ ~Ordered(X, m)}
  <1>1. Bad = {}
    <2> SUFFICES ASSUME Bad # {} PROVE FALSE
      OBVIOUS
    <2>1. PICK m \in Bad : \A k \in Bad : <<k, m>> \notin OpToRel(<, Nat)
      BY WFMin, NatLessThanWellFounded
    <2>2. m \in Nat /\ \A k \in Bad : ~(k < m)
      BY <2>1 DEF OpToRel
    <2>3. PICK X \in SUBSET S : Cardinality(X) = m /\ ~Ordered(X, m)
      BY <2>1
    <2>4. IsFiniteSet(X)
      BY FS_Subset
    <2>5. CASE m = 0
      <3>1. X = {}
        BY <2>3, <2>4, <2>5, FS_EmptySet
      <3>2. [i \in 1 .. 0 |-> i] \in [1 .. 0 -> X]
        OBVIOUS
      <3>3. Ordered({}, 0)
        BY <3>1, <3>2
      <3> QED BY <2>3, <2>5, <3>1, <3>3
    <2>6. CASE m # 0
      <3>1. X # {} /\ \A t \in X : stored[t].at \in Nat
        BY <2>3, <2>4, <2>6, FS_EmptySet DEF BroadcastTypes, RowType
      <3> DEFINE Dates == {stored[t].at : t \in X}
      <3>2. PICK d \in Dates : \A e \in Dates : <<e, d>> \notin OpToRel(<, Nat)
        <4>1. Dates \subseteq Nat /\ Dates # {}
          BY <3>1
        <4> QED BY <4>1, WFMin, NatLessThanWellFounded
      <3>3. PICK x \in X : d = stored[x].at
        BY <3>2
      <3>4. \A t \in X : ~(stored[t].at < stored[x].at)
        BY <3>1, <3>2, <3>3 DEF OpToRel
      <3> DEFINE Y == X \ {x}
      <3>5. IsFiniteSet(Y) /\ Cardinality(Y) = m - 1
        BY <2>3, <2>4, FS_RemoveElement
      <3>6. m - 1 \in Nat /\ m - 1 < m
        BY <2>2, <2>6
      <3>7. Ordered(Y, m - 1)
        BY <2>2, <3>5, <3>6
      <3>8. PICK s \in [1 .. (m - 1) -> Y] : /\ \A t \in Y : \E i \in 1 .. (m - 1) : s[i] = t
                                             /\ \A i, j \in 1 .. (m - 1) : i < j => Later(s[i], s[j])
        BY <3>7
      <3> DEFINE z == [i \in 1 .. m |-> IF i = m THEN x ELSE s[i]]
      <3>9. z \in [1 .. m -> X]
        BY <2>2, <3>8
      <3>10. \A t \in X : \E i \in 1 .. m : z[i] = t
        <4>1. z[m] = x /\ m \in 1 .. m
          BY <2>2, <2>6
        <4>2. \A t \in Y : \E i \in 1 .. m : z[i] = t
          BY <2>2, <3>8
        <4> QED BY <4>1, <4>2
      <3>11. \A i, j \in 1 .. m : i < j => Later(z[i], z[j])
        <4> SUFFICES ASSUME NEW i \in 1 .. m, NEW j \in 1 .. m, i < j PROVE Later(z[i], z[j])
          OBVIOUS
        <4>1. i \in 1 .. (m - 1) /\ z[i] = s[i] /\ s[i] \in Y
          BY <2>2, <3>8
        <4>2. CASE j = m
          <5>1. stored[s[i]].at # stored[x].at
            BY <4>1
          <5> QED BY <3>1, <3>4, <4>1, <4>2, <5>1 DEF Later
        <4>3. CASE j # m
          BY <2>2, <3>8, <4>1, <4>3
        <4> QED BY <4>2, <4>3
      <3>12. Ordered(X, m)
        BY <3>9, <3>10, <3>11
      <3> QED BY <2>3, <3>12
    <2> QED BY <2>5, <2>6
  <1>2. Ordered(S, n)
    BY <1>1
  <1> QED BY <1>2

\* The rows that an answer is taken from, in their order.
LEMMA InOrderIs ==
    ASSUME BroadcastTypes, DatesInv, NEW c \in 1 .. Never
    PROVE  LET s == InOrder(Rows(c)) IN
           /\ s \in Seq(Rows(c)) /\ \A t \in Rows(c) : Has(s, t)
           /\ \A i, j \in DOMAIN s : i < j => Later(s[i], s[j])
  <1> DEFINE S == Rows(c)
             n == Cardinality(S)
  <1>1. S \subseteq Texts /\ \A t \in S : HasRow(t) /\ stored[t].at = Date(t) /\ Date(t) \in 1 .. clock
    BY DEF Rows, HasRow, Date, DatesInv
  <1>2. \A t, u \in S : stored[t].at = stored[u].at => t = u
    BY <1>1 DEF DatesInv
  <1>3. IsFiniteSet(S)
    <2> DEFINE f == [t \in S |-> stored[t].at]
    <2>1. f \in [S -> 1 .. clock]
      BY <1>1
    <2>2. f \in Injection(S, 1 .. clock)
      BY <1>2, <2>1 DEF Injection, IsInjective
    <2>3. IsFiniteSet(1 .. clock)
      BY FS_Interval DEF BroadcastTypes
    <2> QED BY <2>2, <2>3, FS_Injection
  <1>4. n \in Nat
    BY <1>3, FS_CardinalityType
  <1> DEFINE Ordered(s) == /\ s \in [1 .. n -> S]
                           /\ \A t \in S : \E i \in DOMAIN s : s[i] = t
                           /\ \A i, j \in DOMAIN s : i < j => Later(s[i], s[j])
  <1>5. \E s : Ordered(s)
    <2>1. PICK s \in [1 .. n -> S] : (\A t \in S : \E i \in 1 .. n : s[i] = t)
                                     /\ \A i, j \in 1 .. n : i < j => Later(s[i], s[j])
      BY <1>1, <1>2, <1>3, <1>4, OrderExists
    <2>2. DOMAIN s = 1 .. n
      BY <2>1
    <2> QED BY <2>1, <2>2
  <1>6. Ordered(InOrder(S))
    BY <1>5 DEF InOrder
  <1> HIDE DEF S
  <1>7. \A s : Ordered(s) => s \in Seq(S)
    BY <1>4
  <1> QED BY <1>6, <1>7 DEF S, Has

\* What getSubscribedFeed answers: the first rows behind the cursor.
LEMMA FeedAnswer ==
    ASSUME BroadcastTypes, DatesInv, NEW l \in Fetches, GetSubscribedFeed(l)
    PROVE  \/ fetch' = [fetch EXCEPT ![l].at = "failed"]
           \/ \E s \in Seq(Texts), more \in BOOLEAN :
                 /\ fetch' = [fetch EXCEPT ![l].at = "got", ![l].more = more, ![l].items = s]
                 /\ more => s # <<>>
                 /\ \A i \in DOMAIN s : s[i] \in Rows(fetch[l].cursor)
                 /\ Behind(s, fetch[l].cursor)
  <1> DEFINE c   == fetch[l].cursor
             all == InOrder(Rows(c))
             few == Len(all) <= PageSize
             s   == IF few THEN all ELSE SubSeq(all, 1, PageSize)
  <1>1. c \in 1 .. Never
    BY DEF BroadcastTypes, FetchType
  <1>2. all \in Seq(Rows(c)) /\ (\A t \in Rows(c) : Has(all, t)) /\ \A i, j \in DOMAIN all : i < j => Later(all[i], all[j])
    BY <1>1, InOrderIs
  <1>3. Rows(c) \subseteq Texts /\ PageSize \in Nat \ {0}
    BY BroadcastAssumption DEF Rows
  <1> HIDE DEF all, c
  <1>4. s \in Seq(Rows(c)) /\ Len(s) <= Len(all) /\ \A i \in 1 .. Len(s) : s[i] = all[i]
    BY <1>2, <1>3
  <1>5. ~few => s # <<>> /\ Len(s) = PageSize
    BY <1>2, <1>3
  <1> HIDE DEF s
  <1>6. s \in Seq(Texts) /\ DOMAIN s = 1 .. Len(s) /\ \A i \in DOMAIN s : s[i] \in Rows(c)
    BY <1>3, <1>4
  <1>7. Behind(s, c)
    <2>1. Falling(s)
      BY <1>2, <1>4, <1>6 DEF Falling
    <2>2. Listed(s) /\ \A i \in DOMAIN s : stored[s[i]].at < c
      BY <1>6 DEF Listed, Visible, Rows
    <2>3. ASSUME NEW t \in Texts, NEW j \in DOMAIN s, Visible(t), stored[t].at < c, Later(t, s[j]) PROVE Has(s, t)
      <3>1. PICK k \in DOMAIN all : all[k] = t
        BY <1>2, <2>3 DEF Rows, Visible, Has
      <3>2. j \in DOMAIN all /\ s[j] = all[j] /\ DOMAIN all = 1 .. Len(all)
        BY <1>2, <1>4, <1>6
      <3>3. stored[t].at \in Nat /\ stored[all[j]].at \in Nat
        BY <1>3, <1>6, <3>2 DEF BroadcastTypes, RowType
      <3>4. ~(j < k) /\ j # k
        BY <1>2, <2>3, <3>1, <3>2, <3>3 DEF Later
      <3>5. k \in DOMAIN s /\ s[k] = t
        BY <1>4, <1>6, <3>1, <3>2, <3>4
      <3> QED BY <3>5 DEF Has
    <2> QED BY <2>1, <2>2, <2>3 DEF Behind
  <1>8. \/ fetch' = [fetch EXCEPT ![l].at = "got", ![l].more = ~few, ![l].items = s]
        \/ fetch' = [fetch EXCEPT ![l].at = "failed"]
    BY DEF GetSubscribedFeed, all, c, s
  <1> QED BY <1>5, <1>6, <1>7, <1>8 DEF c

LEMMA DatesAreNat == BroadcastTypes => \A t \in Texts : stored[t].at \in 0 .. MaxMessages /\ stored[t].at \in Nat /\ stored[t].at < Never
  BY BroadcastAssumption DEF BroadcastTypes, RowType, Never

\* A first answer is a page.
LEMMA FirstPage ==
    ASSUME BroadcastTypes, NEW s \in Seq(Texts), Behind(s, Never)
    PROVE  Page(s)
  <1>1. Falling(s) /\ Listed(s)
    BY DEF Behind
  <1>2. ASSUME NEW t \in Texts, NEW i \in DOMAIN s, NEW j \in DOMAIN s, Visible(t), Later(s[i], t), Later(t, s[j])
        PROVE  Has(s, t)
    <2>1. 1 \in DOMAIN s /\ (i = 1 \/ 1 < i) /\ s[1] \in Texts /\ s[i] \in Texts
      OBVIOUS
    <2>2. s[i] = s[1] \/ Later(s[1], s[i])
      BY <1>1, <2>1 DEF Falling
    <2>3. Later(s[1], t)
      BY <1>2, <2>1, <2>2, DatesAreNat DEF Later
    <2>4. stored[t].at < Never
      BY DatesAreNat
    <2> QED BY <1>2, <2>3, <2>4 DEF Behind
  <1> QED BY <1>1, <1>2 DEF Page, Between

\* An answer for the rows behind a page continues it.
LEMMA NextPage ==
    ASSUME BroadcastTypes, DatesInv, NEW p \in Seq(Texts), NEW s \in Seq(Texts), NEW c \in Nat,
           Page(p), p # <<>>, c = stored[p[Len(p)]].at, Behind(s, c)
    PROVE  Page(p \o s)
  <1> DEFINE q == p \o s
             m == Len(p)
             n == Len(s)
  <1>1. /\ m \in Nat \ {0} /\ n \in Nat /\ DOMAIN p = 1 .. m /\ DOMAIN s = 1 .. n
        /\ DOMAIN q = 1 .. m + n
        /\ \A i \in 1 .. m : q[i] = p[i] /\ p[i] \in Texts
        /\ \A i \in 1 .. n : q[m + i] = s[i] /\ s[i] \in Texts
    OBVIOUS
  <1>2. Falling(p) /\ Listed(p) /\ Between(p) /\ Falling(s) /\ Listed(s) /\ (\A i \in DOMAIN s : stored[s[i]].at < c)
    BY DEF Page, Behind
  <1> DEFINE Part(i) == (i \in 1 .. m /\ q[i] = p[i]) \/ (i - m \in 1 .. n /\ q[i] = s[i - m])
  <1>3. \A i \in DOMAIN q : i \in Nat /\ q[i] \in Texts /\ Part(i)
    <2> SUFFICES ASSUME NEW i \in DOMAIN q PROVE i \in Nat /\ q[i] \in Texts /\ Part(i)
      OBVIOUS
    <2>1. i \in Nat /\ (i \in 1 .. m \/ i - m \in 1 .. n) /\ i = m + (i - m)
      BY <1>1
    <2>2. i \in 1 .. m => q[i] = p[i] /\ p[i] \in Texts
      BY <1>1
    <2>3. i - m \in 1 .. n => q[m + (i - m)] = s[i - m] /\ s[i - m] \in Texts
      BY <1>1
    <2> HIDE DEF q
    <2> QED BY <2>1, <2>2, <2>3
  <1> HIDE DEF q, m, n
  <1>4. \A i \in 1 .. m : c <= stored[p[i]].at
    <2> SUFFICES ASSUME NEW i \in 1 .. m PROVE c <= stored[p[i]].at
      OBVIOUS
    <2>1. i = m \/ Later(p[i], p[m])
      BY <1>1, <1>2 DEF Falling
    <2>2. c = stored[p[m]].at /\ stored[p[i]].at \in Nat
      BY <1>1, DatesAreNat DEF m
    <2> QED BY <2>1, <2>2 DEF Later
  <1>5. Falling(q)
    <2> SUFFICES ASSUME NEW i \in DOMAIN q, NEW j \in DOMAIN q, i < j PROVE Later(q[i], q[j])
      BY DEF Falling
    <2>1. CASE i \in 1 .. m /\ j \in 1 .. m
      BY <1>1, <1>2, <2>1 DEF Falling
    <2>2. CASE i - m \in 1 .. n /\ j - m \in 1 .. n /\ q[i] = s[i - m] /\ q[j] = s[j - m]
      <3>1. i - m < j - m
        BY <1>1, <1>3
      <3> QED BY <1>1, <1>2, <2>2, <3>1 DEF Falling
    <2>3. CASE i \in 1 .. m /\ q[i] = p[i] /\ j - m \in 1 .. n /\ q[j] = s[j - m]
      <3>1. c <= stored[q[i]].at /\ stored[q[j]].at < c
        BY <1>1, <1>2, <1>4, <2>3
      <3>2. stored[q[i]].at \in Nat /\ stored[q[j]].at \in Nat
        BY <1>3, DatesAreNat
      <3> QED BY <3>1, <3>2 DEF Later
    <2>4. i \in Nat /\ j \in Nat /\ m \in Nat
      BY <1>1, <1>3
    <2>5. i - m \in 1 .. n => j - m \in 1 .. n /\ q[j] = s[j - m]
      BY <1>1, <1>3, <2>4
    <2> QED BY <1>3, <2>1, <2>2, <2>3, <2>5
  <1>6. Listed(q)
    BY <1>1, <1>2, <1>3 DEF Listed
  <1>7. \A t \in Texts : Has(p, t) \/ Has(s, t) => Has(q, t)
    <2>1. 1 .. m \subseteq DOMAIN q /\ \A i \in 1 .. n : m + i \in DOMAIN q
      BY <1>1
    <2> QED BY <1>1, <2>1 DEF Has
  <1>8. ASSUME NEW t \in Texts, NEW i \in DOMAIN q, NEW j \in DOMAIN q, Visible(t), Later(q[i], t), Later(t, q[j])
        PROVE  Has(q, t)
    <2>0. q[i] \in Texts /\ q[j] \in Texts /\ stored[t].at \in Nat /\ stored[q[i]].at \in Nat /\ stored[q[j]].at \in Nat
      BY <1>3, DatesAreNat
    <2>1. CASE c < stored[t].at
      <3>1. Later(t, p[m]) /\ m \in DOMAIN p
        BY <1>1, <2>1 DEF Later, m
      <3>2. i \in 1 .. m
        <4> SUFFICES ASSUME i - m \in 1 .. n, q[i] = s[i - m] PROVE FALSE
          BY <1>3
        <4>1. stored[q[i]].at < c
          BY <1>1, <1>2
        <4> QED BY <1>8, <2>0, <2>1, <4>1 DEF Later
      <3>3. Later(p[i], t) /\ i \in DOMAIN p
        BY <1>1, <1>8, <3>2
      <3> QED BY <1>2, <1>7, <1>8, <3>1, <3>3 DEF Between
    <2>2. CASE c = stored[t].at
      <3>1. p[m] \in Texts /\ Visible(p[m]) /\ stored[p[m]].at = stored[t].at /\ m \in DOMAIN p
        BY <1>1, <1>2, <2>2 DEF m, Listed
      <3>2. p[m] = t
        BY <1>8, <3>1 DEF DatesInv, Visible, HasRow, Date
      <3> QED BY <1>7, <3>1, <3>2 DEF Has
    <2>3. CASE stored[t].at < c
      <3>1. j \notin 1 .. m
        <4> SUFFICES ASSUME j \in 1 .. m PROVE FALSE
          OBVIOUS
        <4>1. c <= stored[q[j]].at
          BY <1>1, <1>4
        <4> QED BY <1>8, <2>0, <2>3, <4>1 DEF Later
      <3>2. j - m \in DOMAIN s /\ Later(t, s[j - m])
        BY <1>1, <1>3, <1>8, <3>1
      <3>3. c # Never
        BY <1>1, DatesAreNat DEF m
      <3> QED BY <1>7, <1>8, <2>3, <3>2, <3>3 DEF Behind
    <2> QED BY <2>0, <2>1, <2>2, <2>3
  <1> QED BY <1>5, <1>6, <1>8 DEF Page, Between, q

--------------------------------------------------------------------------------
(* The first moment *)

LEMMA Concatenation ==
    ASSUME NEW T, NEW p \in Seq(T), NEW s \in Seq(T)
    PROVE  /\ p \o s \in Seq(T) /\ DOMAIN (p \o s) = 1 .. (Len(p) + Len(s)) /\ Len(p \o s) = Len(p) + Len(s)
           /\ \A i \in 1 .. Len(p) : (p \o s)[i] = p[i]
           /\ \A i \in 1 .. Len(s) : (p \o s)[Len(p) + i] = s[i]
  OBVIOUS

\* What is on the topic at first: the old texts and those of others, each once.
LEMMA TopicIs ==
    ASSUME NEW log \in OnTopic
    PROVE  /\ log \in Seq(Texts) /\ Len(log) \in 0 .. MaxMessages
           /\ \A i, j \in DOMAIN log : log[i] = log[j] => i = j
           /\ \A t \in Texts \ Mine : Place(log, t) \in DOMAIN log /\ log[Place(log, t)] = t
           /\ \A i \in DOMAIN log : log[i] \notin Mine
  <1> DEFINE n == Cardinality(Theirs)
             o == Len(OldTexts)
  <1>1. n \in Nat /\ o + n <= MaxMessages /\ MaxMessages \in Nat
    <2>1. IsFiniteSet(Theirs)
      BY FS_Subset, BroadcastAssumption DEF NewTexts
    <2> QED BY <2>1, FS_CardinalityType, BroadcastAssumption
  <1>2. PICK f \in Orders : log = OldTexts \o f
    BY DEF OnTopic
  <1>3. /\ f \in [1 .. n -> Theirs] /\ DOMAIN f = 1 .. n
        /\ (\A i, j \in 1 .. n : f[i] = f[j] => i = j) /\ (\A t \in Theirs : \E i \in 1 .. n : f[i] = t)
    BY <1>2 DEF Orders
  <1>4. f \in Seq(Theirs) /\ Len(f) = n
    BY <1>1, <1>3
  <1>5. /\ OldTexts \in Seq(Texts \ NewTexts) /\ o \in Nat /\ DOMAIN OldTexts = 1 .. o
        /\ \A i, j \in 1 .. o : OldTexts[i] = OldTexts[j] => i = j
        /\ \A i \in 1 .. o : OldTexts[i] \in Texts \ NewTexts
    BY BroadcastAssumption
  <1>6. Theirs \subseteq NewTexts /\ NewTexts \subseteq Texts /\ Mine \subseteq NewTexts /\ Theirs \cap Mine = {}
    BY BroadcastAssumption DEF NewTexts, Texts
  <1>7. /\ log \in Seq(Texts) /\ Len(log) = o + n /\ DOMAIN log = 1 .. (o + n)
        /\ \A i \in 1 .. o : log[i] = OldTexts[i]
        /\ \A i \in 1 .. n : log[o + i] = f[i]
    <2>1. f \in Seq(Texts) /\ OldTexts \in Seq(Texts)
      BY <1>4, <1>5, <1>6
    <2>2. o \in Nat /\ Len(f) = n /\ n \in Nat
      BY <1>1, <1>4, <1>5
    <2> HIDE DEF n
    <2>3. log \in Seq(Texts) /\ DOMAIN log = 1 .. (o + Len(f)) /\ Len(log) = o + Len(f)
      BY <1>2, <2>1, Concatenation
    <2>4. \A i \in 1 .. o : log[i] = OldTexts[i]
      BY <1>2, <2>1, Concatenation
    <2>5. \A i \in 1 .. Len(f) : log[o + i] = f[i]
      BY <1>2, <2>1, Concatenation
    <2> QED BY <2>2, <2>3, <2>4, <2>5
  <1> HIDE DEF n, o
  <1> DEFINE Part(i) == (i \in 1 .. o /\ log[i] = OldTexts[i]) \/ (i - o \in 1 .. n /\ log[i] = f[i - o])
  <1>8. \A i \in DOMAIN log : i \in Nat /\ Part(i)
    <2> SUFFICES ASSUME NEW i \in DOMAIN log PROVE i \in Nat /\ Part(i)
      OBVIOUS
    <2>1. i \in Nat /\ (i \in 1 .. o \/ i - o \in 1 .. n) /\ i = o + (i - o)
      BY <1>1, <1>5, <1>7
    <2> QED BY <1>7, <2>1
  <1>9. \A i, j \in DOMAIN log : log[i] = log[j] => i = j
    <2> SUFFICES ASSUME NEW i \in DOMAIN log, NEW j \in DOMAIN log, log[i] = log[j] PROVE i = j
      OBVIOUS
    <2>1. CASE i \in 1 .. o /\ log[i] = OldTexts[i]
      <3>1. log[j] \notin Theirs
        BY <1>5, <1>6, <2>1
      <3>2. j \in 1 .. o /\ log[j] = OldTexts[j]
        BY <1>3, <1>8, <3>1
      <3> QED BY <1>5, <2>1, <3>2
    <2>2. CASE i - o \in 1 .. n /\ log[i] = f[i - o]
      <3>1. log[j] \in Theirs
        BY <1>3, <2>2
      <3>2. j - o \in 1 .. n /\ log[j] = f[j - o]
        BY <1>5, <1>6, <1>8, <3>1
      <3>3. i - o = j - o /\ i \in Nat /\ j \in Nat
        BY <1>3, <1>8, <2>2, <3>2
      <3> QED BY <1>5, <3>3
    <2> QED BY <1>8, <2>1, <2>2
  <1>10. \A t \in Texts \ Mine : \E i \in DOMAIN log : log[i] = t
    <2> SUFFICES ASSUME NEW t \in Texts \ Mine PROVE \E i \in DOMAIN log : log[i] = t
      OBVIOUS
    <2>1. CASE t \in Theirs
      <3>1. PICK i \in 1 .. n : f[i] = t
        BY <1>3, <2>1
      <3>2. o + i \in DOMAIN log /\ log[o + i] = t
        BY <1>1, <1>5, <1>7, <3>1
      <3> QED BY <3>2
    <2>2. CASE t \notin Theirs
      <3>1. PICK i \in 1 .. o : OldTexts[i] = t
        BY <1>5, <2>2 DEF Texts, NewTexts
      <3>2. i \in DOMAIN log /\ log[i] = t
        BY <1>1, <1>5, <1>7, <3>1
      <3> QED BY <3>2
    <2> QED BY <2>1, <2>2
  <1>11. \A i \in DOMAIN log : log[i] \notin Mine
    BY <1>3, <1>5, <1>6, <1>8
  <1>12. \A t \in Texts \ Mine : Place(log, t) \in DOMAIN log /\ log[Place(log, t)] = t
    BY <1>10 DEF Place
  <1> QED BY <1>1, <1>5, <1>7, <1>9, <1>11, <1>12

LEMMA UnaskedIs ==
    /\ Unasked \in FetchType /\ Unasked.cursor = Never /\ Unasked.at = "idle" /\ Unasked.items = <<>> /\ ~Unasked.more
    /\ Asking \in FetchType /\ Asking.cursor = Never /\ Asking.at = "asked" /\ Asking.items = <<>> /\ ~Asking.more
  <1>1. Never \in 1 .. Never
    BY BroadcastAssumption DEF Never
  <1> HIDE DEF Never
  <1>2. /\ Unasked \in FetchType /\ Unasked.cursor = Never /\ Unasked.at = "idle" /\ Unasked.items = <<>> /\ Unasked.more = FALSE
    BY <1>1 DEF Unasked, FetchType
  <1>3. Asking.cursor = Never /\ Asking.at = "asked" /\ Asking.items = <<>> /\ Asking.more = FALSE
    BY <1>2 DEF Asking, FetchType
  <1>4. Asking \in FetchType
    BY <1>2 DEF Asking, FetchType
  <1> QED BY <1>2, <1>3, <1>4

LEMMA BroadcastInitial == BroadcastInit => BroadcastIInv
  <1> SUFFICES ASSUME BroadcastInit PROVE BroadcastIInv
    OBVIOUS
  <1>1. PICK c \in Channels, log \in OnTopic :
          /\ channelLog = [d \in Channels |-> IF d = c THEN log ELSE <<>>]
          /\ stored = [t \in Texts |-> IF t \in NewTexts THEN NoRow
                                       ELSE [in |-> {c}, seq |-> Place(log, t), at |-> Place(log, t)]]
          /\ publication = [t \in NewTexts |-> IF t \in Mine THEN Unsent
                             ELSE [at |-> "answered", to |-> c, seq |-> Place(log, t), when |-> Place(log, t)]]
          /\ clock = Len(log) /\ lost = {}
    BY DEF BroadcastInit
  <1>2. /\ log \in Seq(Texts) /\ DOMAIN log = 1 .. clock /\ clock \in 0 .. MaxMessages
        /\ \A i, j \in DOMAIN log : log[i] = log[j] => i = j
        /\ \A t \in Texts \ Mine : Place(log, t) \in DOMAIN log /\ log[Place(log, t)] = t
        /\ \A i \in DOMAIN log : log[i] \notin Mine
    BY <1>1, TopicIs
  <1>3. /\ MaxMessages \in Nat /\ Own \in Channels /\ NewTexts \subseteq Texts /\ Never \in 1 .. Never
        /\ Mine \subseteq NewTexts
    BY BroadcastAssumption DEF NewTexts, Texts, Never
  <1>4. \A t \in Texts \ Mine : Place(log, t) \in 1 .. clock /\ Place(log, t) \in 0 .. MaxMessages /\ Place(log, t) \in Nat
    BY <1>2, <1>3
  <1> HIDE DEF Never
  <1>5. \A l \in Fetches : /\ fetch[l] \in FetchType /\ fetch[l].cursor = Never /\ fetch[l].at \in {"idle", "asked"}
                           /\ fetch[l].items = <<>> /\ ~fetch[l].more
    <2>1. /\ Unasked \in FetchType /\ Unasked.cursor = Never /\ Unasked.at = "idle" /\ Unasked.items = <<>> /\ ~Unasked.more
          /\ Asking \in FetchType /\ Asking.cursor = Never /\ Asking.at = "asked" /\ Asking.items = <<>> /\ ~Asking.more
      BY UnaskedIs
    <2>2. \A l \in Fetches : fetch[l] \in {Unasked, Asking}
      BY DEF BroadcastInit
    <2> QED BY <2>1, <2>2
  <1>6. ASSUME NEW t \in Texts \ NewTexts
        PROVE  stored[t].in = {c} /\ stored[t].seq = Place(log, t) /\ stored[t].at = Place(log, t) /\ stored[t] \in RowType
    <2>1. stored[t] = [in |-> {c}, seq |-> Place(log, t), at |-> Place(log, t)]
      BY <1>1, <1>6
    <2>2. Place(log, t) \in Nat /\ Place(log, t) \in 0 .. MaxMessages
      BY <1>3, <1>4, <1>6
    <2> HIDE DEF Place
    <2> QED BY <2>1, <2>2 DEF RowType
  <1>7. \A t \in NewTexts : stored[t] = NoRow /\ ~HasRow(t) /\ stored[t].in = {}
    BY <1>1, <1>3 DEF HasRow, NoRow
  <1>8. \A t \in Texts \ NewTexts : HasRow(t) /\ ~Waits(t) /\ Date(t) = Place(log, t)
    <2> SUFFICES ASSUME NEW t \in Texts \ NewTexts PROVE HasRow(t) /\ ~Waits(t) /\ Date(t) = Place(log, t)
      OBVIOUS
    <2>1. stored[t].in # {} /\ stored[t].at = Place(log, t)
      BY <1>6
    <2> QED BY <2>1 DEF HasRow, Waits, Date
  <1>9. ASSUME NEW t \in Mine PROVE publication[t] \in PaperType /\ publication[t].at = "idle" /\ ~Waits(t)
    <2>1. publication[t] = Unsent
      BY <1>1, <1>3
    <2> QED BY <1>3, <2>1 DEF Waits, Unsent, PaperType
  <1>10. ASSUME NEW t \in NewTexts \ Mine
         PROVE  /\ publication[t] \in PaperType /\ publication[t].at = "answered" /\ publication[t].to = c
                /\ publication[t].seq = Place(log, t) /\ Waits(t) /\ Date(t) = Place(log, t)
    <2>1. publication[t] = [at |-> "answered", to |-> c, seq |-> Place(log, t), when |-> Place(log, t)]
      BY <1>1, <1>10
    <2>2. Place(log, t) \in Nat /\ Place(log, t) \in 0 .. MaxMessages
      BY <1>3, <1>4, <1>10
    <2>3. ~HasRow(t)
      BY <1>7, <1>10
    <2> HIDE DEF Place
    <2> QED BY <2>1, <2>2, <2>3 DEF PaperType, Waits, Date
  <1>11. \A t \in Texts, d \in Channels, i \in Nat : IsAt(t, d, i) <=> d = c /\ i \in DOMAIN log /\ log[i] = t
    BY <1>1, <1>2 DEF IsAt
  <1>12. BroadcastTypes
    <2>1. channelLog \in [Channels -> Seq(Texts)]
      BY <1>1, <1>2
    <2>2. stored \in [Texts -> RowType]
      <3>1. NoRow \in RowType
        BY <1>3 DEF NoRow, RowType
      <3>2. \A t \in Texts : stored[t] \in RowType
        BY <1>6, <1>7, <3>1
      <3> QED BY <1>1, <3>2
    <2>3. publication \in [NewTexts -> PaperType]
      <3>1. \A t \in NewTexts : publication[t] \in PaperType
        BY <1>9, <1>10
      <3> QED BY <1>1, <3>1
    <2>4. fetch \in [Fetches -> FetchType]
      <3>1. \E l \in Fetches : fetch = [k \in Fetches |-> IF k = l THEN Asking ELSE Unasked]
        BY DEF BroadcastInit
      <3> QED BY <1>5, <3>1
    <2>5. /\ clock \in 0 .. MaxMessages /\ lost \subseteq NewTexts /\ subscribed \subseteq Channels
          /\ feed \in Seq(Texts) /\ nextCursor \in 1 .. Never
          /\ isSubscribing \in {"idle", "sent", "reload", "failed"} /\ isPublishing \in NewTexts \cup {Silence}
          /\ hasMore \in BOOLEAN /\ isLoading \in BOOLEAN /\ mixed \in BOOLEAN
      <3>1. clock \in 0 .. MaxMessages /\ lost = {}
        BY <1>1, <1>2
      <3>2. /\ subscribed \subseteq Channels /\ feed = <<>> /\ nextCursor = Never /\ isSubscribing = "idle"
            /\ isPublishing = Silence /\ hasMore = FALSE /\ isLoading = TRUE /\ mixed = FALSE
        BY DEF BroadcastInit
      <3>3. hasMore \in BOOLEAN /\ isLoading \in BOOLEAN /\ mixed \in BOOLEAN
        BY <3>2, Zenon
      <3> QED BY <1>3, <3>1, <3>2, <3>3
    <2> QED BY <2>1, <2>2, <2>3, <2>4, <2>5 DEF BroadcastTypes
  <1>13. DatesInv
    <2>1. \A t \in Texts : HasRow(t) \/ Waits(t) => t \in Texts \ Mine /\ Date(t) = Place(log, t)
      BY <1>3, <1>7, <1>8, <1>9, <1>10
    <2>2. \A t \in NewTexts : publication[t].at # "done"
      BY <1>9, <1>10
    <2> QED BY <1>2, <1>4, <1>7, <1>8, <2>1, <2>2 DEF DatesInv
  <1>14. LogInv
    <2>1. ASSUME NEW t \in Texts, NEW d \in Channels, NEW i \in Nat, d \in stored[t].in, i = stored[t].seq PROVE IsAt(t, d, i)
      <3>1. t \notin NewTexts
        BY <1>7, <2>1
      <3>2. d = c /\ i = Place(log, t)
        BY <1>6, <2>1, <3>1
      <3> QED BY <1>2, <1>3, <1>11, <3>1, <3>2
    <2>2. ASSUME NEW t \in NewTexts, NEW d \in Channels, NEW i \in Nat, Waits(t), d = publication[t].to, i = publication[t].seq
          PROVE  IsAt(t, d, i)
      <3>1. t \in NewTexts \ Mine
        BY <1>9, <2>2
      <3>2. d = c /\ i = Place(log, t)
        BY <1>10, <2>2, <3>1
      <3> QED BY <1>2, <1>3, <1>11, <3>1, <3>2
    <2>3. \A t \in Texts \ lost, d, e \in Channels, i, j \in Nat : IsAt(t, d, i) /\ IsAt(t, e, j) => d = e /\ i = j
      BY <1>2, <1>11
    <2>4. \A t \in NewTexts \ lost, d \in Channels, i \in Nat :
             publication[t].at \in {"idle", "checked", "failed"} => ~IsAt(t, d, i)
      <3> SUFFICES ASSUME NEW t \in NewTexts, NEW d \in Channels, NEW i \in Nat,
                          publication[t].at \in {"idle", "checked", "failed"}
                   PROVE  ~IsAt(t, d, i)
        OBVIOUS
      <3>1. t \in Mine
        BY <1>10
      <3> QED BY <1>2, <1>3, <1>11, <3>1
    <2> QED BY <2>1, <2>2, <2>3, <2>4 DEF LogInv
  <1>15. HeldInv
    BY <1>5 DEF HeldInv, RowsHeld, IsCursor, BroadcastInit
  <1>16. FeedWhole
    BY DEF FeedWhole, Page, Falling, Listed, Between, BroadcastInit
  <1>17. AnswersInv
    BY <1>5 DEF AnswersInv
  <1>18. MoreInv
    BY <1>5 DEF MoreInv
  <1> QED BY <1>12, <1>13, <1>14, <1>15, <1>16, <1>17, <1>18 DEF BroadcastIInv

--------------------------------------------------------------------------------
(* The steps *)

LEMMA FurtherIs ==
    ASSUME NEW n \in 1 .. Never
    PROVE  LET f == [Asking EXCEPT !.cursor = n] IN
           f \in FetchType /\ f.cursor = n /\ f.at = "asked" /\ f.items = <<>> /\ ~f.more
  BY UnaskedIs DEF FetchType

LEMMA OvertakenIs ==
    ASSUME fetch \in [Fetches -> FetchType]
    PROVE  /\ Overtaken \in [Fetches -> FetchType]
           /\ \A l \in Fetches : /\ Overtaken[l].at = fetch[l].at /\ Overtaken[l].cursor = fetch[l].cursor
                                 /\ Overtaken[l].items = fetch[l].items /\ Overtaken[l].more = fetch[l].more
                                 /\ Overtaken[l].at = "got" => ~Overtaken[l].fresh
  <1>1. ASSUME NEW f \in FetchType, NEW b \in BOOLEAN
        PROVE  LET g == [f EXCEPT !.fresh = b] IN
               g \in FetchType /\ g.at = f.at /\ g.cursor = f.cursor /\ g.items = f.items /\ g.more = f.more /\ g.fresh = b
    BY DEF FetchType
  <1> SUFFICES ASSUME NEW l \in Fetches
               PROVE  /\ Overtaken[l] \in FetchType /\ Overtaken[l].at = fetch[l].at /\ Overtaken[l].cursor = fetch[l].cursor
                      /\ Overtaken[l].items = fetch[l].items /\ Overtaken[l].more = fetch[l].more
                      /\ Overtaken[l].at = "got" => ~Overtaken[l].fresh
    BY DEF Overtaken
  <1> DEFINE b == fetch[l].fresh /\ fetch[l].at # "got"
  <1>2. fetch[l] \in FetchType
    OBVIOUS
  <1>3. b \in BOOLEAN
    BY <1>2, Zenon
  <1>4. Overtaken[l] = [fetch[l] EXCEPT !.fresh = b]
    BY DEF Overtaken
  <1>5. b => fetch[l].at # "got"
    OBVIOUS
  <1> HIDE DEF b
  <1> QED BY <1>1, <1>2, <1>3, <1>4, <1>5

\* A row that is there stays as it is, and one that waits is not there yet.
LEMMA RowsStay ==
    ASSUME BroadcastTypes, DatesInv, BroadcastNext
    PROVE  \A u \in Texts : HasRow(u) => stored'[u] = stored[u] /\ ~Waits(u)
  <1>1. \A u \in Texts : HasRow(u) => ~Waits(u)
    BY DEF DatesInv, Waits
  <1>2. stored' = stored \/ \E t \in NewTexts : SaveBroadcast(t) /\ stored' # stored
    BY DEF BroadcastNext, CreateBroadcast, SubmitBroadcast, PublishAgain, HandlePublish, HandleSubscribe, SubscribeAnswers,
           PublishAnswers, Unsubscribe, Subscribe, GetSubscribedFeed, LoadFeed, LoadFeedFails, Refresh, service
  <1>3. ASSUME NEW t \in NewTexts, SaveBroadcast(t), stored' # stored, NEW u \in Texts, HasRow(u)
        PROVE  stored'[u] = stored[u]
    <2>1. Waits(t) /\ u # t
      BY <1>1, <1>3 DEF SaveBroadcast, Waits
    <2> QED BY <1>3, <2>1 DEF SaveBroadcast, BroadcastTypes
  <1> QED BY <1>1, <1>2, <1>3

\* The cases of a step: what the page does with its loads, and the authors with their texts.
LEMMA BroadcastTypeStep ==
    ASSUME BroadcastTypes, DatesInv, HeldInv, BroadcastNext
    PROVE  BroadcastTypes'
  <1>0. /\ MaxMessages \in Nat /\ NewTexts \subseteq Texts /\ Own \in Channels
        /\ fetch \in [Fetches -> FetchType] /\ publication \in [NewTexts -> PaperType]
        /\ channelLog \in [Channels -> Seq(Texts)]
    BY BroadcastAssumption DEF NewTexts, Texts, BroadcastTypes
  <1>a. ASSUME fetch' \in [Fetches -> FetchType], isLoading' \in BOOLEAN, mixed' \in BOOLEAN, subscribed' \subseteq Channels,
               isSubscribing' \in {"idle", "sent", "reload", "failed"}, isPublishing' \in NewTexts \cup {Silence},
               UNCHANGED <<service, pageShown>>
        PROVE  BroadcastTypes'
    BY <1>a DEF BroadcastTypes, service, pageShown
  <1>b. ASSUME publication' \in [NewTexts -> PaperType], isPublishing' \in NewTexts \cup {Silence}, lost' \subseteq NewTexts,
               channelLog' \in [Channels -> Seq(Texts)], clock' \in 0 .. MaxMessages,
               UNCHANGED <<stored, reader, mixed>>
        PROVE  BroadcastTypes'
    BY <1>b DEF BroadcastTypes, reader, pageShown
  <1>c. ASSUME Reload PROVE fetch' \in [Fetches -> FetchType] /\ isLoading' \in BOOLEAN
    <2>1. PICK l \in Fetches : fetch' = [fetch EXCEPT ![l] = Asking] /\ isLoading' = TRUE
      BY <1>c DEF Reload
    <2> QED BY <1>0, <2>1, UnaskedIs
  <1>d. ASSUME NEW t \in NewTexts, NEW p \in PaperType, publication' = [publication EXCEPT ![t] = p]
        PROVE  publication' \in [NewTexts -> PaperType]
    BY <1>0, <1>d
  <1>e. ASSUME NEW t \in NewTexts, NEW n \in Nat, NEW w \in 0 .. MaxMessages,
               publication' = [publication EXCEPT ![t].at = "answered", ![t].seq = n, ![t].when = w]
        PROVE  publication' \in [NewTexts -> PaperType]
    <2> DEFINE Papers == [NewTexts -> PaperType]
               q1 == [publication EXCEPT ![t].at = "answered"]
               q2 == [q1 EXCEPT ![t].seq = n]
    <2>1. q1 \in Papers
      BY <1>0 DEF PaperType
    <2>2. ASSUME NEW q \in Papers PROVE [q EXCEPT ![t].seq = n] \in Papers /\ [q EXCEPT ![t].when = w] \in Papers
      BY <2>2 DEF PaperType
    <2>3. publication' = [q2 EXCEPT ![t].when = w]
      BY <1>e
    <2> HIDE DEF q1
    <2>4. q2 \in Papers
      BY <2>1, <2>2
    <2> HIDE DEF q2
    <2> QED BY <2>2, <2>3, <2>4
  <1>f. ASSUME NEW t \in NewTexts, NEW at \in {"checked", "done", "failed"}, publication' = [publication EXCEPT ![t].at = at]
        PROVE  publication' \in [NewTexts -> PaperType]
    BY <1>0, <1>f DEF PaperType
  <1>1. CASE HandleSubscribe
    BY <1>1 DEF HandleSubscribe, BroadcastTypes, service, pageShown
  <1>2. CASE SubscribeAnswers
    <2>1. fetch' \in [Fetches -> FetchType] /\ isLoading' \in BOOLEAN
      BY <1>2, <1>c DEF SubscribeAnswers, BroadcastTypes
    <2> QED BY <1>2, <1>a, <2>1 DEF SubscribeAnswers, BroadcastTypes
  <1>3. CASE PublishAnswers
    <2>1. fetch' \in [Fetches -> FetchType] /\ isLoading' \in BOOLEAN
      BY <1>3, <1>c DEF PublishAnswers, BroadcastTypes
    <2> QED BY <1>3, <1>a, <2>1 DEF PublishAnswers, BroadcastTypes
  <1>4. ASSUME NEW t \in NewTexts, NEW c \in Channels, CreateBroadcast(t, c) PROVE BroadcastTypes'
    <2>0. Unsent \in PaperType
      BY <1>0 DEF Unsent, PaperType
    <2>1. [Unsent EXCEPT !.at = "checked", !.to = c] \in PaperType
      BY <2>0 DEF PaperType
    <2>2. publication' \in [NewTexts -> PaperType]
      BY <1>4, <1>d, <2>1 DEF CreateBroadcast
    <2> QED BY <1>4, <1>b, <2>2 DEF CreateBroadcast, BroadcastTypes
  <1>5. ASSUME NEW t \in NewTexts, SubmitBroadcast(t) PROVE BroadcastTypes'
    <2> DEFINE c == publication[t].to
               log == Append(channelLog[c], t)
    <2>1. c \in Channels /\ channelLog[c] \in Seq(Texts) /\ t \in Texts
      BY <1>0 DEF PaperType
    <2>2. log \in Seq(Texts) /\ Len(log) \in Nat /\ [channelLog EXCEPT ![c] = log] \in [Channels -> Seq(Texts)]
      BY <1>0, <2>1
    <2>3. CASE /\ channelLog' = [channelLog EXCEPT ![c] = log] /\ clock' = clock + 1 /\ UNCHANGED lost
               /\ publication' = [publication EXCEPT ![t].at = "answered", ![t].seq = Len(channelLog'[c]), ![t].when = clock']
      <3>1. channelLog'[c] = log /\ clock' \in 0 .. MaxMessages
        BY <1>0, <1>5, <2>1, <2>3 DEF SubmitBroadcast, BroadcastTypes
      <3>2. publication' \in [NewTexts -> PaperType]
        <4>1. publication' = [publication EXCEPT ![t].at = "answered", ![t].seq = Len(log), ![t].when = clock']
          BY <2>3, <3>1
        <4> HIDE DEF log
        <4> QED BY <1>e, <2>2, <3>1, <4>1
      <3> QED BY <1>5, <1>b, <2>2, <2>3, <3>1, <3>2 DEF SubmitBroadcast, BroadcastTypes
    <2>4. CASE /\ channelLog' \in {channelLog, [channelLog EXCEPT ![c] = log]}
               /\ publication' = [publication EXCEPT ![t].at = "failed"] /\ lost' = lost \cup {t} /\ UNCHANGED clock
      <3>1. publication' \in [NewTexts -> PaperType]
        BY <1>f, <2>4
      <3>2. channelLog' \in [Channels -> Seq(Texts)] /\ lost' \subseteq NewTexts /\ clock' \in 0 .. MaxMessages
        BY <1>0, <2>2, <2>4 DEF BroadcastTypes
      <3> QED BY <1>5, <1>b, <3>1, <3>2 DEF SubmitBroadcast, BroadcastTypes
    <2> QED BY <1>5, <2>3, <2>4 DEF SubmitBroadcast
  <1>6. ASSUME NEW t \in NewTexts, SaveBroadcast(t) PROVE BroadcastTypes'
    <2>1. publication' \in [NewTexts -> PaperType]
      BY <1>f, <1>6 DEF SaveBroadcast
    <2>2. stored' \in [Texts -> RowType]
      <3>1. publication[t].to \in Channels /\ publication[t].seq \in Nat /\ publication[t].when \in 0 .. MaxMessages
        BY <1>0 DEF PaperType
      <3>2. [in |-> {publication[t].to}, seq |-> publication[t].seq, at |-> publication[t].when] \in RowType
        BY <3>1 DEF RowType
      <3> QED BY <1>6, <3>2 DEF SaveBroadcast, BroadcastTypes
    <2>3. fetch' \in [Fetches -> FetchType]
      BY <1>0, <1>6, OvertakenIs DEF SaveBroadcast
    <2>4. mixed' \in BOOLEAN
      <3>1. mixed' = mixed \/ mixed' = (mixed \/ IsLate(t))
        BY <1>6 DEF SaveBroadcast
      <3>2. mixed \in BOOLEAN
        BY DEF BroadcastTypes
      <3> QED BY <3>1, <3>2, Zenon
    <2>5. lost' \subseteq NewTexts
      BY <1>6 DEF SaveBroadcast, BroadcastTypes
    <2> QED BY <1>6, <2>1, <2>2, <2>3, <2>4, <2>5 DEF SaveBroadcast, BroadcastTypes, pageShown
  <1>7. ASSUME NEW t \in NewTexts, PublishAgain(t) PROVE BroadcastTypes'
    <2>1. Unsent \in PaperType
      BY <1>0 DEF Unsent, PaperType
    <2>2. publication' \in [NewTexts -> PaperType]
      BY <1>7, <1>d, <2>1 DEF PublishAgain
    <2> QED BY <1>7, <1>b, <2>2 DEF PublishAgain, BroadcastTypes
  <1>8. ASSUME NEW t \in NewTexts, HandlePublish(t) PROVE BroadcastTypes'
    <2>1. publication' \in [NewTexts -> PaperType]
      BY <1>f, <1>8 DEF HandlePublish
    <2> QED BY <1>8, <1>b, <2>1 DEF HandlePublish, BroadcastTypes
  <1>9. ASSUME NEW c \in Channels, Unsubscribe(c) PROVE BroadcastTypes'
    <2>1. fetch' \in [Fetches -> FetchType] /\ mixed' \in BOOLEAN
      BY <1>0, <1>9, OvertakenIs DEF Unsubscribe
    <2> QED BY <1>9, <1>a, <2>1 DEF Unsubscribe, BroadcastTypes
  <1>10. ASSUME NEW c \in Channels, NEW by \in {"id", "name", "account"}, Subscribe(c, by) PROVE BroadcastTypes'
    <2>1. fetch' \in [Fetches -> FetchType] /\ mixed' \in BOOLEAN
      BY <1>0, <1>10, OvertakenIs DEF Subscribe, BroadcastTypes
    <2>2. isSubscribing' \in {"idle", "sent", "reload", "failed"} /\ subscribed' \subseteq Channels
      BY <1>10 DEF Subscribe, BroadcastTypes
    <2> QED BY <1>10, <1>a, <2>1, <2>2 DEF Subscribe, BroadcastTypes
  <1>11. ASSUME NEW l \in Fetches, GetSubscribedFeed(l) PROVE BroadcastTypes'
    <2>1. fetch' \in [Fetches -> FetchType]
      <3>1. CASE fetch' = [fetch EXCEPT ![l].at = "failed"]
        BY <1>0, <3>1 DEF FetchType
      <3>2. ASSUME NEW s \in Seq(Texts), NEW more \in BOOLEAN,
                   fetch' = [fetch EXCEPT ![l].at = "got", ![l].more = more, ![l].items = s]
            PROVE  fetch' \in [Fetches -> FetchType]
        <4> DEFINE Loads == [Fetches -> FetchType]
                   q1 == [fetch EXCEPT ![l].at = "got"]
                   q2 == [q1 EXCEPT ![l].more = more]
        <4>1. q1 \in Loads
          BY <1>0 DEF FetchType
        <4>2. ASSUME NEW q \in Loads PROVE [q EXCEPT ![l].more = more] \in Loads /\ [q EXCEPT ![l].items = s] \in Loads
          BY <4>2 DEF FetchType
        <4>3. fetch' = [q2 EXCEPT ![l].items = s]
          BY <3>2
        <4> HIDE DEF q1
        <4>4. q2 \in Loads
          BY <4>1, <4>2
        <4> HIDE DEF q2
        <4> QED BY <4>2, <4>3, <4>4
      <3> QED BY <1>11, <3>1, <3>2, FeedAnswer
    <2> QED BY <1>11, <1>a, <2>1 DEF GetSubscribedFeed, BroadcastTypes
  <1>12. ASSUME NEW l \in Fetches, LoadFeed(l) PROVE BroadcastTypes'
    <2> DEFINE f == fetch[l]
    <2>1. f \in FetchType /\ f.items \in Seq(Texts) /\ f.more \in BOOLEAN
      BY <1>0 DEF FetchType
    <2>2. feed' \in Seq(Texts)
      BY <1>12, <2>1 DEF LoadFeed, BroadcastTypes
    <2>3. nextCursor' \in 1 .. Never
      <3>1. CASE f.more
        <4>1. Len(f.items) \in DOMAIN f.items
          BY <2>1, <3>1 DEF HeldInv, RowsHeld
        <4>2. HasRow(f.items[Len(f.items)]) /\ f.items[Len(f.items)] \in Texts
          BY <2>1, <4>1 DEF HeldInv, RowsHeld
        <4>3. stored[f.items[Len(f.items)]].at \in 1 .. clock
          BY <4>2 DEF DatesInv, Date
        <4>4. stored[f.items[Len(f.items)]].at \in 1 .. Never
          BY <1>0, <4>3 DEF BroadcastTypes, Never
        <4> QED BY <1>12, <3>1, <4>4 DEF LoadFeed
      <3>2. CASE ~f.more
        <4>1. Never \in 1 .. Never
          BY <1>0 DEF Never
        <4> QED BY <1>12, <3>2, <4>1 DEF LoadFeed
      <3> QED BY <3>1, <3>2
    <2>4. fetch' \in [Fetches -> FetchType]
      BY <1>0, <1>12, UnaskedIs DEF LoadFeed
    <2>5. mixed' \in BOOLEAN
      <3>1. mixed' = (~f.fresh \/ (~(f.cursor = Never) /\ mixed) \/ (f.cursor = Never /\ MoreUnderWay({l})))
        BY <1>12 DEF LoadFeed
      <3> QED BY <3>1, Zenon
    <2>6. hasMore' \in BOOLEAN /\ isLoading' \in BOOLEAN
      BY <1>12, <2>1 DEF LoadFeed
    <2> QED BY <1>12, <2>2, <2>3, <2>4, <2>5, <2>6 DEF LoadFeed, BroadcastTypes, service
  <1>13. ASSUME NEW l \in Fetches, LoadFeedFails(l) PROVE BroadcastTypes'
    <2>1. fetch' \in [Fetches -> FetchType] /\ isLoading' \in BOOLEAN
      BY <1>0, <1>13, UnaskedIs DEF LoadFeedFails
    <2> QED BY <1>13, <1>a, <2>1 DEF LoadFeedFails, BroadcastTypes
  <1>14. ASSUME NEW l \in Fetches, Refresh(l) PROVE BroadcastTypes'
    <2>1. [Asking EXCEPT !.cursor = nextCursor] \in FetchType /\ Asking \in FetchType
      BY FurtherIs, UnaskedIs DEF BroadcastTypes
    <2>2. fetch' \in [Fetches -> FetchType] /\ isLoading' \in BOOLEAN
      BY <1>0, <1>14, <2>1 DEF Refresh
    <2>3. mixed' \in BOOLEAN
      <3>1. mixed' = mixed \/ mixed' = (mixed \/ MoreUnderWay({l}))
        BY <1>14 DEF Refresh
      <3>2. mixed \in BOOLEAN
        BY DEF BroadcastTypes
      <3> QED BY <3>1, <3>2, Zenon
    <2> QED BY <1>14, <1>a, <2>2, <2>3 DEF Refresh, BroadcastTypes
  <1> QED BY <1>1, <1>2, <1>3, <1>4, <1>5, <1>6, <1>7, <1>8, <1>9, <1>10, <1>11, <1>12, <1>13, <1>14 DEF BroadcastNext

LEMMA DatesStep ==
    ASSUME BroadcastTypes, DatesInv, BroadcastNext
    PROVE  DatesInv'
  <1>0. /\ MaxMessages \in Nat /\ NewTexts \subseteq Texts /\ clock \in Nat
        /\ publication \in [NewTexts -> PaperType] /\ stored \in [Texts -> RowType]
    BY BroadcastAssumption DEF NewTexts, Texts, BroadcastTypes
  <1>a. ASSUME UNCHANGED <<stored, publication, clock>> PROVE DatesInv'
    BY <1>a DEF DatesInv, HasRow, Waits, Date
  <1>b. ASSUME NEW t \in NewTexts, NEW p, publication' = [publication EXCEPT ![t] = p], p.at \notin {"answered", "done"},
               publication[t].at # "done", UNCHANGED <<stored, clock>>
        PROVE  DatesInv'
    <2>1. publication'[t].at \notin {"answered", "done"} /\ ~HasRow(t) /\ \A u \in NewTexts \ {t} : publication'[u] = publication[u]
      BY <1>0, <1>b DEF DatesInv
    <2>2. \A u \in Texts : HasRow(u)' = HasRow(u) /\ (Waits(u)' => Waits(u)) /\ (HasRow(u) \/ Waits(u)' => Date(u)' = Date(u))
      BY <1>b, <2>1 DEF HasRow, Waits, Date
    <2>3. \A u \in NewTexts \ {t} : publication'[u].at = publication[u].at
      BY <2>1
    <2> QED BY <1>0, <1>b, <2>1, <2>2, <2>3 DEF DatesInv
  <1>1. CASE HandleSubscribe \/ SubscribeAnswers \/ PublishAnswers
    BY <1>1, <1>a DEF HandleSubscribe, SubscribeAnswers, PublishAnswers, service
  <1>2. ASSUME NEW c \in Channels, Unsubscribe(c) \/ \E by \in {"id", "name", "account"} : Subscribe(c, by) PROVE DatesInv'
    BY <1>2, <1>a DEF Unsubscribe, Subscribe, service
  <1>3. ASSUME NEW l \in Fetches, GetSubscribedFeed(l) \/ LoadFeed(l) \/ LoadFeedFails(l) \/ Refresh(l) PROVE DatesInv'
    BY <1>3, <1>a DEF GetSubscribedFeed, LoadFeed, LoadFeedFails, Refresh, service
  <1>4. ASSUME NEW t \in NewTexts, NEW c \in Channels, CreateBroadcast(t, c) PROVE DatesInv'
    <2>1. [Unsent EXCEPT !.at = "checked", !.to = c].at = "checked"
      BY DEF Unsent
    <2> QED BY <1>4, <1>b, <2>1 DEF CreateBroadcast
  <1>5. ASSUME NEW t \in NewTexts, SubmitBroadcast(t) PROVE DatesInv'
    <2> DEFINE c == publication[t].to
    <2>1. CASE /\ clock' = clock + 1
               /\ publication' = [publication EXCEPT ![t].at = "answered", ![t].seq = Len(channelLog'[c]), ![t].when = clock']
      <3>1. publication'[t].at = "answered" /\ publication'[t].when = clock' /\ ~HasRow(t) /\ UNCHANGED stored
            /\ \A u \in NewTexts \ {t} : publication'[u] = publication[u]
        BY <1>0, <1>5, <2>1 DEF DatesInv, SubmitBroadcast, PaperType
      <3>2. /\ ~HasRow(t)' /\ Waits(t)' /\ Date(t)' = clock + 1
            /\ \A u \in Texts \ {t} : HasRow(u)' = HasRow(u) /\ Waits(u)' = Waits(u) /\ (HasRow(u) \/ Waits(u) => Date(u)' = Date(u))
        <4>1. ~HasRow(t)' /\ Waits(t)'
          BY <3>1 DEF HasRow, Waits
        <4>2. clock' = clock + 1 /\ (\A u \in Texts : stored'[u] = stored[u])
              /\ \A u \in NewTexts \ {t} : publication'[u].at = publication[u].at /\ publication'[u].when = publication[u].when
          BY <2>1, <3>1
        <4>3. Date(t)' = clock + 1
          BY <1>0, <3>1, <4>1, <4>2 DEF HasRow, Date
        <4>4. ASSUME NEW u \in Texts \ {t}
              PROVE  HasRow(u)' = HasRow(u) /\ Waits(u)' = Waits(u) /\ (HasRow(u) \/ Waits(u) => Date(u)' = Date(u))
          BY <4>2 DEF HasRow, Waits, Date
        <4> QED BY <4>1, <4>3, <4>4
      <3>3. \A u \in NewTexts \ {t} : publication'[u].at = publication[u].at
        BY <3>1
      <3>4. \A u \in Texts : (HasRow(u) \/ Waits(u))' => Date(u)' \in 1 .. clock'
        <4>1. \A n \in 1 .. clock : n \in 1 .. clock'
          BY <1>0, <2>1
        <4>2. clock + 1 \in 1 .. clock'
          BY <1>0, <2>1
        <4> QED BY <3>2, <4>1, <4>2 DEF DatesInv
      <3>5. \A u \in Texts \ {t} : (HasRow(u) \/ Waits(u))' => Date(u)' # Date(t)'
        <4>1. \A n \in 1 .. clock : n # clock + 1
          BY <1>0
        <4> QED BY <3>2, <4>1 DEF DatesInv
      <3>6. \A u, v \in Texts : (HasRow(u) \/ Waits(u))' /\ (HasRow(v) \/ Waits(v))' /\ Date(u)' = Date(v)' => u = v
        <4> SUFFICES ASSUME NEW u \in Texts, NEW v \in Texts, (HasRow(u) \/ Waits(u))', (HasRow(v) \/ Waits(v))', Date(u)' = Date(v)'
                     PROVE  u = v
          OBVIOUS
        <4>1. CASE u = t \/ v = t
          BY <3>5, <4>1
        <4>2. CASE u # t /\ v # t
          BY <3>2, <4>2 DEF DatesInv
        <4> QED BY <4>1, <4>2
      <3>7. \A u \in Texts : ~HasRow(u)' => stored'[u] = NoRow
        BY <3>1, <3>2 DEF DatesInv
      <3>8. \A u \in NewTexts : HasRow(u)' <=> publication'[u].at = "done"
        BY <1>0, <3>1, <3>2, <3>3 DEF DatesInv
      <3>9. \A u \in Texts \ NewTexts : HasRow(u)'
        BY <3>2 DEF DatesInv
      <3> QED BY <3>4, <3>6, <3>7, <3>8, <3>9 DEF DatesInv
    <2>2. CASE publication' = [publication EXCEPT ![t].at = "failed"] /\ UNCHANGED clock
      <3>1. [publication[t] EXCEPT !.at = "failed"].at = "failed" /\ UNCHANGED stored /\ publication[t].at = "checked"
        BY <1>0, <1>5 DEF PaperType, SubmitBroadcast
      <3> QED BY <1>b, <2>2, <3>1
    <2> QED BY <1>5, <2>1, <2>2 DEF SubmitBroadcast
  <1>6. ASSUME NEW t \in NewTexts, SaveBroadcast(t) PROVE DatesInv'
    <2>0. Waits(t) /\ ~HasRow(t) /\ UNCHANGED clock /\ t \in Texts
      BY <1>0, <1>6 DEF SaveBroadcast, Waits, DatesInv
    <2>1. CASE /\ stored' = [stored EXCEPT ![t] = [in |-> {publication[t].to}, seq |-> publication[t].seq, at |-> publication[t].when]]
               /\ publication' = [publication EXCEPT ![t].at = "done"]
      <3>1. stored'[t] = [in |-> {publication[t].to}, seq |-> publication[t].seq, at |-> publication[t].when]
        BY <1>0, <2>0, <2>1
      <3>2. stored'[t].in = {publication[t].to} /\ stored'[t].at = publication[t].when
        BY <3>1
      <3>3. publication'[t].at = "done" /\ (\A u \in NewTexts \ {t} : publication'[u] = publication[u])
            /\ \A u \in Texts \ {t} : stored'[u] = stored[u]
        BY <1>0, <2>1 DEF PaperType
      <3>4. /\ HasRow(t)' /\ ~Waits(t)' /\ Date(t)' = Date(t)
            /\ \A u \in Texts \ {t} : HasRow(u)' = HasRow(u) /\ Waits(u)' = Waits(u) /\ (HasRow(u) \/ Waits(u) => Date(u)' = Date(u))
        BY <2>0, <3>2, <3>3 DEF HasRow, Waits, Date
      <3>5. \A u \in Texts : (HasRow(u) \/ Waits(u))' => (HasRow(u) \/ Waits(u)) /\ Date(u)' = Date(u)
        BY <2>0, <3>4
      <3>6. \A u \in NewTexts \ {t} : publication'[u].at = publication[u].at
        BY <3>3
      <3>7. \A u \in NewTexts : HasRow(u)' <=> publication'[u].at = "done"
        BY <1>0, <3>3, <3>4, <3>6 DEF DatesInv
      <3>8. \A u \in Texts : ~HasRow(u)' => stored'[u] = NoRow
        BY <3>3, <3>4 DEF DatesInv
      <3>9. \A u \in Texts \ NewTexts : HasRow(u)'
        BY <3>4 DEF DatesInv
      <3> QED BY <2>0, <3>5, <3>7, <3>8, <3>9 DEF DatesInv
    <2>2. CASE publication' = [publication EXCEPT ![t].at = "failed"] /\ UNCHANGED stored
      <3>1. [publication[t] EXCEPT !.at = "failed"].at = "failed" /\ publication[t].at # "done"
        BY <1>0, <1>6 DEF PaperType, SaveBroadcast
      <3> QED BY <1>b, <2>0, <2>2, <3>1
    <2> QED BY <1>6, <2>1, <2>2 DEF SaveBroadcast
  <1>7. ASSUME NEW t \in NewTexts, PublishAgain(t) PROVE DatesInv'
    <2>1. Unsent.at = "idle"
      BY DEF Unsent
    <2> QED BY <1>7, <1>b, <2>1 DEF PublishAgain
  <1>8. ASSUME NEW t \in NewTexts, HandlePublish(t) PROVE DatesInv'
    <2>1. PICK at \in {"checked", "failed"} : publication' = [publication EXCEPT ![t].at = at]
      BY <1>8 DEF HandlePublish
    <2>2. [publication[t] EXCEPT !.at = at].at = at
      BY <1>0 DEF PaperType
    <2>3. publication' = [publication EXCEPT ![t] = [publication[t] EXCEPT !.at = at]]
      BY <2>1
    <2> QED BY <1>8, <1>b, <2>2, <2>3 DEF HandlePublish
  <1> QED BY <1>1, <1>2, <1>3, <1>4, <1>5, <1>6, <1>7, <1>8 DEF BroadcastNext

LEMMA LogStep ==
    ASSUME BroadcastTypes, DatesInv, LogInv, BroadcastNext
    PROVE  LogInv'
  <1>0. /\ NewTexts \subseteq Texts /\ publication \in [NewTexts -> PaperType] /\ stored \in [Texts -> RowType]
        /\ channelLog \in [Channels -> Seq(Texts)] /\ lost \subseteq NewTexts
    BY DEF NewTexts, Texts, BroadcastTypes
  <1>a. ASSUME UNCHANGED <<channelLog, stored, publication, lost>> PROVE LogInv'
    BY <1>a DEF LogInv, IsAt, Waits
  <1>b. ASSUME NEW t \in NewTexts, NEW p, publication' = [publication EXCEPT ![t] = p], p.at \in {"idle", "checked", "failed"},
               publication[t].at \in {"idle", "checked", "failed"} \/ t \in lost', UNCHANGED <<stored, channelLog>>,
               lost \subseteq lost'
        PROVE  LogInv'
    <2>1. publication'[t] = p /\ \A u \in NewTexts \ {t} : publication'[u] = publication[u]
      BY <1>0, <1>b
    <2>2. \A u \in Texts, c \in Channels, i \in Nat : IsAt(u, c, i)' = IsAt(u, c, i)
      BY <1>b DEF IsAt
    <2>3. \A u \in Texts, c \in Channels, i \in Nat : c \in stored'[u].in /\ i = stored'[u].seq => IsAt(u, c, i)'
      BY <1>b, <2>2 DEF LogInv
    <2>4. \A u \in NewTexts, c \in Channels, i \in Nat :
             Waits(u)' /\ c = publication'[u].to /\ i = publication'[u].seq => IsAt(u, c, i)'
      <3> SUFFICES ASSUME NEW u \in NewTexts, Waits(u)'
                   PROVE  Waits(u) /\ publication'[u] = publication[u]
        BY <1>0, <2>2 DEF LogInv
      <3>1. u # t
        BY <1>b, <2>1 DEF Waits
      <3> QED BY <2>1, <3>1 DEF Waits
    <2>5. \A u \in Texts \ lost', c, d \in Channels, i, j \in Nat : IsAt(u, c, i)' /\ IsAt(u, d, j)' => c = d /\ i = j
      BY <1>b, <2>2 DEF LogInv
    <2>6. \A u \in NewTexts \ lost', c \in Channels, i \in Nat :
             publication'[u].at \in {"idle", "checked", "failed"} => ~IsAt(u, c, i)'
      <3> SUFFICES ASSUME NEW u \in NewTexts \ lost', NEW c \in Channels, NEW i \in Nat,
                          publication'[u].at \in {"idle", "checked", "failed"}
                   PROVE  ~IsAt(u, c, i)
        BY <1>0, <2>2
      <3>1. publication[u].at \in {"idle", "checked", "failed"}
        BY <1>b, <2>1
      <3> QED BY <1>b, <3>1 DEF LogInv
    <2> QED BY <2>3, <2>4, <2>5, <2>6 DEF LogInv
  <1>1. CASE HandleSubscribe \/ SubscribeAnswers \/ PublishAnswers
    BY <1>1, <1>a DEF HandleSubscribe, SubscribeAnswers, PublishAnswers, service
  <1>2. ASSUME NEW c \in Channels, Unsubscribe(c) \/ \E by \in {"id", "name", "account"} : Subscribe(c, by) PROVE LogInv'
    BY <1>2, <1>a DEF Unsubscribe, Subscribe, service
  <1>3. ASSUME NEW l \in Fetches, GetSubscribedFeed(l) \/ LoadFeed(l) \/ LoadFeedFails(l) \/ Refresh(l) PROVE LogInv'
    BY <1>3, <1>a DEF GetSubscribedFeed, LoadFeed, LoadFeedFails, Refresh, service
  <1>4. ASSUME NEW t \in NewTexts, NEW c \in Channels, CreateBroadcast(t, c) PROVE LogInv'
    <2>1. [Unsent EXCEPT !.at = "checked", !.to = c].at = "checked"
      BY DEF Unsent
    <2> QED BY <1>4, <1>b, <2>1 DEF CreateBroadcast
  <1>5. ASSUME NEW t \in NewTexts, SubmitBroadcast(t) PROVE LogInv'
    <2> DEFINE c == publication[t].to
               log == channelLog[c]
               n == Len(log) + 1
               Put == channelLog' = [channelLog EXCEPT ![c] = Append(@, t)]
    <2>0. /\ t \in Texts /\ c \in Channels /\ log \in Seq(Texts) /\ n \in Nat /\ ~Waits(t) /\ ~HasRow(t)
          /\ publication[t].at = "checked" /\ UNCHANGED stored
      BY <1>0, <1>5 DEF SubmitBroadcast, PaperType, Waits, DatesInv
    <2>1. ASSUME Put, NEW u \in Texts, NEW d \in Channels, NEW i \in Nat
          PROVE  IsAt(u, d, i)' <=> IsAt(u, d, i) \/ (u = t /\ d = c /\ i = n)
      <3>1. CASE d = c
        <4>1. channelLog'[d] = Append(log, t)
          BY <1>0, <2>0, <2>1, <3>1
        <4>2. i \in DOMAIN Append(log, t) <=> i \in DOMAIN log \/ i = n
          BY <2>0
        <4>3. n \notin DOMAIN log /\ Append(log, t)[n] = t /\ \A k \in DOMAIN log : Append(log, t)[k] = log[k]
          BY <2>0
        <4> QED BY <3>1, <4>1, <4>2, <4>3 DEF IsAt
      <3>2. CASE d # c
        <4>1. channelLog'[d] = channelLog[d]
          BY <1>0, <2>1, <3>2
        <4> QED BY <3>2, <4>1 DEF IsAt
      <3> QED BY <3>1, <3>2
    <2>2. ASSUME Put \/ UNCHANGED channelLog, NEW u \in Texts, NEW d \in Channels, NEW i \in Nat, IsAt(u, d, i)
          PROVE  IsAt(u, d, i)'
      <3>1. CASE UNCHANGED channelLog
        BY <2>2, <3>1 DEF IsAt
      <3> QED BY <2>1, <2>2, <3>1
    <2>3. ASSUME Put \/ UNCHANGED channelLog
          PROVE  \A u \in Texts, d \in Channels, i \in Nat : d \in stored'[u].in /\ i = stored'[u].seq => IsAt(u, d, i)'
      BY <2>0, <2>2, <2>3 DEF LogInv
    <2>4. ASSUME Put \/ UNCHANGED channelLog, NEW u \in NewTexts, Waits(u), publication'[u] = publication[u]
          PROVE  \A d \in Channels, i \in Nat : d = publication'[u].to /\ i = publication'[u].seq => IsAt(u, d, i)'
      BY <1>0, <2>2, <2>4 DEF LogInv
    <2>5. CASE /\ Put /\ UNCHANGED lost
               /\ publication' = [publication EXCEPT ![t].at = "answered", ![t].seq = Len(channelLog'[c]), ![t].when = clock']
      <3>1. Len(channelLog'[c]) = n
        BY <1>0, <2>0, <2>5
      <3>2. /\ publication'[t].at = "answered" /\ publication'[t].to = c /\ publication'[t].seq = n
            /\ \A u \in NewTexts \ {t} : publication'[u] = publication[u]
        BY <1>0, <2>5, <3>1 DEF PaperType
      <3>3. \A u \in NewTexts, d \in Channels, i \in Nat :
               Waits(u)' /\ d = publication'[u].to /\ i = publication'[u].seq => IsAt(u, d, i)'
        <4> SUFFICES ASSUME NEW u \in NewTexts, NEW d \in Channels, NEW i \in Nat,
                            Waits(u)', d = publication'[u].to, i = publication'[u].seq
                     PROVE  IsAt(u, d, i)'
          OBVIOUS
        <4>1. CASE u = t
          <5>1. d = c /\ i = n
            BY <3>2, <4>1
          <5> QED BY <2>0, <2>1, <2>5, <4>1, <5>1
        <4>2. CASE u # t
          <5>1. Waits(u) /\ publication'[u] = publication[u]
            BY <3>2, <4>2 DEF Waits
          <5> QED BY <2>4, <2>5, <5>1
        <4> QED BY <4>1, <4>2
      <3>4. \A u \in Texts \ lost', d, e \in Channels, i, j \in Nat : IsAt(u, d, i)' /\ IsAt(u, e, j)' => d = e /\ i = j
        <4> SUFFICES ASSUME NEW u \in Texts \ lost, NEW d \in Channels, NEW e \in Channels, NEW i \in Nat, NEW j \in Nat,
                            IsAt(u, d, i)', IsAt(u, e, j)'
                     PROVE  d = e /\ i = j
          BY <2>5
        <4>1. CASE u = t
          <5>1. ~IsAt(t, d, i) /\ ~IsAt(t, e, j)
            BY <2>0, <4>1 DEF LogInv
          <5> QED BY <2>1, <2>5, <4>1, <5>1
        <4>2. CASE u # t
          BY <2>1, <2>5, <4>2 DEF LogInv
        <4> QED BY <4>1, <4>2
      <3>5. \A u \in NewTexts \ lost', d \in Channels, i \in Nat :
               publication'[u].at \in {"idle", "checked", "failed"} => ~IsAt(u, d, i)'
        <4> SUFFICES ASSUME NEW u \in NewTexts \ lost, NEW d \in Channels, NEW i \in Nat,
                            publication'[u].at \in {"idle", "checked", "failed"}
                     PROVE  ~IsAt(u, d, i)'
          BY <2>5
        <4>1. u # t /\ publication'[u] = publication[u]
          BY <3>2
        <4>2. ~IsAt(u, d, i)
          BY <4>1 DEF LogInv
        <4> QED BY <1>0, <2>1, <2>5, <4>1, <4>2
      <3> QED BY <2>3, <2>5, <3>3, <3>4, <3>5 DEF LogInv
    <2>6. CASE /\ Put \/ UNCHANGED channelLog
               /\ publication' = [publication EXCEPT ![t].at = "failed"] /\ lost' = lost \cup {t}
      <3>1. publication'[t].at = "failed" /\ \A u \in NewTexts \ {t} : publication'[u] = publication[u]
        BY <1>0, <2>6 DEF PaperType
      <3>2. \A u \in NewTexts, d \in Channels, i \in Nat :
               Waits(u)' /\ d = publication'[u].to /\ i = publication'[u].seq => IsAt(u, d, i)'
        <4> SUFFICES ASSUME NEW u \in NewTexts, NEW d \in Channels, NEW i \in Nat,
                            Waits(u)', d = publication'[u].to, i = publication'[u].seq
                     PROVE  IsAt(u, d, i)'
          OBVIOUS
        <4>1. Waits(u) /\ publication'[u] = publication[u]
          BY <3>1 DEF Waits
        <4> QED BY <2>4, <2>6, <4>1
      <3>3. ASSUME NEW u \in Texts \ lost', NEW d \in Channels, NEW i \in Nat PROVE IsAt(u, d, i)' <=> IsAt(u, d, i)
        <4>1. CASE UNCHANGED channelLog
          BY <4>1 DEF IsAt
        <4>2. CASE Put
          BY <2>1, <2>6, <4>2
        <4> QED BY <2>6, <4>1, <4>2
      <3>4. \A u \in Texts \ lost', d, e \in Channels, i, j \in Nat : IsAt(u, d, i)' /\ IsAt(u, e, j)' => d = e /\ i = j
        BY <2>6, <3>3 DEF LogInv
      <3>5. \A u \in NewTexts \ lost', d \in Channels, i \in Nat :
               publication'[u].at \in {"idle", "checked", "failed"} => ~IsAt(u, d, i)'
        <4> SUFFICES ASSUME NEW u \in NewTexts \ lost', NEW d \in Channels, NEW i \in Nat,
                            publication'[u].at \in {"idle", "checked", "failed"}
                     PROVE  ~IsAt(u, d, i)'
          OBVIOUS
        <4>1. u # t /\ u \notin lost /\ publication'[u] = publication[u]
          BY <2>6, <3>1
        <4>2. ~IsAt(u, d, i)
          BY <4>1 DEF LogInv
        <4> QED BY <1>0, <3>3, <4>2
      <3> QED BY <2>3, <2>6, <3>2, <3>4, <3>5 DEF LogInv
    <2> QED BY <1>5, <2>5, <2>6 DEF SubmitBroadcast
  <1>6. ASSUME NEW t \in NewTexts, SaveBroadcast(t) PROVE LogInv'
    <2>0. Waits(t) /\ ~HasRow(t) /\ UNCHANGED channelLog /\ t \in Texts
      BY <1>0, <1>6 DEF SaveBroadcast, Waits, DatesInv
    <2>1. CASE /\ stored' = [stored EXCEPT ![t] = [in |-> {publication[t].to}, seq |-> publication[t].seq, at |-> publication[t].when]]
               /\ publication' = [publication EXCEPT ![t].at = "done"] /\ UNCHANGED lost
      <3>1. stored'[t] = [in |-> {publication[t].to}, seq |-> publication[t].seq, at |-> publication[t].when]
        BY <1>0, <2>0, <2>1
      <3>2. stored'[t].in = {publication[t].to} /\ stored'[t].seq = publication[t].seq
        BY <3>1
      <3>3. publication'[t].at = "done" /\ (\A u \in NewTexts \ {t} : publication'[u] = publication[u])
            /\ \A u \in Texts \ {t} : stored'[u] = stored[u]
        BY <1>0, <2>1 DEF PaperType
      <3>4. \A u \in Texts, c \in Channels, i \in Nat : IsAt(u, c, i)' = IsAt(u, c, i)
        BY <2>0 DEF IsAt
      <3>5. \A u \in Texts, d \in Channels, i \in Nat : d \in stored'[u].in /\ i = stored'[u].seq => IsAt(u, d, i)'
        <4> SUFFICES ASSUME NEW u \in Texts, NEW d \in Channels, NEW i \in Nat, d \in stored'[u].in, i = stored'[u].seq
                     PROVE  IsAt(u, d, i)
          BY <3>4
        <4>1. CASE u = t
          BY <2>0, <3>2, <4>1 DEF LogInv
        <4>2. CASE u # t
          BY <3>3, <4>2 DEF LogInv
        <4> QED BY <4>1, <4>2
      <3>6. \A u \in NewTexts, d \in Channels, i \in Nat :
               Waits(u)' /\ d = publication'[u].to /\ i = publication'[u].seq => IsAt(u, d, i)'
        <4> SUFFICES ASSUME NEW u \in NewTexts, Waits(u)' PROVE Waits(u) /\ publication'[u] = publication[u]
          BY <1>0, <3>4 DEF LogInv
        <4> QED BY <3>3 DEF Waits
      <3>7. \A u \in NewTexts : publication'[u].at \in {"idle", "checked", "failed"} => publication[u].at = publication'[u].at
        BY <3>3
      <3> QED BY <1>0, <2>1, <3>4, <3>5, <3>6, <3>7 DEF LogInv
    <2>2. CASE publication' = [publication EXCEPT ![t].at = "failed"] /\ UNCHANGED stored /\ lost' = lost \cup {t}
      <3>1. [publication[t] EXCEPT !.at = "failed"].at = "failed"
        BY <1>0 DEF PaperType
      <3> QED BY <1>b, <2>0, <2>2, <3>1
    <2> QED BY <1>6, <2>1, <2>2 DEF SaveBroadcast
  <1>7. ASSUME NEW t \in NewTexts, PublishAgain(t) PROVE LogInv'
    <2>1. Unsent.at = "idle"
      BY DEF Unsent
    <2> QED BY <1>7, <1>b, <2>1 DEF PublishAgain
  <1>8. ASSUME NEW t \in NewTexts, HandlePublish(t) PROVE LogInv'
    <2>1. PICK at \in {"checked", "failed"} : publication' = [publication EXCEPT ![t].at = at]
      BY <1>8 DEF HandlePublish
    <2>2. [publication[t] EXCEPT !.at = at].at = at
      BY <1>0 DEF PaperType
    <2>3. publication' = [publication EXCEPT ![t] = [publication[t] EXCEPT !.at = at]]
      BY <2>1
    <2> QED BY <1>8, <1>b, <2>2, <2>3 DEF HandlePublish
  <1> QED BY <1>1, <1>2, <1>3, <1>4, <1>5, <1>6, <1>7, <1>8 DEF BroadcastNext

\* What a step does with a load: it keeps what it holds, begins or ends it, or answers it.
LEMMA FetchMoves ==
    ASSUME BroadcastTypes, DatesInv, BroadcastNext, NEW l \in Fetches
    PROVE  LET f == fetch[l]  g == fetch'[l] IN
           \/ g.cursor = f.cursor /\ g.items = f.items /\ g.more = f.more
           \/ g.cursor \in {Never, nextCursor} /\ g.items = <<>> /\ ~g.more
           \/ g.cursor = f.cursor /\ (g.more => g.items # <<>>) /\ \A i \in DOMAIN g.items : g.items[i] \in Rows(f.cursor)
  <1> DEFINE f == fetch[l]
             g == fetch'[l]
             Kept == g.cursor = f.cursor /\ g.items = f.items /\ g.more = f.more
             Idle == g.cursor \in {Never, nextCursor} /\ g.items = <<>> /\ ~g.more
             Answered == g.cursor = f.cursor /\ (g.more => g.items # <<>>) /\ \A i \in DOMAIN g.items : g.items[i] \in Rows(f.cursor)
             Goal == Kept \/ Idle \/ Answered
  <1>0. fetch \in [Fetches -> FetchType] /\ f \in FetchType /\ nextCursor \in 1 .. Never
    BY DEF BroadcastTypes
  <1>a. ASSUME UNCHANGED fetch PROVE Goal
    BY <1>a
  <1>b. ASSUME NEW k \in Fetches, NEW h, fetch' = [fetch EXCEPT ![k] = h], h.cursor \in {Never, nextCursor}, h.items = <<>>, ~h.more
        PROVE  Goal
    BY <1>0, <1>b
  <1>c. ASSUME Reload PROVE Goal
    BY <1>b, <1>c, UnaskedIs DEF Reload
  <1>d. ASSUME fetch' = Overtaken PROVE Goal
    BY <1>0, <1>d, OvertakenIs
  <1> HIDE DEF Goal
  <1>1. ASSUME HandleSubscribe \/ SubscribeAnswers \/ PublishAnswers PROVE Goal
    <2>1. UNCHANGED fetch \/ Reload
      BY <1>1 DEF HandleSubscribe, SubscribeAnswers, PublishAnswers
    <2> QED BY <1>a, <1>c, <2>1
  <1>2. ASSUME NEW c \in Channels, Unsubscribe(c) \/ \E by \in {"id", "name", "account"} : Subscribe(c, by) PROVE Goal
    BY <1>2, <1>a, <1>d DEF Unsubscribe, Subscribe
  <1>3. ASSUME NEW t \in NewTexts, SubmitBroadcast(t) \/ PublishAgain(t) \/ HandlePublish(t) \/ \E c \in Channels : CreateBroadcast(t, c)
        PROVE  Goal
    BY <1>3, <1>a DEF SubmitBroadcast, PublishAgain, HandlePublish, CreateBroadcast, reader
  <1>4. ASSUME NEW t \in NewTexts, SaveBroadcast(t) PROVE Goal
    BY <1>4, <1>a, <1>d DEF SaveBroadcast
  <1>5. ASSUME NEW k \in Fetches, GetSubscribedFeed(k) PROVE Goal
    <2>1. CASE k # l
      <3>1. fetch'[l] = fetch[l]
        BY <1>0, <1>5, <2>1 DEF GetSubscribedFeed
      <3> QED BY <3>1 DEF Goal
    <2>2. CASE k = l /\ fetch' = [fetch EXCEPT ![k].at = "failed"]
      BY <1>0, <2>2 DEF FetchType, Goal
    <2>3. ASSUME k = l, NEW s \in Seq(Texts), NEW more \in BOOLEAN,
                 fetch' = [fetch EXCEPT ![k].at = "got", ![k].more = more, ![k].items = s],
                 more => s # <<>>, \A i \in DOMAIN s : s[i] \in Rows(f.cursor)
          PROVE  Goal
      <3>1. g.cursor = f.cursor /\ g.items = s /\ g.more = more
        BY <1>0, <2>3 DEF FetchType
      <3> QED BY <2>3, <3>1 DEF Goal
    <2> QED BY <1>5, <2>1, <2>2, <2>3, FeedAnswer
  <1>6. ASSUME NEW k \in Fetches, LoadFeed(k) \/ LoadFeedFails(k) PROVE Goal
    BY <1>6, <1>b, UnaskedIs DEF LoadFeed, LoadFeedFails
  <1>7. ASSUME NEW k \in Fetches, Refresh(k) PROVE Goal
    BY <1>0, <1>7, <1>b, UnaskedIs, FurtherIs DEF Refresh
  <1>8. Goal
    BY <1>1, <1>2, <1>3, <1>4, <1>5, <1>6, <1>7 DEF BroadcastNext
  <1> QED BY <1>8 DEF Goal

LEMMA HeldStep ==
    ASSUME BroadcastTypes, DatesInv, HeldInv, BroadcastNext
    PROVE  HeldInv'
  <1>0. fetch \in [Fetches -> FetchType] /\ fetch' \in [Fetches -> FetchType]
    BY BroadcastTypeStep DEF BroadcastTypes
  <1>1. \A u \in Texts : HasRow(u) => HasRow(u)' /\ stored'[u] = stored[u]
    BY RowsStay DEF HasRow
  <1>2. \A n \in Nat : IsCursor(n) => IsCursor(n)'
    BY <1>1 DEF IsCursor
  <1>3. ASSUME NEW l \in Fetches PROVE RowsHeld(fetch[l])'
    <2> DEFINE f == fetch[l]
               g == fetch'[l]
    <2>1. f \in FetchType /\ g \in FetchType /\ RowsHeld(f) /\ f.cursor \in Nat /\ nextCursor \in Nat /\ g.cursor \in Nat
      BY <1>0 DEF HeldInv, FetchType, BroadcastTypes
    <2>2. \A n \in Nat : n = g.cursor => IsCursor(n)'
      <3>1. g.cursor \in {f.cursor, Never, nextCursor}
        BY FetchMoves
      <3>2. IsCursor(Never) /\ IsCursor(f.cursor) /\ IsCursor(nextCursor)
        BY <2>1 DEF IsCursor, HeldInv, RowsHeld
      <3>3. IsCursor(g.cursor)
        BY <3>1, <3>2
      <3>4. \A n \in Nat : n = g.cursor => IsCursor(n)
        BY <3>3 DEF IsCursor
      <3> QED BY <1>2, <3>4
    <2>3. g.more => g.items # <<>>
      BY <2>1, FetchMoves DEF RowsHeld
    <2>4. \A i \in DOMAIN g.items : g.items[i] \in Texts /\ HasRow(g.items[i])
      <3>1. g.items \in Seq(Texts)
        BY <2>1 DEF FetchType
      <3>2. \A i \in DOMAIN g.items : g.items[i] \in Texts
        BY <3>1
      <3>3. \A t \in Rows(f.cursor) : HasRow(t)
        BY DEF Rows, HasRow
      <3> QED BY <2>1, <3>2, <3>3, FetchMoves DEF RowsHeld
    <2>5. \A t \in Texts : (\E i \in DOMAIN g.items : t = g.items[i]) => HasRow(t)'
      BY <1>1, <2>4
    <2>6. \A i \in DOMAIN g.items : stored'[g.items[i]].in # {}
      BY <2>4, <2>5 DEF HasRow
    <2>7. g.cursor = Never \/ \E u \in Texts : HasRow(u)' /\ stored'[u].at = g.cursor
      BY <2>1, <2>2 DEF IsCursor
    <2> QED BY <2>3, <2>6, <2>7 DEF RowsHeld, IsCursor, HasRow
  <1>4. IsCursor(nextCursor)'
    <2>1. nextCursor \in Nat /\ nextCursor' \in Nat
      BY BroadcastTypeStep DEF BroadcastTypes
    <2>2. CASE UNCHANGED nextCursor
      <3>1. \A n \in Nat : n = nextCursor => IsCursor(n)'
        BY <1>2, <2>1 DEF HeldInv, IsCursor
      <3> QED BY <2>1, <2>2, <3>1 DEF IsCursor
    <2>3. ASSUME NEW l \in Fetches, LoadFeed(l) PROVE IsCursor(nextCursor)'
      <3>1. CASE ~fetch[l].more
        BY <2>3, <3>1 DEF LoadFeed, IsCursor
      <3>2. CASE fetch[l].more
        <4> DEFINE s == fetch[l].items
                   u == s[Len(s)]
        <4>1. s \in Seq(Texts) /\ s # <<>> /\ \A i \in DOMAIN s : HasRow(s[i])
          BY <1>0, <3>2 DEF FetchType, HeldInv, RowsHeld
        <4>2. u \in Texts /\ HasRow(u) /\ nextCursor' = stored[u].at
          BY <2>3, <3>2, <4>1 DEF LoadFeed
        <4>3. \E v \in Texts : HasRow(v)' /\ stored'[v].at = nextCursor'
          BY <1>1, <4>2
        <4> QED BY <4>3 DEF IsCursor
      <3> QED BY <3>1, <3>2
    <2>4. UNCHANGED nextCursor \/ \E l \in Fetches : LoadFeed(l)
      BY DEF BroadcastNext, CreateBroadcast, SubmitBroadcast, SaveBroadcast, PublishAgain, HandlePublish, HandleSubscribe, SubscribeAnswers,
           PublishAnswers, Unsubscribe, Subscribe, GetSubscribedFeed, LoadFeedFails, Refresh, pageShown, reader
    <2> QED BY <2>2, <2>3, <2>4
  <1> QED BY <1>3, <1>4 DEF HeldInv

--------------------------------------------------------------------------------
(* Rows that come while pages are shown *)

LEMMA SameRows ==
    ASSUME UNCHANGED <<stored, subscribed>>
    PROVE  \A s : (Page(s) => Page(s)') /\ \A c : Behind(s, c) => Behind(s, c)'
  BY DEF Page, Falling, Listed, Between, Behind, Later, Visible, Has

LEMMA PageIs ==
    ASSUME NEW s, s = feed', Page(s)'
    PROVE  Page(feed)'
  BY DEF Page, Falling, Listed, Between, Later, Visible, Has

LEMMA AnswerIs ==
    ASSUME NEW l \in Fetches, NEW s, NEW c, s = fetch'[l].items, c = fetch'[l].cursor, Behind(s, c)'
    PROVE  Behind(fetch[l].items, fetch[l].cursor)'
  BY DEF Falling, Listed, Behind, Later, Visible, Has

\* A row that is not late is before all others: no page and no cursor is behind it.
LEMMA NewRow ==
    ASSUME BroadcastTypes, DatesInv, NEW t \in NewTexts, ~IsLate(t), publication[t].at = "answered",
           stored' = [stored EXCEPT ![t] = [in |-> {publication[t].to}, seq |-> publication[t].seq, at |-> publication[t].when]],
           UNCHANGED subscribed
    PROVE  \A s \in Seq(Texts) : /\ Page(s) => Page(s)'
                                 /\ \A c \in Nat : IsCursor(c) /\ Behind(s, c) => Behind(s, c)'
  <1> DEFINE w == publication[t].when
  <1>0. /\ NewTexts \subseteq Texts /\ Waits(t) /\ ~HasRow(t) /\ w = Date(t) /\ w \in Nat
        /\ \A u \in Texts : stored[u].at \in Nat
    <2>1. Waits(t) /\ ~HasRow(t)
      BY DEF Waits, DatesInv
    <2>2. w \in Nat
      BY BroadcastAssumption DEF BroadcastTypes, PaperType
    <2> QED BY <2>1, <2>2, DatesAreNat DEF Date, NewTexts, Texts
  <1>1. /\ stored'[t].at = w /\ \A u \in Texts \ {t} : stored'[u] = stored[u]
    BY <1>0 DEF BroadcastTypes
  <1>2. \A u \in Texts : HasRow(u) => u # t /\ stored[u].at < w
    <2> SUFFICES ASSUME NEW u \in Texts, HasRow(u) PROVE u # t /\ stored[u].at < w
      OBVIOUS
    <2>1. ~(stored[u].at > w) /\ u # t
      BY <1>0 DEF IsLate
    <2>2. stored[u].at # w
      BY <1>0, <2>1 DEF DatesInv, Date
    <2> QED BY <1>0, <2>1, <2>2
  <1>3. \A u, v \in Texts \ {t} : (Later(u, v)' <=> Later(u, v)) /\ (Visible(u)' <=> Visible(u))
    BY <1>1 DEF Later, Visible
  <1>4. \A u \in Texts : HasRow(u) => ~Later(u, t)'
    BY <1>0, <1>1, <1>2 DEF Later
  <1>5. \A u \in Texts : Visible(u) => HasRow(u) /\ u # t
    BY <1>2 DEF Visible, HasRow
  <1>6. ASSUME NEW s \in Seq(Texts), Falling(s), Listed(s) PROVE Falling(s)' /\ Listed(s)' /\ \A i \in DOMAIN s : s[i] \in Texts /\ HasRow(s[i]) /\ s[i] # t
    <2>1. \A i \in DOMAIN s : s[i] \in Texts /\ Visible(s[i])
      BY <1>6 DEF Listed
    <2>2. \A i \in DOMAIN s : s[i] \in Texts \ {t} /\ HasRow(s[i])
      BY <1>5, <2>1
    <2>3. Falling(s)'
      BY <1>3, <1>6, <2>2 DEF Falling
    <2>4. Listed(s)'
      BY <1>3, <2>1, <2>2 DEF Listed
    <2> QED BY <2>2, <2>3, <2>4
  <1>7. ASSUME NEW s \in Seq(Texts), Page(s) PROVE Page(s)'
    <2>1. Falling(s)' /\ Listed(s)' /\ \A i \in DOMAIN s : s[i] \in Texts /\ HasRow(s[i]) /\ s[i] # t
      BY <1>6, <1>7 DEF Page
    <2>2. ASSUME NEW u \in Texts, NEW i \in DOMAIN s, NEW j \in DOMAIN s, Visible(u)', Later(s[i], u)', Later(u, s[j])'
          PROVE  Has(s, u)
      <3>1. u # t
        BY <1>4, <2>1, <2>2
      <3>2. Visible(u) /\ Later(s[i], u) /\ Later(u, s[j])
        BY <1>3, <2>1, <2>2, <3>1
      <3> QED BY <1>7, <3>2 DEF Page, Between
    <2>3. Between(s)'
      BY <2>2 DEF Between, Has
    <2> QED BY <2>1, <2>3 DEF Page
  <1>8. ASSUME NEW s \in Seq(Texts), NEW c \in Nat, IsCursor(c), Behind(s, c) PROVE Behind(s, c)'
    <2>1. Falling(s)' /\ Listed(s)' /\ \A i \in DOMAIN s : s[i] \in Texts /\ HasRow(s[i]) /\ s[i] # t
      BY <1>6, <1>8 DEF Behind
    <2>2. \A i \in DOMAIN s : stored'[s[i]].at < c
      BY <1>1, <1>8, <2>1 DEF Behind
    <2>3. ASSUME NEW u \in Texts, NEW j \in DOMAIN s, Visible(u)', stored'[u].at < c, Later(u, s[j])', c = Never => Later(s[1], u)'
          PROVE  Has(s, u)
      <3>1. 1 \in DOMAIN s
        BY <2>3
      <3>2. u # t
        <4> SUFFICES ASSUME u = t PROVE FALSE
          OBVIOUS
        <4>1. CASE c = Never
          BY <1>4, <2>1, <2>3, <3>1, <4>1
        <4>2. CASE c # Never
          <5>1. PICK v \in Texts : HasRow(v) /\ stored[v].at = c
            BY <1>8, <4>2 DEF IsCursor
          <5>2. c < w /\ w < c
            BY <1>1, <1>2, <2>3, <5>1
          <5> QED BY <1>0, <5>2
        <4> QED BY <4>1, <4>2
      <3>3. stored'[u] = stored[u] /\ Visible(u) /\ Later(u, s[j]) /\ (c = Never => Later(s[1], u))
        BY <1>1, <1>3, <2>1, <2>3, <3>1, <3>2
      <3> QED BY <1>8, <2>3, <3>3 DEF Behind
    <2> QED BY <2>1, <2>2, <2>3 DEF Behind, Has
  <1> QED BY <1>7, <1>8

LEMMA FeedStep ==
    ASSUME BroadcastIInv, BroadcastNext
    PROVE  FeedWhole'
  <1>0. /\ BroadcastTypes /\ DatesInv /\ HeldInv /\ FeedWhole /\ AnswersInv /\ MoreInv
        /\ feed \in Seq(Texts) /\ fetch \in [Fetches -> FetchType]
    BY DEF BroadcastIInv, BroadcastTypes
  <1>a. ASSUME mixed' = TRUE PROVE FeedWhole'
    BY <1>a DEF FeedWhole
  <1>b. ASSUME mixed => mixed', UNCHANGED <<stored, subscribed, pageShown>> PROVE FeedWhole'
    <2> SUFFICES ASSUME ~mixed' PROVE Page(feed)' /\ (hasMore' => feed' # <<>> /\ nextCursor' = stored'[feed'[Len(feed')]].at)
      BY DEF FeedWhole
    <2>1. Page(feed) /\ (hasMore => feed # <<>> /\ nextCursor = stored[feed[Len(feed)]].at)
      BY <1>0, <1>b DEF FeedWhole
    <2>2. Page(feed)'
      BY <1>b, <2>1 DEF Page, Falling, Listed, Between, Later, Visible, Has, pageShown
    <2> QED BY <1>b, <2>1, <2>2 DEF pageShown
  <1>1. CASE HandleSubscribe \/ SubscribeAnswers \/ PublishAnswers
    BY <1>1, <1>b DEF HandleSubscribe, SubscribeAnswers, PublishAnswers, service
  <1>2. ASSUME NEW c \in Channels, Unsubscribe(c) PROVE FeedWhole'
    BY <1>2, <1>a DEF Unsubscribe
  <1>3. ASSUME NEW c \in Channels, NEW by \in {"id", "name", "account"}, Subscribe(c, by) PROVE FeedWhole'
    BY <1>3, <1>a, <1>b DEF Subscribe, service
  <1>4. ASSUME NEW t \in NewTexts, SubmitBroadcast(t) \/ PublishAgain(t) \/ HandlePublish(t) \/ \E c \in Channels : CreateBroadcast(t, c)
        PROVE  FeedWhole'
    <2>1. UNCHANGED <<stored, reader, mixed>>
      BY <1>4 DEF SubmitBroadcast, PublishAgain, HandlePublish, CreateBroadcast
    <2> QED BY <1>b, <2>1 DEF reader
  <1>5. ASSUME NEW t \in NewTexts, SaveBroadcast(t) PROVE FeedWhole'
    <2>1. CASE UNCHANGED <<stored, mixed>>
      BY <1>5, <1>b, <2>1 DEF SaveBroadcast
    <2>2. CASE /\ stored' = [stored EXCEPT ![t] = [in |-> {publication[t].to}, seq |-> publication[t].seq, at |-> publication[t].when]]
               /\ mixed' = (mixed \/ IsLate(t))
      <3>1. CASE IsLate(t)
        BY <1>a, <2>2, <3>1
      <3>2. CASE ~IsLate(t)
        <4> SUFFICES ASSUME ~mixed' PROVE Page(feed)' /\ (hasMore' => feed' # <<>> /\ nextCursor' = stored'[feed'[Len(feed')]].at)
          BY DEF FeedWhole
        <4>1. Page(feed) /\ (hasMore => feed # <<>> /\ nextCursor = stored[feed[Len(feed)]].at)
          BY <1>0, <2>2 DEF FeedWhole
        <4>2. UNCHANGED <<feed, hasMore, nextCursor, subscribed>> /\ publication[t].at = "answered"
          BY <1>5 DEF SaveBroadcast, pageShown
        <4>3. \A s \in Seq(Texts) : Page(s) => Page(s)'
          BY <1>0, <2>2, <3>2, <4>2, NewRow
        <4>4. \A s \in Seq(Texts) : s = feed => Page(s)'
          BY <4>1, <4>3 DEF Page, Falling, Listed, Between, Has
        <4>5. Page(feed)'
          BY <1>0, <4>2, <4>4, PageIs
        <4>6. ASSUME feed # <<>> PROVE stored'[feed[Len(feed)]] = stored[feed[Len(feed)]]
          <5>1. Len(feed) \in DOMAIN feed /\ feed[Len(feed)] \in Texts
            BY <1>0, <4>6
          <5>2. HasRow(feed[Len(feed)])
            BY <4>1, <5>1 DEF Page, Listed, Visible, HasRow
          <5> QED BY <1>0, <5>1, <5>2, RowsStay
        <4> QED BY <4>1, <4>2, <4>5, <4>6
      <3> QED BY <3>1, <3>2
    <2> QED BY <1>5, <2>1, <2>2 DEF SaveBroadcast
  <1>6. ASSUME NEW l \in Fetches, GetSubscribedFeed(l) \/ LoadFeedFails(l) \/ Refresh(l) PROVE FeedWhole'
    <2>1. UNCHANGED <<service, subscribed, pageShown>> /\ (mixed' = mixed \/ mixed' = (mixed \/ MoreUnderWay({l})))
      BY <1>6 DEF GetSubscribedFeed, LoadFeedFails, Refresh
    <2>2. mixed => mixed'
      BY <2>1, Zenon
    <2> QED BY <1>b, <2>1, <2>2 DEF service
  <1>7. ASSUME NEW l \in Fetches, LoadFeed(l) PROVE FeedWhole'
    <2> DEFINE f == fetch[l]
               s == f.items
    <2> SUFFICES ASSUME ~mixed' PROVE Page(feed)' /\ (hasMore' => feed' # <<>> /\ nextCursor' = stored'[feed'[Len(feed')]].at)
      BY DEF FeedWhole
    <2>1. s \in Seq(Texts) /\ f.cursor \in Nat /\ f.at = "got" /\ f.fresh /\ Behind(s, f.cursor) /\ UNCHANGED <<stored, subscribed>>
          /\ hasMore' = f.more /\ (f.more => s # <<>> /\ nextCursor' = stored[s[Len(s)]].at)
      BY <1>0, <1>7 DEF LoadFeed, FetchType, AnswersInv, HeldInv, RowsHeld, service
    <2>2. CASE f.cursor = Never
      <3>1. feed' = s
        BY <1>7, <2>2 DEF LoadFeed
      <3>2. \A r \in Seq(Texts) : r = s => Page(r)'
        BY <1>0, <2>1, <2>2, FirstPage, SameRows
      <3>3. Page(feed)'
        BY <2>1, <3>1, <3>2, PageIs
      <3> QED BY <2>1, <3>1, <3>3
    <2>3. CASE f.cursor # Never
      <3>1. feed' = feed \o s /\ ~mixed
        BY <1>7, <2>3 DEF LoadFeed
      <3>2. Page(feed) /\ hasMore /\ feed # <<>> /\ f.cursor = stored[feed[Len(feed)]].at
        BY <1>0, <2>3, <3>1 DEF MoreInv, FeedWhole
      <3>3. Page(feed \o s)
        BY <1>0, <2>1, <3>2, NextPage
      <3>4. \A r : r = feed \o s => Page(r)'
        BY <2>1, <3>3, SameRows
      <3>5. Page(feed)'
        BY <3>1, <3>4, PageIs
      <3>6. s # <<>> => feed' # <<>> /\ feed'[Len(feed')] = s[Len(s)]
        BY <1>0, <2>1, <3>1
      <3> QED BY <2>1, <3>5, <3>6
    <2> QED BY <2>2, <2>3
  <1> QED BY <1>1, <1>2, <1>3, <1>4, <1>5, <1>6, <1>7 DEF BroadcastNext

LEMMA AnswersStep ==
    ASSUME BroadcastIInv, BroadcastNext
    PROVE  AnswersInv'
  <1>0. /\ BroadcastTypes /\ DatesInv /\ HeldInv /\ AnswersInv /\ fetch \in [Fetches -> FetchType]
        /\ fetch' \in [Fetches -> FetchType]
    BY BroadcastTypeStep DEF BroadcastIInv, BroadcastTypes
  <1> SUFFICES ASSUME NEW l \in Fetches, fetch'[l].at = "got", fetch'[l].fresh PROVE Behind(fetch[l].items, fetch[l].cursor)'
    BY DEF AnswersInv
  <1> DEFINE Goal == Behind(fetch[l].items, fetch[l].cursor)'
  <1>a. ASSUME fetch'[l] = fetch[l], UNCHANGED <<stored, subscribed>> PROVE Goal
    <2>1. Behind(fetch[l].items, fetch[l].cursor)
      BY <1>0, <1>a DEF AnswersInv
    <2> QED BY <1>a, <2>1 DEF Falling, Listed, Behind, Later, Visible, Has
  <1>b. ASSUME NEW k \in Fetches, NEW h, fetch' = [fetch EXCEPT ![k] = h], h.at # "got", UNCHANGED <<stored, subscribed>> PROVE Goal
    <2>1. k # l
      BY <1>0, <1>b
    <2> QED BY <1>0, <1>a, <1>b, <2>1
  <1>c. ASSUME Reload, UNCHANGED <<stored, subscribed>> PROVE Goal
    <2>1. PICK k \in Fetches : fetch' = [fetch EXCEPT ![k] = Asking]
      BY <1>c DEF Reload
    <2> QED BY <1>b, <1>c, <2>1, UnaskedIs
  <1>d. fetch' # Overtaken
    BY <1>0, OvertakenIs
  <1> HIDE DEF Goal
  <1>1. ASSUME HandleSubscribe \/ SubscribeAnswers \/ PublishAnswers PROVE Goal
    <2>1. (UNCHANGED fetch \/ Reload) /\ UNCHANGED <<stored, subscribed>>
      BY <1>1 DEF HandleSubscribe, SubscribeAnswers, PublishAnswers, service
    <2> QED BY <1>a, <1>c, <2>1
  <1>2. ASSUME NEW c \in Channels, Unsubscribe(c) PROVE Goal
    BY <1>2, <1>d DEF Unsubscribe
  <1>3. ASSUME NEW c \in Channels, NEW by \in {"id", "name", "account"}, Subscribe(c, by) PROVE Goal
    BY <1>3, <1>a, <1>d DEF Subscribe, service
  <1>4. ASSUME NEW t \in NewTexts, SubmitBroadcast(t) \/ PublishAgain(t) \/ HandlePublish(t) \/ \E c \in Channels : CreateBroadcast(t, c)
        PROVE  Goal
    BY <1>4, <1>a DEF SubmitBroadcast, PublishAgain, HandlePublish, CreateBroadcast, reader
  <1>5. ASSUME NEW t \in NewTexts, SaveBroadcast(t) PROVE Goal
    <2>1. CASE UNCHANGED <<stored, fetch>>
      BY <1>5, <1>a, <2>1 DEF SaveBroadcast
    <2>2. CASE /\ stored' = [stored EXCEPT ![t] = [in |-> {publication[t].to}, seq |-> publication[t].seq, at |-> publication[t].when]]
               /\ fetch' = IF IsLate(t) THEN Overtaken ELSE fetch
      <3>1. ~IsLate(t) /\ UNCHANGED <<fetch, subscribed>> /\ publication[t].at = "answered"
        BY <1>5, <1>d, <2>2 DEF SaveBroadcast
      <3>2. /\ Behind(fetch[l].items, fetch[l].cursor) /\ IsCursor(fetch[l].cursor)
            /\ fetch[l].items \in Seq(Texts) /\ fetch[l].cursor \in Nat
        BY <1>0, <3>1 DEF AnswersInv, HeldInv, RowsHeld, FetchType
      <3>3. \A s \in Seq(Texts), c \in Nat : s = fetch[l].items /\ c = fetch[l].cursor => Behind(s, c)'
        <4> SUFFICES ASSUME NEW s \in Seq(Texts), NEW c \in Nat, s = fetch[l].items, c = fetch[l].cursor PROVE Behind(s, c)'
          OBVIOUS
        <4>1. Behind(s, c) /\ IsCursor(c)
          BY <3>2 DEF Behind, Falling, Listed, Has, IsCursor
        <4> QED BY <1>0, <2>2, <3>1, <4>1, NewRow
      <3> QED BY <3>1, <3>2, <3>3, AnswerIs DEF Goal
    <2> QED BY <1>5, <2>1, <2>2 DEF SaveBroadcast
  <1>6. ASSUME NEW k \in Fetches, GetSubscribedFeed(k) PROVE Goal
    <2>0. UNCHANGED <<stored, subscribed>>
      BY <1>6 DEF GetSubscribedFeed, service
    <2>1. CASE k # l
      <3>1. fetch'[l] = fetch[l]
        BY <1>0, <1>6, <2>1 DEF GetSubscribedFeed
      <3> QED BY <1>a, <2>0, <3>1
    <2>2. CASE k = l /\ fetch' = [fetch EXCEPT ![k].at = "failed"]
      BY <1>0, <2>2 DEF FetchType
    <2>3. ASSUME k = l, NEW s \in Seq(Texts), NEW more \in BOOLEAN, Behind(s, fetch[l].cursor),
                 fetch' = [fetch EXCEPT ![k].at = "got", ![k].more = more, ![k].items = s]
          PROVE  Goal
      <3>1. fetch'[l].cursor = fetch[l].cursor /\ fetch'[l].items = s
        BY <1>0, <2>3 DEF FetchType
      <3>2. \A c : c = fetch[l].cursor => Behind(s, c)'
        BY <2>0, <2>3, SameRows DEF Behind
      <3> QED BY <3>1, <3>2, AnswerIs DEF Goal
    <2> QED BY <1>0, <1>6, <2>1, <2>2, <2>3, FeedAnswer
  <1>7. ASSUME NEW k \in Fetches, LoadFeed(k) \/ LoadFeedFails(k) PROVE Goal
    BY <1>7, <1>b, UnaskedIs DEF LoadFeed, LoadFeedFails, service
  <1>8. ASSUME NEW k \in Fetches, Refresh(k) PROVE Goal
    BY <1>0, <1>8, <1>b, UnaskedIs, FurtherIs DEF Refresh, service, BroadcastTypes
  <1>9. Goal
    BY <1>1, <1>2, <1>3, <1>4, <1>5, <1>6, <1>7, <1>8 DEF BroadcastNext
  <1> QED BY <1>9 DEF Goal

LEMMA MoreStep ==
    ASSUME BroadcastIInv, BroadcastNext
    PROVE  MoreInv'
  <1>0. BroadcastTypes /\ MoreInv /\ fetch \in [Fetches -> FetchType] /\ mixed \in BOOLEAN
    BY DEF BroadcastIInv, BroadcastTypes
  <1>a. ASSUME mixed' = TRUE PROVE MoreInv'
    BY <1>a DEF MoreInv
  <1>b. ASSUME mixed => mixed', UNCHANGED <<hasMore, nextCursor>>,
               \A l \in Fetches : fetch'[l].cursor \in {fetch[l].cursor, Never}
        PROVE  MoreInv'
    <2> SUFFICES ASSUME ~mixed', NEW l \in Fetches, fetch'[l].cursor # Never
                 PROVE  hasMore /\ fetch'[l].cursor = nextCursor /\ \A k \in Fetches \ {l} : fetch'[k].cursor = Never
      BY <1>b DEF MoreInv
    <2>1. fetch[l].cursor # Never /\ fetch'[l].cursor = fetch[l].cursor /\ ~mixed
      BY <1>b
    <2> QED BY <1>0, <1>b, <2>1 DEF MoreInv
  <1>c. ASSUME NEW k \in Fetches, NEW h, fetch' = [fetch EXCEPT ![k] = h], h.cursor \in {fetch[k].cursor, Never}
        PROVE  \A l \in Fetches : fetch'[l].cursor \in {fetch[l].cursor, Never}
    BY <1>0, <1>c
  <1>d. ASSUME Reload PROVE \A l \in Fetches : fetch'[l].cursor \in {fetch[l].cursor, Never}
    BY <1>c, <1>d, UnaskedIs DEF Reload
  <1>1. CASE HandleSubscribe \/ SubscribeAnswers \/ PublishAnswers
    <2>1. (UNCHANGED fetch \/ Reload) /\ UNCHANGED <<pageShown, mixed>>
      BY <1>1 DEF HandleSubscribe, SubscribeAnswers, PublishAnswers
    <2> QED BY <1>b, <1>d, <2>1 DEF pageShown
  <1>2. ASSUME NEW c \in Channels, Unsubscribe(c) PROVE MoreInv'
    BY <1>2, <1>a DEF Unsubscribe
  <1>3. ASSUME NEW c \in Channels, NEW by \in {"id", "name", "account"}, Subscribe(c, by) PROVE MoreInv'
    BY <1>3, <1>a, <1>b DEF Subscribe, pageShown
  <1>4. ASSUME NEW t \in NewTexts, SubmitBroadcast(t) \/ PublishAgain(t) \/ HandlePublish(t) \/ \E c \in Channels : CreateBroadcast(t, c)
        PROVE  MoreInv'
    <2>1. UNCHANGED <<reader, mixed>>
      BY <1>4 DEF SubmitBroadcast, PublishAgain, HandlePublish, CreateBroadcast
    <2> QED BY <1>b, <2>1 DEF reader, pageShown
  <1>5. ASSUME NEW t \in NewTexts, SaveBroadcast(t) PROVE MoreInv'
    <2>1. UNCHANGED pageShown /\ (mixed' = mixed \/ mixed' = (mixed \/ IsLate(t))) /\ (UNCHANGED fetch \/ fetch' = Overtaken)
      BY <1>5 DEF SaveBroadcast
    <2>2. mixed => mixed'
      BY <2>1, Zenon
    <2>3. \A l \in Fetches : fetch'[l].cursor \in {fetch[l].cursor, Never}
      BY <1>0, <2>1, OvertakenIs
    <2> QED BY <1>b, <2>1, <2>2, <2>3 DEF pageShown
  <1>6. ASSUME NEW l \in Fetches, GetSubscribedFeed(l) PROVE MoreInv'
    <2>1. UNCHANGED <<mixed, pageShown>>
      BY <1>6 DEF GetSubscribedFeed
    <2>2. \A k \in Fetches : fetch'[k].cursor \in {fetch[k].cursor, Never}
      <3>1. CASE fetch' = [fetch EXCEPT ![l].at = "failed"]
        BY <1>0, <3>1 DEF FetchType
      <3>2. ASSUME NEW s \in Seq(Texts), NEW more \in BOOLEAN,
                   fetch' = [fetch EXCEPT ![l].at = "got", ![l].more = more, ![l].items = s]
            PROVE  \A k \in Fetches : fetch'[k].cursor \in {fetch[k].cursor, Never}
        BY <1>0, <3>2 DEF FetchType
      <3>3. DatesInv
        BY DEF BroadcastIInv
      <3> QED BY <1>0, <1>6, <3>1, <3>2, <3>3, FeedAnswer
    <2> QED BY <1>b, <2>1, <2>2 DEF pageShown
  <1>7. ASSUME NEW l \in Fetches, LoadFeed(l) PROVE MoreInv'
    <2>1. fetch' = [fetch EXCEPT ![l] = Unasked] /\ (~mixed' => (fetch[l].cursor # Never /\ ~mixed) \/ (fetch[l].cursor = Never /\ ~MoreUnderWay({l})))
      BY <1>7 DEF LoadFeed
    <2>2. fetch'[l].cursor = Never /\ \A k \in Fetches \ {l} : fetch'[k] = fetch[k]
      BY <1>0, <2>1, UnaskedIs
    <2>3. ASSUME ~mixed', NEW k \in Fetches \ {l} PROVE fetch[k].cursor = Never
      BY <1>0, <2>1, <2>3 DEF MoreInv, MoreUnderWay
    <2> QED BY <2>2, <2>3 DEF MoreInv
  <1>8. ASSUME NEW l \in Fetches, LoadFeedFails(l) PROVE MoreInv'
    <2>1. UNCHANGED <<mixed, pageShown>> /\ fetch' = [fetch EXCEPT ![l] = Unasked]
      BY <1>8 DEF LoadFeedFails
    <2> QED BY <1>b, <1>c, <2>1, UnaskedIs DEF pageShown
  <1>9. ASSUME NEW l \in Fetches, Refresh(l) PROVE MoreInv'
    <2>1. CASE fetch' = [fetch EXCEPT ![l] = Asking] /\ UNCHANGED mixed
      <3>1. UNCHANGED pageShown
        BY <1>9 DEF Refresh
      <3> QED BY <1>b, <1>c, <2>1, <3>1, UnaskedIs DEF pageShown
    <2>2. CASE hasMore /\ fetch' = [fetch EXCEPT ![l] = [Asking EXCEPT !.cursor = nextCursor]] /\ mixed' = (mixed \/ MoreUnderWay({l}))
      <3>1. fetch'[l].cursor = nextCursor /\ \A k \in Fetches \ {l} : fetch'[k] = fetch[k]
        BY <1>0, <2>2, FurtherIs DEF BroadcastTypes
      <3>2. UNCHANGED <<hasMore, nextCursor>>
        BY <1>9 DEF Refresh, pageShown
      <3>3. ASSUME ~mixed', NEW k \in Fetches \ {l} PROVE fetch'[k].cursor = Never
        BY <2>2, <3>1, <3>3 DEF MoreUnderWay
      <3> QED BY <2>2, <3>1, <3>2, <3>3 DEF MoreInv
    <2> QED BY <1>9, <2>1, <2>2 DEF Refresh
  <1> QED BY <1>1, <1>2, <1>3, <1>4, <1>5, <1>6, <1>7, <1>8, <1>9 DEF BroadcastNext

LEMMA BroadcastStep == BroadcastIInv /\ [BroadcastNext]_broadcastVars => BroadcastIInv'
  <1> SUFFICES ASSUME BroadcastIInv, [BroadcastNext]_broadcastVars PROVE BroadcastIInv'
    OBVIOUS
  <1>1. CASE BroadcastNext
    <2>1. BroadcastTypes /\ DatesInv /\ LogInv /\ HeldInv
      BY DEF BroadcastIInv
    <2> QED BY <1>1, <2>1, BroadcastTypeStep, DatesStep, LogStep, HeldStep, FeedStep, AnswersStep, MoreStep DEF BroadcastIInv
  <1>2. CASE UNCHANGED broadcastVars
    <2>0. UNCHANGED <<channelLog, stored, publication, clock, lost, subscribed, feed, hasMore, nextCursor, isLoading, fetch,
                      isSubscribing, isPublishing, mixed>>
      BY <1>2 DEF broadcastVars
    <2>1. BroadcastTypes' /\ DatesInv' /\ LogInv'
      <3>1. BroadcastTypes /\ DatesInv /\ LogInv
        BY DEF BroadcastIInv
      <3>2. BroadcastTypes'
        BY <2>0, <3>1 DEF BroadcastTypes
      <3>3. DatesInv'
        BY <2>0, <3>1 DEF DatesInv, HasRow, Waits, Date
      <3>4. LogInv'
        BY <2>0, <3>1 DEF LogInv, IsAt, Waits
      <3> QED BY <3>2, <3>3, <3>4
    <2>2. HeldInv'
      BY <1>2 DEF broadcastVars, BroadcastIInv, HeldInv, RowsHeld, IsCursor, HasRow
    <2>3. FeedWhole' /\ AnswersInv' /\ MoreInv'
      BY <1>2 DEF broadcastVars, BroadcastIInv, FeedWhole, AnswersInv, MoreInv, Page, Between, Falling, Listed, Behind, Later, Visible, Has
    <2> QED BY <2>1, <2>2, <2>3 DEF BroadcastIInv
  <1> QED BY <1>1, <1>2

--------------------------------------------------------------------------------
(* What the pages show (MCConversations) *)

\* In the run: of broadcasts, the pages shown are whole and the rows name their place; the
\* messages of a chat page are opened with the right key; and who is typing is heard to
\* stop, unless a stop was missed (see the three modules).
THEOREM ScreensInvHolds == AllSpec => []ScreensInv
  <1>1. AllInit => BroadcastIInv /\ KeyIInv /\ TypingIInv
    BY BroadcastInitial, KeyInitial, TypingInitial DEF AllInit
  <1>2. BroadcastIInv /\ KeyIInv /\ TypingIInv /\ [AllNext]_allVars => (BroadcastIInv /\ KeyIInv /\ TypingIInv)'
    <2>1. [AllNext]_allVars => [BroadcastNext]_broadcastVars /\ [KeyNext]_keyVars /\ [TypingNext]_typingVars
      BY DEF AllNext, allVars
    <2> QED BY <2>1, BroadcastStep, KeyStep, TypingStep
  <1>3. BroadcastIInv /\ KeyIInv /\ TypingIInv => ScreensInv
    BY BroadcastIs, KeyIs, TypingIs DEF ScreensInv
  <1> QED BY <1>1, <1>2, <1>3, PTL DEF AllSpec

================================================================================
