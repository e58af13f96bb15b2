---- MODULE ConversationMembership ----
(***************************************************************************)
(* The members and the stored keys of one group conversation:              *)
(* ConversationsService.addParticipant, removeParticipant and              *)
(* leaveConversation, which all end by rotating the key, next to           *)
(* MessagingService.sendMessage and syncFromMirrorNode, which save the same*)
(* row of `conversations` as they loaded it.                               *)
(***************************************************************************)
EXTENDS Naturals, FiniteSets

CONSTANTS
    Accounts,      \* Hedera accounts
    Founders,      \* the participants createConversation was called with
    Creator,       \* the initiator, who is the admin
    Calls,         \* executions of handlers
    Founding,      \* the key of createConversation
    Nobody,
    Faults         \* may a submission fail, and the process die?

ASSUME FoundersAssumption == Creator \in Founders /\ Founders \subseteq Accounts
ASSUME AccountsAssumption == IsFiniteSet(Accounts)
ASSUME NullAssumption == Nobody \notin Accounts /\ Founding \notin Calls
ASSUME FaultsAssumption == Faults \in BOOLEAN

VARIABLES
    member,      \* conversation_members: role, leftAt, joinedAt (as a rank)
    conv,        \* conversations: currentKeyId and encryptedKeysJson
    onTopic,     \* the key exchanges that reached the HCS topic
    call,        \* operation and snapshots of each handler
    pc,          \* the await each handler has reached
    disturbed,   \* handlers that overlapped with another one (history)
    failed       \* handlers whose rotation failed or that died (history)

vars == <<member, conv, onTopic, call, pc, disturbed, failed>>

Keys     == Calls \cup {Founding}      \* a handler makes at most one key
Exchange == [key : Keys, for : SUBSET Accounts]
Stranger == [role |-> "none", active |-> FALSE, since |-> 0]
Member   == [role : {"none", "admin", "member"}, active : BOOLEAN, since : Nat]
Ops      == {"add", "remove", "leave", "send", "sync"}
Awaits   == {"check", "admins", "oldest", "promote", "member", "list", "submit", "save"}
NoCall   == [op |-> "sync", by |-> Nobody, target |-> Nobody, next |-> Nobody,
             snap |-> [key |-> Founding, for |-> {}], row |-> Stranger, for |-> {}]

TypeOK ==
    /\ member \in [Accounts -> Member]
    /\ conv \in Exchange
    /\ onTopic \subseteq Exchange
    /\ call \in [Calls -> [op : Ops, by : Accounts \cup {Nobody}, target : Accounts \cup {Nobody},
                           next : Accounts \cup {Nobody}, snap : Exchange, row : Member,
                           for : SUBSET Accounts]]
    /\ pc \in [Calls -> Awaits \cup {"idle", "done"}]
    /\ disturbed \subseteq Calls /\ failed \subseteq Calls

\* createConversation has submitted the key exchange and saved the rows.
Init ==
    /\ member = [a \in Accounts |->
                    IF a \in Founders
                    THEN [role |-> IF a = Creator THEN "admin" ELSE "member", active |-> TRUE, since |-> 0]
                    ELSE Stranger]
    /\ conv = [key |-> Founding, for |-> Founders]
    /\ onTopic = {conv}
    /\ call = [c \in Calls |-> NoCall]
    /\ pc = [c \in Calls |-> "idle"]
    /\ disturbed = {} /\ failed = {}

--------------------------------------------------------------------------------

Running    == {c \in Calls : pc[c] \in Awaits}
Active(m)  == {a \in Accounts : m[a].active}
Admins(m)  == {a \in Active(m) : m[a].role = "admin"}
Joined     == Cardinality({a \in Accounts \ Founders : member[a].role # "none"})

Goto(c, l) == pc' = [pc EXCEPT ![c] = l]

\* The end of a handler, after which nobody asks what it had read.
End(c) == Goto(c, "done") /\ call' = [call EXCEPT ![c] = NoCall]

\* The first await of every handler: the row of the conversation.
Load(c, op, by, target) ==
    /\ pc[c] = "idle"
    /\ call' = [call EXCEPT ![c] = [NoCall EXCEPT !.op = op, !.by = by, !.target = target, !.snap = conv]]
    /\ Goto(c, IF op = "sync" THEN "save" ELSE "check")
    /\ disturbed' = IF Running = {} THEN disturbed ELSE disturbed \cup Running \cup {c}
    /\ UNCHANGED <<member, conv, onTopic, failed>>

\* The checks; a refused call changes nothing.
MayAdd(k)    == k.by \in Admins(member) /\ k.target \notin Active(member)
MayRemove(k) == k.by \in Admins(member) /\ k.target \in Active(member)
MayLeave(k)  == k.by \in Active(member)
MaySend(k)   == k.by \in Active(member) /\ k.by \in k.snap.for

Allowed(c) ==
    LET k == call[c] IN
    CASE k.op = "add"    -> MayAdd(k)
      [] k.op = "remove" -> MayRemove(k)
      [] k.op = "leave"  -> MayLeave(k)
      [] k.op = "send"   -> MaySend(k)

\* What memberRepository.save will write: the row as it was read, changed.
Entering(c) ==
    LET m == member[call[c].target] IN
    [role |-> "member", active |-> TRUE, since |-> IF m.role = "none" THEN Joined + 1 ELSE m.since]

Going(c) == [member[IF call[c].op = "leave" THEN call[c].by ELSE call[c].target] EXCEPT !.active = FALSE]

Changed(c) == IF call[c].op = "add" THEN Entering(c) ELSE Going(c)

Check(c) ==
    /\ pc[c] = "check"
    /\ IF ~Allowed(c)
       THEN End(c)
       ELSE IF call[c].op = "send"
       THEN Goto(c, "save") /\ UNCHANGED call
       ELSE /\ call' = [call EXCEPT ![c].row = Changed(c)]
            /\ Goto(c, IF call[c].op = "leave" /\ call[c].by \in Admins(member) THEN "admins" ELSE "member")
    /\ UNCHANGED <<member, conv, onTopic, disturbed, failed>>

(* leaveConversation: another admin, or else the oldest member is promoted *)

\* A slip: a leaving admin never looks for a successor.
NeedsNoAdmin(c) ==
    /\ pc[c] = "admins"
    /\ Goto(c, "member")
    /\ UNCHANGED <<member, conv, onTopic, call, disturbed, failed>>

FindAdmins(c) ==
    /\ pc[c] = "admins"
    /\ Goto(c, IF Admins(member) \ {call[c].by} = {} THEN "oldest" ELSE "member")
    /\ UNCHANGED <<member, conv, onTopic, call, disturbed, failed>>

Oldest(S) == {a \in S : \A b \in S : member[a].since <= member[b].since}

FindOldest(c) ==
    LET others == Active(member) \ {call[c].by} IN
    /\ pc[c] = "oldest"
    /\ IF others = {}
       THEN Goto(c, "member") /\ UNCHANGED call
       ELSE /\ \E a \in Oldest(others) : call' = [call EXCEPT ![c].next = a]
            /\ Goto(c, "promote")
    /\ UNCHANGED <<member, conv, onTopic, disturbed, failed>>

\* The row that is saved was read as an active one, whatever it is by now.
Promote(c) ==
    LET a == call[c].next IN
    /\ pc[c] = "promote"
    /\ member' = [member EXCEPT ![a].role = "admin", ![a].active = TRUE]
    /\ Goto(c, "member")
    /\ UNCHANGED <<conv, onTopic, call, disturbed, failed>>

SaveMember(c) ==
    LET k == call[c] IN
    /\ pc[c] = "member"
    /\ member' = [member EXCEPT ![IF k.op = "leave" THEN k.by ELSE k.target] = k.row]
    /\ Goto(c, "list")
    /\ UNCHANGED <<conv, onTopic, call, disturbed, failed>>

(* rotateKeysForConversation, and the same lines in addParticipant *)

ListMembers(c) ==
    /\ pc[c] = "list"
    /\ IF Active(member) = {}
       THEN End(c)
       ELSE Goto(c, "submit") /\ call' = [call EXCEPT ![c].for = Active(member)]
    /\ UNCHANGED <<member, conv, onTopic, disturbed, failed>>

Rotated(c) == [key |-> c, for |-> call[c].for]

\* submitMessage; when it throws, the rotation is given up and only logged, though
\* the exchange may have reached the topic.
Submit(c) ==
    /\ pc[c] = "submit"
    /\ \/ /\ onTopic' = onTopic \cup {Rotated(c)}
          /\ Goto(c, "save")
          /\ UNCHANGED <<call, failed>>
       \/ /\ Faults
          /\ onTopic' \in {onTopic, onTopic \cup {Rotated(c)}}
          /\ End(c)
          /\ failed' = failed \cup {c}
    /\ UNCHANGED <<member, conv, disturbed>>

\* conversationRepository.save: the new key on the row as it was loaded, or, in
\* sendMessage and the sync job, only the row as it was loaded.
SaveConversation(c) ==
    /\ pc[c] = "save"
    /\ conv' = IF call[c].op \in {"send", "sync"} THEN call[c].snap ELSE Rotated(c)
    /\ End(c)
    /\ UNCHANGED <<member, onTopic, disturbed, failed>>

\* The process dies with every handler under way.
Crash ==
    /\ Faults /\ Running # {}
    /\ pc' = [c \in Calls |-> IF c \in Running THEN "done" ELSE pc[c]]
    /\ call' = [c \in Calls |-> IF c \in Running THEN NoCall ELSE call[c]]
    /\ failed' = failed \cup Running
    /\ UNCHANGED <<member, conv, onTopic, disturbed>>

Step(c) ==
    \/ Check(c) \/ FindAdmins(c) \/ FindOldest(c) \/ Promote(c) \/ SaveMember(c)
    \/ ListMembers(c) \/ Submit(c) \/ SaveConversation(c)

Next ==
    \/ \E c \in Calls, by, target \in Accounts : \E op \in {"add", "remove"} : Load(c, op, by, target)
    \/ \E c \in Calls, by \in Accounts : \E op \in {"leave", "send"} : Load(c, op, by, Nobody)
    \/ \E c \in Calls : Load(c, "sync", Nobody, Nobody)
    \/ \E c \in Calls : Step(c)
    \/ Crash

Spec == Init /\ [][Next]_vars

--------------------------------------------------------------------------------

\* "Rotate encryption keys for remaining members": when a change of the membership
\* that nothing overlapped with ends and its rotation worked, the stored keys are those
\* of the active members, whatever earlier races had left in the row.
RotationReachesMembers ==
    [][\A c \in Calls \ (disturbed \cup failed) :
          pc[c] = "save" /\ pc'[c] = "done" /\ c \notin failed' /\ call[c].op \in {"add", "remove", "leave"}
          => conv'.for = Active(member')]_vars

\* While handlers never overlap and no rotation fails, a stored key is for the active
\* members whenever nobody is changing them: a send or a run of the sync job in
\* between saves the row it loaded, and takes nobody's key away.
KeysOfMembers ==
    disturbed = {} /\ failed = {} /\ Running = {} /\ Active(member) # {} => conv.for = Active(member)

\* Whatever overlaps or fails, the stored key is one that the topic has, for the same
\* accounts: clients that read the topic and clients that read the API agree on it.
StoredKeyIsOnTopic == conv \in onTopic

\* A group that still has members loses its last admin only when an admin is removed
\* (removeParticipant does not ask who is left), or in a race with another handler.
AdminLostOnlyByRemoval ==
    [][Admins(member) # {} /\ Admins(member') = {} /\ Active(member') # {}
       => \E c \in Calls : /\ pc[c] = "member" /\ pc'[c] = "list"
                           /\ call[c].op = "remove" \/ c \in disturbed]_vars

\* Who has left comes back by addParticipant, or by the promotion of a member who
\* left while leaveConversation was looking at him.
ReturnsOnlyByAdd ==
    [][\A a \in Accounts :
          ~member[a].active /\ member'[a].active
          => \E c \in Calls : \/ pc[c] = "member" /\ call[c].op = "add" /\ call[c].target = a
                              \/ pc[c] = "promote" /\ call[c].next = a /\ c \in disturbed]_vars

\* Who is a member, and whom the keys are for.
MembershipSafety == /\ [](TypeOK /\ KeysOfMembers /\ StoredKeyIsOnTopic)
                    /\ RotationReachesMembers /\ AdminLostOnlyByRemoval /\ ReturnsOnlyByAdd

\* Not kept by the code (README.md, section 3):
\* "Prevent removing the last admin" (removeParticipant): a group with members has an admin.
GroupKeepsAdmin == Active(member) # {} => Admins(member) # {}

\* Not kept by the code (README.md, section 3):
\* "Rotate keys for remaining members": with overlapping handlers, the stored key may be
\* for somebody who left, or miss somebody who joined.
KeysOfMembersAlways == failed = {} /\ Running = {} /\ Active(member) # {} => conv.for = Active(member)

================================================================================
