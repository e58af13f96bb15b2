---- MODULE ChatPresence ----
(***************************************************************************)
(* ChatGateway and ChatRedisService for one conversation: the sockets of   *)
(* its members, the room, and what Redis keeps of presence, typing and     *)
(* read receipts, one entry per account whatever its number of sockets.    *)
(* Handlers of one socket run side by side.  The three hashes never meet   *)
(* but in leave_conversation: a behaviour looks at one of them (`hash`).   *)
(* The keys of presence and of the receipts live for a day and for a week  *)
(* after they were last set, longer than the behaviours looked at.         *)
(***************************************************************************)
EXTENDS Naturals, FiniteSets

CONSTANTS
    Members,      \* accounts
    Windows,     \* browser windows of each
    Events,      \* events that sockets send
    MaxSeq,      \* messages of the conversation
    Offline,     \* no socket
    RedisFails   \* may a call to Redis fail, and the process restart?

ASSUME MaxSeqAssumption == MaxSeq \in Nat
ASSUME OfflineAssumption == Offline \notin Members \X Windows
ASSUME RedisFailsAssumption == RedisFails \in BOOLEAN

Sockets == Members \X Windows

VARIABLES
    hash,       \* which hash is looked at
    member,     \* accounts that the database has as members
    online,     \* sockets that are connected
    room,       \* sockets in the room conv:<topic>
    tracked,    \* socketRooms: sockets whose entry has the topic
    closing,    \* handleDisconnect of a socket: where it is
    event,      \* the events under way
    stage,      \* the await each has reached
    presence,   \* chat:presence: the socket that each account has there
    typing,     \* chat:typing: accounts; the key lives on while anybody types
    receipt,    \* chat:read: account -> sequence
    told,       \* the last presence that the room heard of each account
    reads,      \* the last receipt that each socket sent
    muddled,    \* accounts with two sockets, or two handlers, at once, or a failure (history)
    overtaken   \* accounts with receipts of two sockets or two events, or with an entry
                \* stored between the look and the deletion of a closing socket (history)

pvars == <<hash, member, online, room, tracked, closing, event, stage, presence, typing, receipt, told, reads, muddled, overtaken>>

Who(s)  == s[1]
NoEvent == [kind |-> "join", from |-> Offline, seq |-> 0]
Kinds_  == {"join", "leave", "type", "stop", "read"}
Stages  == {"check", "enter", "store", "tell", "hdel", "clear", "untell"}

ChatTypeOK ==
    /\ hash \in {"presence", "typing", "receipts"} /\ member \subseteq Members
    /\ online \subseteq Sockets /\ room \subseteq Sockets /\ tracked \subseteq Sockets
    /\ closing \in [Sockets -> {"no", "get", "del", "tell"}]
    /\ event \in [Events -> [kind : Kinds_, from : Sockets \cup {Offline}, seq : 0 .. MaxSeq]]
    /\ stage \in [Events -> Stages \cup {"none", "done"}]
    /\ presence \in [Members -> Sockets \cup {Offline}]
    /\ typing \subseteq Members
    /\ receipt \in [Members -> 0 .. MaxSeq] /\ told \in [Members -> {"nothing", "online", "offline"}]
    /\ reads \in [Sockets -> 0 .. MaxSeq] /\ muddled \subseteq Members /\ overtaken \subseteq Members

ChatInit ==
    /\ hash \in {"presence", "typing", "receipts"} /\ member = Members
    /\ online = {} /\ room = {} /\ tracked = {}
    /\ closing = [s \in Sockets |-> "no"]
    /\ event = [e \in Events |-> NoEvent] /\ stage = [e \in Events |-> "none"]
    /\ presence = [a \in Members |-> Offline] /\ typing = {}
    /\ receipt = [a \in Members |-> 0] /\ told = [a \in Members |-> "nothing"]
    /\ reads = [s \in Sockets |-> 0] /\ muddled = {} /\ overtaken = {}

--------------------------------------------------------------------------------

Under(a)    == {e \in Events : stage[e] \in Stages /\ Who(event[e].from) = a}
OnStage(e, s) ==
    /\ stage' = [stage EXCEPT ![e] = s]
    /\ event' = IF s = "done" THEN [event EXCEPT ![e] = NoEvent] ELSE event
Net         == <<hash, member, online>>
Memory      == <<room, tracked, closing>>
Keys        == <<presence, typing, receipt>>
Notes       == <<reads, overtaken>>

\* handleConnection.
Connect(s) ==
    /\ s \notin online /\ closing[s] = "no"
    /\ online' = online \cup {s}
    /\ muddled' = IF \E t \in online : Who(t) = Who(s) THEN muddled \cup {Who(s)} ELSE muddled
    /\ UNCHANGED <<hash, member, Memory, event, stage, Keys, told, Notes>>

FirstStage(kind) == CASE kind = "join" -> "check" [] kind = "leave" -> "enter" [] OTHER -> "store"

\* The event arrives; the guard verifies a token that the socket keeps for ever.
SendEvent(e, s, kind, seq) ==
    /\ stage[e] = "none" /\ s \in online
    /\ kind \in CASE hash = "presence" -> {"join", "leave"} [] hash = "typing" -> {"type", "stop", "leave"}
                  [] OTHER -> {"read"}
    /\ kind = "read" => seq >= reads[s]
    /\ event' = [event EXCEPT ![e] = [kind |-> kind, from |-> s, seq |-> seq]]
    /\ stage' = [stage EXCEPT ![e] = FirstStage(kind)]
    /\ muddled' = IF Under(Who(s)) = {} /\ \A t \in Sockets : Who(t) = Who(s) => closing[t] = "no"
                  THEN muddled ELSE muddled \cup {Who(s)}
    /\ reads' = IF kind = "read" THEN [reads EXCEPT ![s] = seq] ELSE reads
    /\ overtaken' = IF kind = "read" /\ (Under(Who(s)) # {} \/ \E t \in Sockets \ {s} : Who(t) = Who(s) /\ reads[t] # 0)
                 THEN overtaken \cup {Who(s)} ELSE overtaken
    /\ UNCHANGED <<Net, Memory, Keys, told>>

(* join_conversation *)

CheckMember(e) ==
    /\ stage[e] = "check"
    /\ OnStage(e, IF Who(event[e].from) \in member THEN "enter" ELSE "done")
    /\ UNCHANGED <<Net, Memory, Keys, told, Notes, muddled>>

\* client.join and rooms.add, if the socket still has its entry; or client.leave and
\* rooms.delete.  A socket that is gone has left all rooms.
EnterOrLeave(e) ==
    LET s == event[e].from join == event[e].kind = "join" IN
    /\ stage[e] = "enter"
    /\ room' = IF join THEN room \cup ({s} \cap online) ELSE room \ {s}
    /\ tracked' = IF join THEN tracked \cup ({s} \cap online) ELSE tracked \ {s}
    /\ OnStage(e, IF join THEN "store" ELSE "hdel")
    /\ UNCHANGED <<Net, closing, Keys, told, Notes, muddled>>

\* setPresence, setTyping and clearTyping, setReadReceipt: one hset or hdel of the account.
StoreEntry(e) ==
    LET s == event[e].from IN
    /\ stage[e] = "store"
    /\ presence' = IF event[e].kind = "join" THEN [presence EXCEPT ![Who(s)] = s] ELSE presence
    /\ typing' = CASE event[e].kind = "type" -> typing \cup {Who(s)}
                   [] event[e].kind = "stop" -> typing \ {Who(s)}
                   [] OTHER -> typing
    /\ receipt' = IF event[e].kind = "read" THEN [receipt EXCEPT ![Who(s)] = event[e].seq] ELSE receipt
    /\ overtaken' = IF event[e].kind = "join" /\ \E w \in Windows : closing[<<Who(s), w>>] = "del"
                    THEN overtaken \cup {Who(s)} ELSE overtaken
    /\ OnStage(e, IF event[e].kind = "join" THEN "tell" ELSE "done")
    /\ UNCHANGED <<Net, Memory, told, reads, muddled>>

TellOnline(e) ==
    /\ stage[e] = "tell"
    /\ told' = [told EXCEPT ![Who(event[e].from)] = "online"]
    /\ OnStage(e, "done")
    /\ UNCHANGED <<Net, Memory, Keys, Notes, muddled>>

(* leave_conversation: hdel whatever socket the entry names *)

RemovePresence(e) ==
    /\ stage[e] = "hdel"
    /\ presence' = [presence EXCEPT ![Who(event[e].from)] = Offline]
    /\ OnStage(e, "clear")
    /\ UNCHANGED <<Net, Memory, typing, receipt, told, Notes, muddled>>

ClearTyping(e) ==
    /\ stage[e] = "clear"
    /\ typing' = typing \ {Who(event[e].from)}
    /\ OnStage(e, "untell")
    /\ UNCHANGED <<Net, Memory, presence, receipt, told, Notes, muddled>>

TellLeft(e) ==
    /\ stage[e] = "untell"
    /\ told' = [told EXCEPT ![Who(event[e].from)] = "offline"]
    /\ OnStage(e, "done")
    /\ UNCHANGED <<Net, Memory, Keys, Notes, muddled>>

\* A call to Redis throws, and the handler logs it.
EventFails(e) ==
    /\ RedisFails /\ stage[e] \in {"check", "store", "hdel", "clear"}
    /\ OnStage(e, "done")
    /\ muddled' = muddled \cup {Who(event[e].from)}
    /\ UNCHANGED <<Net, Memory, Keys, told, Notes>>

(* handleDisconnect *)

Disconnect(s) ==
    /\ s \in online
    /\ online' = online \ {s} /\ room' = room \ {s}
    /\ closing' = IF s \in tracked THEN [closing EXCEPT ![s] = "get"] ELSE closing
    /\ muddled' = IF Under(Who(s)) = {} THEN muddled ELSE muddled \cup {Who(s)}
    /\ UNCHANGED <<hash, member, tracked, event, stage, Keys, told, Notes>>

\* A slip: the entry is deleted without a look at its socket.
GetAnyEntry(s) ==
    /\ closing[s] = "get"
    /\ closing' = [closing EXCEPT ![s] = IF presence[Who(s)] # Offline THEN "del" ELSE "no"]
    /\ tracked' = IF presence[Who(s)] # Offline THEN tracked ELSE tracked \ {s}
    /\ UNCHANGED <<Net, room, event, stage, Keys, told, Notes, muddled>>

\* hget: an entry of another socket stays.
GetEntry(s) ==
    /\ closing[s] = "get"
    /\ closing' = [closing EXCEPT ![s] = IF presence[Who(s)] = s THEN "del" ELSE "no"]
    /\ tracked' = IF presence[Who(s)] = s THEN tracked ELSE tracked \ {s}
    /\ UNCHANGED <<Net, room, event, stage, Keys, told, Notes, muddled>>

DeleteEntry(s) ==
    /\ closing[s] = "del"
    /\ presence' = [presence EXCEPT ![Who(s)] = Offline]
    /\ closing' = [closing EXCEPT ![s] = "tell"]
    /\ UNCHANGED <<Net, room, tracked, event, stage, typing, receipt, told, Notes, muddled>>

TellOffline(s) ==
    /\ closing[s] = "tell"
    /\ told' = [told EXCEPT ![Who(s)] = "offline"]
    /\ closing' = [closing EXCEPT ![s] = "no"]
    /\ tracked' = tracked \ {s}
    /\ UNCHANGED <<Net, room, event, stage, Keys, Notes, muddled>>

CloseFails(s) ==
    /\ RedisFails /\ closing[s] \in {"get", "del"}
    /\ closing' = [closing EXCEPT ![s] = "no"]
    /\ tracked' = tracked \ {s}
    /\ muddled' = muddled \cup {Who(s)}
    /\ UNCHANGED <<Net, room, event, stage, Keys, told, Notes>>

\* The process dies: no socket is cleaned up after.
RestartGateway ==
    /\ RedisFails /\ online # {}
    /\ muddled' = muddled \cup {a \in Members : \E w \in Windows : <<a, w>> \in online \/ closing[<<a, w>>] # "no"}
                          \cup {a \in Members : Under(a) # {}}
    /\ online' = {} /\ room' = {} /\ tracked' = {}
    /\ closing' = [s \in Sockets |-> "no"]
    /\ stage' = [e \in Events |-> IF stage[e] \in Stages THEN "done" ELSE stage[e]]
    /\ event' = [e \in Events |-> NoEvent]
    /\ UNCHANGED <<hash, member, Keys, told, Notes>>

\* The key of the indicators expires, five seconds after the last one was set.
TypingExpires ==
    /\ typing # {} /\ typing' = {}
    /\ UNCHANGED <<Net, Memory, event, stage, presence, receipt, told, Notes, muddled>>

\* leftAt is set (ConversationMembership); the gateway is not told.
LoseMember(a) ==
    /\ hash = "presence" /\ a \in member
    /\ member' = member \ {a}
    /\ UNCHANGED <<hash, online, Memory, event, stage, Keys, told, Notes, muddled>>

ChatNext ==
    \/ \E s \in Sockets :
          \/ Connect(s) \/ Disconnect(s) \/ GetEntry(s) \/ DeleteEntry(s) \/ TellOffline(s) \/ CloseFails(s)
          \/ \E e \in Events : \/ \E kind \in Kinds_ \ {"read"} : SendEvent(e, s, kind, 0)
                               \/ \E n \in 1 .. MaxSeq : SendEvent(e, s, "read", n)
    \/ \E e \in Events :
          \/ CheckMember(e) \/ EnterOrLeave(e) \/ StoreEntry(e) \/ TellOnline(e)
          \/ RemovePresence(e) \/ ClearTyping(e) \/ TellLeft(e) \/ EventFails(e)
    \/ RestartGateway \/ TypingExpires \/ \E a \in Members : LoseMember(a)

ChatSpec == ChatInit /\ [][ChatNext]_pvars

--------------------------------------------------------------------------------

Settled(a) == Under(a) = {} /\ \A w \in Windows : closing[<<a, w>>] = "no"

\* Who is shown as present is in the room with the socket that the entry names, who is in
\* the room is shown, and the room last heard so: unless the account had two windows or two
\* handlers at once, or Redis failed.
PresenceIsRoom ==
    \A a \in Members \ muddled :
        Settled(a) => /\ \A w \in Windows : presence[a] = <<a, w>> <=> <<a, w>> \in room
                      /\ told[a] = "online" <=> presence[a] # Offline

\* Closing one of several windows leaves the entry of another one alone, however many there
\* are, unless that entry was stored during the clean-up; and leave_conversation removes an
\* entry whatever socket it names.
EntryTakenByItsOwner ==
    [][\A a \in Members : presence[a] # Offline /\ presence'[a] = Offline
          => \/ closing[presence[a]] = "del"
             \/ \E e \in Events : event[e].kind = "leave" /\ stage[e] = "hdel" /\ stage'[e] = "clear"
             \/ a \in overtaken]_pvars

\* When the room hears that an account has left, the account is not typing any more; unless
\* another window or handler of it types meanwhile, or Redis failed.
LeftIsSilent ==
    [][\A e \in Events : stage[e] = "untell" /\ stage'[e] = "done"
          => Who(event[e].from) \notin typing \ muddled]_pvars

\* A read receipt goes back only when two sockets of the account, or two events of one,
\* send theirs.
ReceiptBackOnlyByOther ==
    [][\A a \in Members \ overtaken' : receipt'[a] >= receipt[a]]_pvars

\* What Redis says of the room, and who takes it back.
ChatSafety == /\ [](ChatTypeOK /\ PresenceIsRoom)
              /\ EntryTakenByItsOwner /\ LeftIsSilent /\ ReceiptBackOnlyByOther

\* Not kept by the code (README.md, section 3): who is no longer a member hears nothing of
\* the conversation.  A removal tells the gateway nothing, and the socket stays in the room.
RemovedMemberIsOut == \A s \in room : Who(s) \in member

\* Not kept by the code (README.md, section 3): "client disconnection.  Cleans
\* up presence": who is shown as present has a socket.
PresentHasSocket == \A a \in Members : Settled(a) => presence[a] \in online \cup {Offline}

================================================================================
