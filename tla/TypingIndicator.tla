---- MODULE TypingIndicator ----
(***************************************************************************)
(* "... is typing": the input box of one member with its debounced stop,   *)
(* the handlers of the gateway, which await Redis before they tell the     *)
(* room, and the store of another member's client.  Redis answers the      *)
(* commands of its one connection in their order, but a start takes two of *)
(* them and a stop one.                                                    *)
(***************************************************************************)
EXTENDS Naturals, Sequences

CONSTANTS
    Rooms,         \* conversations of the two members
    MaxEvents,     \* bound on the events on their way to the server, and on the commands at Redis
    NoRoom         \* no chat page is open

ASSUME MaxEventsAssumption == MaxEvents \in Nat

VARIABLES
    typist,     \* the typist's page: its room, isTypingRef, and the timer of stopTyping
    oldTimers,  \* rooms whose stopTyping outlives the page that armed it
    wire,       \* typing events of the typist's socket, in their order
    commands,   \* what Redis has been asked, in its order
    redisTyping,\* rooms whose typing key has the typist
    readerRoom, \* the page of the other member
    heardIn,    \* typingUsers of its store has the typist: the room of the event, or NoRoom
    stopMissed  \* the stop of what is shown was lost, missed or came too early (history)

typingVars == <<typist, oldTimers, wire, commands, redisTyping, readerRoom, heardIn, stopMissed>>

Visits   == Rooms \cup {NoRoom}
NoTypist == [room |-> NoRoom, ref |-> FALSE, timer |-> FALSE]

TypingTypeOK ==
    /\ typist \in [room : Visits, ref : BOOLEAN, timer : BOOLEAN]
    /\ oldTimers \subseteq Rooms
    /\ wire \in Seq([room : Rooms, isTyping : BOOLEAN])
    /\ commands \in Seq([room : Rooms, name : {"hset", "expire", "hdel"}])
    /\ redisTyping \subseteq Rooms /\ readerRoom \in Visits /\ heardIn \in Visits
    /\ stopMissed \in BOOLEAN

TypingInit ==
    /\ typist = NoTypist /\ oldTimers = {} /\ wire = << >> /\ commands = << >>
    /\ redisTyping = {} /\ readerRoom = NoRoom /\ heardIn = NoRoom /\ stopMissed = FALSE

--------------------------------------------------------------------------------
(* The typist's page *)

Emit(r, isTyping) ==
    /\ Len(wire) < MaxEvents
    /\ wire' = Append(wire, [room |-> r, isTyping |-> isTyping])

\* The page of another room is opened: a page that is left leaves its timer.
OpenRoom(r) ==
    /\ r # typist.room
    /\ oldTimers' = IF typist.timer THEN oldTimers \cup {typist.room} ELSE oldTimers
    /\ typist' = [NoTypist EXCEPT !.room = r]
    /\ UNCHANGED <<wire, commands, redisTyping, readerRoom, heardIn, stopMissed>>

\* handleTyping of ChatInput: one start, and the stop put off.
Keystroke ==
    /\ typist.room # NoRoom
    /\ typist' = [typist EXCEPT !.ref = TRUE, !.timer = TRUE]
    /\ IF typist.ref THEN UNCHANGED wire ELSE Emit(typist.room, TRUE)
    /\ UNCHANGED <<oldTimers, commands, redisTyping, readerRoom, heardIn, stopMissed>>

\* The debounced stop.
StopTyping ==
    /\ typist.timer
    /\ typist' = [typist EXCEPT !.ref = FALSE, !.timer = FALSE]
    /\ Emit(typist.room, FALSE)
    /\ UNCHANGED <<oldTimers, commands, redisTyping, readerRoom, heardIn, stopMissed>>

\* The same of a page that was left.
StopTypingLate(r) ==
    /\ r \in oldTimers
    /\ oldTimers' = oldTimers \ {r}
    /\ Emit(r, FALSE)
    /\ UNCHANGED <<typist, commands, redisTyping, readerRoom, heardIn, stopMissed>>

\* handleSend.
HandleSend ==
    /\ typist.room # NoRoom
    /\ typist' = [typist EXCEPT !.ref = FALSE, !.timer = FALSE]
    /\ IF typist.ref THEN Emit(typist.room, FALSE) ELSE UNCHANGED wire
    /\ UNCHANGED <<oldTimers, commands, redisTyping, readerRoom, heardIn, stopMissed>>

\* The browser is closed: handleDisconnect tells nobody that the typist has stopped.
CloseBrowser ==
    /\ typist.room # NoRoom
    /\ typist' = NoTypist /\ oldTimers' = {} /\ wire' = << >>
    /\ stopMissed' = TRUE
    /\ UNCHANGED <<commands, redisTyping, readerRoom, heardIn>>

--------------------------------------------------------------------------------
(* The gateway *)

\* handleTyping, until it awaits setTyping or clearTyping.
HandleTyping ==
    /\ wire # << >> /\ Len(commands) < MaxEvents
    /\ wire' = Tail(wire)
    /\ commands' = Append(commands, [room |-> Head(wire).room, name |-> IF Head(wire).isTyping THEN "hset" ELSE "hdel"])
    /\ UNCHANGED <<typist, oldTimers, redisTyping, readerRoom, heardIn, stopMissed>>

\* addTypingUser or removeTypingUser: the page does not look whose room it was.
Hear(r, isTyping) == heardIn' = IF isTyping THEN r ELSE NoRoom

\* server_typing to those who are in the room.
TellRoom(r, isTyping) ==
    LET early == \E i \in DOMAIN commands : commands[i] = [room |-> r, name |-> "expire"]
        later == \E i \in DOMAIN commands : commands[i].name # "hdel" IN
    IF readerRoom = r
    THEN /\ Hear(r, isTyping)
         /\ stopMissed' = IF isTyping THEN stopMissed ELSE early \/ (stopMissed /\ later)
    ELSE UNCHANGED heardIn /\ stopMissed' = (stopMissed \/ (~isTyping /\ (heardIn = r \/ early)))

\* setTyping awaits a second command: what was asked meanwhile is answered before it.
SetTyping ==
    LET c == Head(commands) IN
    /\ commands # << >> /\ c.name = "hset"
    /\ redisTyping' = redisTyping \cup {c.room}
    /\ commands' = Append(Tail(commands), [c EXCEPT !.name = "expire"])
    /\ UNCHANGED <<typist, oldTimers, wire, readerRoom, heardIn, stopMissed>>

TellStart ==
    LET c == Head(commands) IN
    /\ commands # << >> /\ c.name = "expire"
    /\ commands' = Tail(commands)
    /\ TellRoom(c.room, TRUE)
    /\ UNCHANGED <<typist, oldTimers, wire, redisTyping, readerRoom>>

TellStop ==
    LET c == Head(commands) IN
    /\ commands # << >> /\ c.name = "hdel"
    /\ redisTyping' = redisTyping \ {c.room}
    /\ commands' = Tail(commands)
    /\ TellRoom(c.room, FALSE)
    /\ UNCHANGED <<typist, oldTimers, wire, readerRoom>>

\* Redis fails: the room is not told.
CommandFails ==
    /\ commands # << >>
    /\ commands' = Tail(commands)
    /\ stopMissed' = (stopMissed \/ Head(commands).name = "hdel")
    /\ UNCHANGED <<typist, oldTimers, wire, redisTyping, readerRoom, heardIn>>

\* The key expires, as nothing renews it while the member goes on typing.
TypingExpires(r) ==
    /\ r \in redisTyping
    /\ redisTyping' = redisTyping \ {r}
    /\ UNCHANGED <<typist, oldTimers, wire, commands, readerRoom, heardIn, stopMissed>>

--------------------------------------------------------------------------------
\* The reader's page joins another room; its store is kept.
ReaderOpens(r) ==
    /\ r # readerRoom
    /\ readerRoom' = r
    /\ UNCHANGED <<typist, oldTimers, wire, commands, redisTyping, heardIn, stopMissed>>

TypingNext ==
    \/ Keystroke \/ StopTyping \/ HandleSend \/ CloseBrowser
    \/ HandleTyping \/ SetTyping \/ TellStart \/ TellStop \/ CommandFails
    \/ \E r \in Rooms : StopTypingLate(r) \/ TypingExpires(r)
    \/ \E r \in Visits : OpenRoom(r) \/ ReaderOpens(r)

TypingSpec == TypingInit /\ [][TypingNext]_typingVars

--------------------------------------------------------------------------------
Armed(r)     == r \in oldTimers \/ (typist.timer /\ typist.room = r)
Under(r)     == (\E i \in DOMAIN wire : wire[i] = [room |-> r, isTyping |-> FALSE])
                \/ \E i \in DOMAIN commands : commands[i] = [room |-> r, name |-> "hdel"]

\* Whoever is shown as typing has a stop under way, also when the page was left or the
\* text was sent, unless the stop was lost or missed, or overtook the start at Redis.
StopIsComing == heardIn # NoRoom /\ ~stopMissed => Armed(heardIn) \/ Under(heardIn)

TypingInv == TypingTypeOK /\ StopIsComing

\* Not kept by the code (README.md, section 3): "Typing indicators ... backed by Redis TTL
\* for automatic cleanup": the client of a reader has no timer of its own.
TypingIsTrue == heardIn # NoRoom => Armed(heardIn) \/ Under(heardIn)

\* Not kept by the code (README.md, section 3): the indicator is of the room that is open.
TypingIsOfRoom == heardIn \in {NoRoom, readerRoom}

================================================================================
