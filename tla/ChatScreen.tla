---- MODULE ChatScreen ----
(***************************************************************************)
(* The chat page of one member: the messages that it gets from the query of*)
(* react-query, from the event of the socket (useConversation) and from its*)
(* own input box, and the store they meet in, which is one for all         *)
(* conversations and outlives the page.  The API answers with the rows of a*)
(* topic, of which one may wait for its number (its id is <topic>-0), but  *)
(* no more than a page of them, and the older ones are never asked for.  An*)
(* error takes the place of the list until the next success: that is left  *)
(* out.                                                                    *)
(***************************************************************************)
EXTENDS Naturals, Sequences, FiniteSets

CONSTANTS
    Chats,         \* topics of the conversations of the member
    EventReads,    \* fetches that an event of the socket has started
    MyTexts,       \* what the member may send, each once
    TheirTexts,    \* what the others may send
    PageLimit,     \* limit of getConversationMessages
    NoChat         \* no chat page is open

ASSUME TextsAssumption  == MyTexts \cap TheirTexts = {} /\ IsFiniteSet(MyTexts \cup TheirTexts)
ASSUME LimitAssumption  == PageLimit \in Nat \ {0}
ASSUME NoChatAssumption == NoChat \notin Chats \cup EventReads

VARIABLES
    indexed,     \* rows of hcs_messages with a number: the text at each number of a topic
    unnumbered,  \* rows of each topic that wait for a number
    written,     \* texts sent so far
    openChat,    \* topicId of the page
    messages,    \* the store: messages
    cached,      \* the answer that react-query keeps for each topic
    query,       \* the call of queryFn that is under way for each topic
    reading,     \* the fetches of useConversation that are under way
    sending,     \* the sends of the member that are under way
    receipt,     \* the last read receipt sent for each topic
    visit        \* history of this page: what was sent, seen and came late

screenVars == <<indexed, unnumbered, written, openChat, messages, cached, query, reading,
                sending, receipt, visit>>

TextsWritten == MyTexts \cup TheirTexts
MaxTexts     == Cardinality(TextsWritten)
Pages        == Chats \cup {NoChat}
Entry        == [own : BOOLEAN, number : 0 .. MaxTexts, topic : Chats, text : TextsWritten]
NotRead      == [at |-> "idle", rows |-> {}, overlapped |-> FALSE]
NotFetched   == [at |-> "idle", topic |-> NoChat, rows |-> {}, overlapped |-> FALSE]
NotSending   == [at |-> "no", topic |-> NoChat]
NotCached    == [known |-> FALSE, rows |-> {}]
NewVisit     == [sent |-> {}, seen |-> {}, atRisk |-> {}, loaded |-> FALSE, strayed |-> FALSE, overtaken |-> FALSE]

ScreenTypeOK ==
    /\ indexed \in [Chats -> Seq(TextsWritten)] /\ unnumbered \in [Chats -> SUBSET TextsWritten]
    /\ written \subseteq TextsWritten /\ openChat \in Pages /\ messages \subseteq Entry
    /\ \A t \in Chats :
        /\ cached[t].rows \subseteq Entry /\ query[t].rows \subseteq Entry
        /\ query[t].at \in {"idle", "asked", "answered"}
    /\ \A f \in EventReads : reading[f].at \in {"idle", "asked", "answered"} /\ reading[f].rows \subseteq Entry
    /\ sending \in [MyTexts -> [at : {"no", "asked", "saved"}, topic : Pages]]
    /\ receipt \in [Chats -> 0 .. MaxTexts]

\* Anything may be in the database when the browser is opened, but nothing is in its store.
ScreenInit ==
    /\ indexed = [t \in Chats |-> << >>] /\ unnumbered = [t \in Chats |-> {}] /\ written = {}
    /\ openChat = NoChat /\ messages = {}
    /\ cached = [t \in Chats |-> NotCached]
    /\ query = [t \in Chats |-> NotRead]
    /\ reading = [f \in EventReads |-> NotFetched]
    /\ sending = [n \in MyTexts |-> NotSending]
    /\ receipt = [t \in Chats |-> 0]
    /\ visit = NewVisit

--------------------------------------------------------------------------------
(* What the page shows *)

SameId(a, b) == a.topic = b.topic /\ a.number = b.number /\ a.own = b.own /\ (a.own => a.text = b.text)

\* displayMessages: those of the query and of the store, of one id that of the store.
Display ==
    IF openChat = NoChat THEN {}
    ELSE messages \cup {e \in cached[openChat].rows : \A m \in messages : ~SameId(e, m)}

Numbered(S) == {e \in S : e.number > 0}

\* The visit with what is shown in the next state.
Seeing(v) == [v EXCEPT !.seen = @ \cup {e \in Numbered(Display)' : e.topic = openChat'}]

--------------------------------------------------------------------------------
(* The API *)

\* Is number k of a topic among those of its newest page?
Recent(t, k) == k + PageLimit > Len(indexed[t])

\* getMessages without a cursor: the newest rows of a topic, of which the one without a
\* number comes last.
GetMessages(t) ==
    {[number |-> k, text |-> indexed[t][k]] : k \in {i \in DOMAIN indexed[t] : Recent(t, i)}} \cup
    {[number |-> 0, text |-> n] : n \in {m \in unnumbered[t] : Recent(t, 0)}}

\* getConversationMessages makes an id of topic and number.
GetConversationMessages(t) ==
    {[own |-> FALSE, number |-> r.number, topic |-> t, text |-> r.text] : r \in GetMessages(t)}

\* Somebody else sends a message.
OtherSends(n, t) ==
    /\ n \notin written /\ unnumbered[t] = {}
    /\ written' = written \cup {n}
    /\ unnumbered' = [unnumbered EXCEPT ![t] = @ \cup {n}]
    /\ UNCHANGED <<indexed, openChat, messages, cached, query, reading, sending, receipt, visit>>

Give(t, n) ==
    /\ n \in unnumbered[t]
    /\ unnumbered' = [unnumbered EXCEPT ![t] = @ \ {n}]
    /\ indexed' = [indexed EXCEPT ![t] = Append(@, n)]
    /\ UNCHANGED <<written, openChat, messages, cached, query, sending, receipt, visit>>

\* The sync job gives a row its number and nobody hears of it: the page is not open or its
\* socket is down.
Number(t, n) == Give(t, n) /\ UNCHANGED reading

\* handleMessagesSynced tells the room, and useConversation reads the messages again.
NumberAndTell(t, n, f) ==
    /\ openChat = t /\ reading[f] = NotFetched
    /\ Give(t, n)
    /\ reading' = [reading EXCEPT ![f] = [NotFetched EXCEPT !.at = "asked", !.topic = t]]

AnswerQuery(t) ==
    /\ query[t].at = "asked"
    /\ query' = [query EXCEPT ![t].at = "answered", ![t].rows = GetConversationMessages(t)]
    /\ UNCHANGED <<indexed, unnumbered, written, openChat, messages, cached, reading, sending, receipt, visit>>

AnswerRead(f) ==
    /\ reading[f].at = "asked"
    /\ reading' = [reading EXCEPT ![f].at = "answered", ![f].rows = GetConversationMessages(reading[f].topic)]
    /\ UNCHANGED <<indexed, unnumbered, written, openChat, messages, cached, query, sending, receipt, visit>>

--------------------------------------------------------------------------------
(* The query *)

\* Asking again for a topic: its own optimistic messages may be replaced.
StartQuery(t) ==
    query' = IF query[t].at = "idle" THEN [query EXCEPT ![t] = [NotRead EXCEPT !.at = "asked"]] ELSE query

\* The page of another conversation is opened; an answer of less than a minute ago is used,
\* and how long ago it was is left open.
OpenChat(t) ==
    /\ openChat # t
    /\ openChat' = t
    /\ \/ t # NoChat /\ StartQuery(t)
       \/ t = NoChat /\ UNCHANGED query
       \/ t # NoChat /\ cached[t].known /\ UNCHANGED query
    /\ UNCHANGED <<indexed, unnumbered, written, messages, cached, reading, sending, receipt>>
    /\ visit' = Seeing(NewVisit)

\* The network comes back: refetchOnReconnect is left on, and asks when the answer is old.
Reconnect ==
    /\ openChat # NoChat /\ query[openChat].at = "idle"
    /\ StartQuery(openChat)
    /\ visit' = [visit EXCEPT !.atRisk = @ \cup visit.sent]
    /\ UNCHANGED <<indexed, unnumbered, written, openChat, messages, cached, reading, sending, receipt>>

\* The other answers of the topic that were read before this one was taken.
OverlapQuery(t) == [query EXCEPT ![t].overlapped = @ \/ query[t].at = "answered"]
OverlapReads(t, f) ==
    [g \in EventReads |-> IF g # f /\ reading[g].at = "answered" /\ reading[g].topic = t
                          THEN [reading[g] EXCEPT !.overlapped = TRUE] ELSE reading[g]]

Highest(rows) == IF rows = {} THEN 0 ELSE CHOOSE k \in 0 .. MaxTexts :
                     (\E e \in rows : e.number = k) /\ \A e \in rows : e.number <= k

\* The visit once an answer for t has been taken.
Taken(t, overlapped) ==
    [visit EXCEPT !.strayed = @ \/ t # openChat, !.overtaken = @ \/ (overlapped /\ t = openChat)]

\* The rest of queryFn, also when its page has been left: the store is replaced, and a
\* receipt is sent for the last message.
TakeQuery(t) ==
    LET rows == query[t].rows IN
    /\ query[t].at = "answered"
    /\ messages' = rows
    /\ cached' = [cached EXCEPT ![t] = [known |-> TRUE, rows |-> rows]]
    /\ query' = [query EXCEPT ![t] = NotRead]
    /\ receipt' = IF rows = {} THEN receipt ELSE [receipt EXCEPT ![t] = Highest(rows)]
    /\ reading' = OverlapReads(t, NoChat)
    /\ UNCHANGED <<indexed, unnumbered, written, openChat, sending>>
    /\ visit' = Seeing([Taken(t, query[t].overlapped) EXCEPT !.loaded = @ \/ t = openChat])

\* Also the second try fails.
QueryFails(t) ==
    /\ query[t].at # "idle"
    /\ query' = [query EXCEPT ![t] = NotRead]
    /\ UNCHANGED <<indexed, unnumbered, written, openChat, messages, cached, reading, sending, receipt, visit>>

(* useConversation *)

Put(f, msgs) ==
    LET t == reading[f].topic IN
    /\ reading[f].at = "answered"
    /\ messages' = msgs
    /\ reading' = [OverlapReads(t, f) EXCEPT ![f] = NotFetched]
    /\ query' = OverlapQuery(t)
    /\ UNCHANGED <<indexed, unnumbered, written, openChat, cached, sending, receipt>>
    /\ visit' = Seeing(Taken(t, reading[f].overlapped))

\* A slip: the optimistic messages are not kept.
ReplaceAll(f) == Put(f, reading[f].rows)

\* The rows that were read and the optimistic messages, of whichever page they are.
TakeRead(f) == Put(f, reading[f].rows \cup {e \in messages : e.own})

ReadFails(f) ==
    /\ reading[f].at # "idle"
    /\ reading' = [reading EXCEPT ![f] = NotFetched]
    /\ UNCHANGED <<indexed, unnumbered, written, openChat, messages, cached, query, sending, receipt, visit>>

--------------------------------------------------------------------------------
(* Sending *)

\* handleSendMessage and onMutate; the input is disabled while a send of this page is
\* under way, but not while its messages are loaded.
SendText(n) ==
    /\ openChat # NoChat /\ n \notin written
    /\ \A k \in visit.sent : sending[k] = NotSending
    /\ written' = written \cup {n}
    /\ messages' = messages \cup {[own |-> TRUE, number |-> 0, topic |-> openChat, text |-> n]}
    /\ sending' = [sending EXCEPT ![n] = [at |-> "asked", topic |-> openChat]]
    /\ visit' = [visit EXCEPT !.sent = @ \cup {n},
                              !.atRisk = IF \E t \in Chats : query[t].at # "idle" THEN @ \cup {n} ELSE @]
    /\ UNCHANGED <<indexed, unnumbered, openChat, cached, query, reading, receipt>>

\* MessagingService.sendMessage saves the row; the index has room for one without a number.
ServerSaves(n) ==
    /\ sending[n].at = "asked" /\ unnumbered[sending[n].topic] = {}
    /\ sending' = [sending EXCEPT ![n].at = "saved"]
    /\ unnumbered' = [unnumbered EXCEPT ![sending[n].topic] = @ \cup {n}]
    /\ UNCHANGED <<indexed, written, openChat, messages, cached, query, reading, receipt, visit>>

\* onSuccess or onError: the input is enabled again, and the optimistic message stays.
Settle(n) ==
    /\ sending' = [sending EXCEPT ![n] = NotSending]
    /\ UNCHANGED <<indexed, unnumbered, written, openChat, messages, cached, query, reading, receipt, visit>>

SendSucceeds(n) == sending[n].at = "saved" /\ Settle(n)

\* The call fails or its answer is lost.
SendFails(n) == sending[n].at # "no" /\ Settle(n)

ScreenNext ==
    \/ Reconnect
    \/ \E t \in Pages : OpenChat(t)
    \/ \E t \in Chats : \/ AnswerQuery(t) \/ TakeQuery(t) \/ QueryFails(t)
                        \/ \E n \in TheirTexts : OtherSends(n, t)
                        \/ \E n \in TextsWritten : \/ Number(t, n)
                                                   \/ \E f \in EventReads : NumberAndTell(t, n, f)
    \/ \E f \in EventReads : AnswerRead(f) \/ TakeRead(f) \/ ReadFails(f)
    \/ \E n \in MyTexts : SendText(n) \/ ServerSaves(n) \/ SendSucceeds(n) \/ SendFails(n)

ScreenSpec == ScreenInit /\ [][ScreenNext]_screenVars

--------------------------------------------------------------------------------
\* What the member sends stays in the list, whatever arrives meanwhile: only the answer
\* of a query that was under way when it was sent, or was sent after a reconnection, or
\* of another page, takes it away ("would overwrite optimistic messages").
OwnIsShown ==
    visit.strayed \/ \A n \in visit.sent \ visit.atRisk : \E e \in Display : e.text = n

\* Once the query of this page is answered the list has messages of no other
\* conversation, unless a fetch that an earlier page started answers after that.
ListIsOfChat ==
    visit.loaded /\ ~visit.strayed => \A e \in Display : e.topic = openChat

\* A numbered message that was shown stays until a page of newer ones has come, unless the
\* answers of two fetches that overlapped were taken in an order of their own.
SeenStays ==
    ~visit.strayed /\ ~visit.overtaken =>
        \A e \in visit.seen : Recent(e.topic, e.number) => \E d \in Display : SameId(d, e)

\* A read receipt is only for what has a row, and the page has had the messages of the page
\* that ends with it.
ReceiptIsOfRead == \A t \in Chats :
    \A k \in 1 .. receipt[t] : k + PageLimit > receipt[t] => \E e \in cached[t].rows : e.number = k

ChatScreenInv == ScreenTypeOK /\ OwnIsShown /\ ListIsOfChat /\ SeenStays /\ ReceiptIsOfRead

\* Not kept by the code (README.md, section 3): the list is of the conversation that is open.
ListIsOfChatAlways == \A e \in Display : e.topic = openChat

\* Not kept by the code (README.md, section 3): a receipt says of every message up to its
\* number that it was read, and of those the page may have had the newest only.
AllReadWasLoaded == \A t \in Chats :
    \A k \in 1 .. receipt[t] : \E e \in cached[t].rows : e.number = k

\* Not kept by the code (README.md, section 3): who asks for the newest messages gets the
\* newest one, which may have no number yet.
NewestIsAnswered == \A t \in Chats : \A n \in unnumbered[t] : [number |-> 0, text |-> n] \in GetMessages(t)

\* Not kept by the code (README.md, section 3): a text is shown once; the optimistic
\* message is kept beside the row that confirms it.
TextShownOnce == \A d, e \in Display : d.text = e.text => d = e

================================================================================
