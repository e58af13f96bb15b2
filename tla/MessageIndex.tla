---- MODULE MessageIndex ----
(***************************************************************************)
(* One conversation's messages: MessagingService.sendMessage, which indexes*)
(* a message before it has reached the HCS topic, and MessageSyncService,  *)
(* which fills the index from the mirror node.  messages_index is UNIQUE on*)
(* (hcsTopicId, sequenceNumber), and the placeholder of a message that has *)
(* no number yet is the number 0.                                          *)
(***************************************************************************)
EXTENDS Integers, Sequences, FiniteSets, FiniteSetsExt

CONSTANTS
    Sends,         \* calls of sendMessage
    Posts,         \* payment messages, which PaymentsService submits to the topic
    Passes,        \* runs of the sync job that may overlap (@Cron does not wait)
    Users, Operator, KeyExchange,
    MIRROR_NODE_BATCH_SIZE,
    MirrorFirst,   \* may the mirror node show a message before its receipt is handled?
    Faults         \* may submissions and fetches fail, and the process die?

ASSUME BatchAssumption == MIRROR_NODE_BATCH_SIZE \in Nat \ {0}
ASSUME SwitchAssumption == {MirrorFirst, Faults} \subseteq BOOLEAN
ASSUME NamesAssumption ==
    /\ Operator \notin Users
    /\ KeyExchange \notin Sends \cup Posts
    /\ Sends \cap Posts = {}

VARIABLES
    topic,      \* the HCS topic: [src, sender as the sync job sees it]
    mirrored,   \* how many of its messages the mirror node shows
    seqOf,      \* sequenceNumber of the index row of each sent message
    synced,     \* numbers of the index rows that the sync job inserted
    lastSeq,    \* conversation.lastMessageSeq
    lastRead,   \* member.lastReadSeq of a reader
    send, pc,   \* who sends, and the row of the conversation he loaded
    hcs, ack,   \* the background submission of each message, and its receipt
    cursor,     \* lastSyncedSequences.get(topicId)
    pass        \* the runs of the sync job

appVars == <<seqOf, synced, lastSeq, lastRead, send, pc, hcs, ack, cursor, pass>>
vars == <<topic, mirrored, appVars>>

NoRow    == -1          \* no row yet
Unknown  == -1          \* no entry in lastSyncedSequences
AllRead  == 9999999     \* markAsRead, when lastMessageSeq is 0
Seqs     == 0 .. 1 + Cardinality(Sends) + Cardinality(Posts)

\* A run of the job: where it resumes, where its batch ends, the number at hand,
\* whether it found news, the placeholder it is about to number, and the
\* lastMessageSeq of the conversation it loaded.
NoPass == [at |-> "idle", from |-> 0, upto |-> 0, next |-> 0, found |-> FALSE,
           claim |-> {}, snap |-> 0]
Pass   == [at : {"idle", "resume", "load", "fetch", "check", "lookup", "write", "finish"},
           from : Nat, upto : Nat, next : Nat, found : BOOLEAN,
           claim : SUBSET Sends, snap : Nat]

TopicMessage == [src : Sends \cup Posts \cup {KeyExchange}, sender : Users \cup {Operator}]

TypeOK ==
    /\ topic \in Seq(TopicMessage)
    /\ mirrored \in Nat
    /\ seqOf \in [Sends -> {NoRow} \cup Nat]
    /\ synced \subseteq Nat
    /\ lastSeq \in Nat
    /\ lastRead \in Nat
    /\ send \in [Sends -> [user : Users, snap : Nat]]
    /\ pc \in [Sends -> {"idle", "insert", "touch", "returned", "threw"}]
    /\ hcs \in [Sends -> {"none", "submitting", "acked", "done", "failed"}]
    /\ ack \in [Sends -> Nat]
    /\ cursor \in {Unknown} \cup Nat
    /\ pass \in [Passes -> Pass]

\* createConversation has submitted the key exchange.
Init ==
    /\ topic = <<[src |-> KeyExchange, sender |-> Operator]>>
    /\ mirrored = 0
    /\ seqOf = [s \in Sends |-> NoRow]
    /\ synced = {}
    /\ lastSeq = 0
    /\ lastRead = 0
    /\ send \in [Sends -> [user : Users, snap : {0}]]
    /\ pc = [s \in Sends |-> "idle"]
    /\ hcs = [s \in Sends |-> "none"]
    /\ ack = [s \in Sends |-> 0]
    /\ cursor = Unknown
    /\ pass = [q \in Passes |-> NoPass]

--------------------------------------------------------------------------------

Goto(s, l)  == pc' = [pc EXCEPT ![s] = l]
Used(n)     == n \in synced \/ \E s \in Sends : seqOf[s] = n
Indexed     == synced \cup ({seqOf[s] : s \in Sends} \ {NoRow})

\* The process dies: calls, background submissions, runs of the job and the
\* in-memory cursors are gone.
Restart ==
    /\ pc'  = [s \in Sends |-> IF pc[s] \in {"insert", "touch"} THEN "threw" ELSE pc[s]]
    /\ hcs' = [s \in Sends |-> IF hcs[s] \in {"submitting", "acked"} THEN "failed" ELSE hcs[s]]
    /\ cursor' = Unknown
    /\ pass' = [q \in Passes |-> NoPass]

Crash ==
    /\ Faults
    /\ Restart
    /\ UNCHANGED <<topic, mirrored, seqOf, synced, lastSeq, lastRead, send, ack>>

(* MessagingService.sendMessage *)

Send(s) ==
    /\ pc[s] = "idle"
    /\ send' = [send EXCEPT ![s].snap = lastSeq]
    /\ Goto(s, "insert")
    /\ UNCHANGED <<topic, mirrored, seqOf, synced, lastSeq, lastRead, hcs, ack, cursor, pass>>

\* The placeholder row; a second one for the topic violates the constraint.
InsertMessage(s) ==
    /\ pc[s] = "insert"
    /\ IF Used(0)
       THEN Goto(s, "threw") /\ UNCHANGED <<seqOf, hcs>>
       ELSE /\ seqOf' = [seqOf EXCEPT ![s] = 0]
            /\ hcs' = [hcs EXCEPT ![s] = "submitting"]
            /\ Goto(s, "touch")
    /\ UNCHANGED <<topic, mirrored, synced, lastSeq, lastRead, send, ack, cursor, pass>>

\* conversationRepository.save of the row loaded at the start.
SaveConversation(s) ==
    /\ pc[s] = "touch"
    /\ lastSeq' = send[s].snap
    /\ Goto(s, "returned")
    /\ UNCHANGED <<topic, mirrored, seqOf, synced, lastRead, send, hcs, ack, cursor, pass>>

\* What is sent is encrypted, so that the sync job sees the operator who pays.
Reaches(src, sender) == topic' = Append(topic, [src |-> src, sender |-> sender])

Submit(s) ==
    /\ hcs[s] = "submitting"
    /\ \/ /\ Reaches(s, Operator)
          /\ hcs' = [hcs EXCEPT ![s] = "acked"]
          /\ ack' = [ack EXCEPT ![s] = Len(topic) + 1]
       \/ /\ Faults
          /\ hcs' = [hcs EXCEPT ![s] = "failed"]
          /\ Reaches(s, Operator) \/ UNCHANGED topic
          /\ UNCHANGED ack
    /\ UNCHANGED <<mirrored, seqOf, synced, lastSeq, lastRead, send, pc, cursor, pass>>

\* A slip: the receipt never makes it into the row.
NumberNothing(s) ==
    /\ hcs[s] = "acked"
    /\ hcs' = [hcs EXCEPT ![s] = "done"]
    /\ UNCHANGED <<topic, mirrored, seqOf, synced, lastSeq, lastRead, send, pc, ack, cursor, pass>>

\* The then() of the submission.  Its update is not awaited, and nobody handles its
\* rejection when the number is taken: that ends the process.
NumberMessage(s) ==
    /\ hcs[s] = "acked"
    /\ IF Used(ack[s]) /\ seqOf[s] # ack[s]
       THEN Restart /\ UNCHANGED seqOf
       ELSE /\ seqOf' = [seqOf EXCEPT ![s] = ack[s]]
            /\ hcs' = [hcs EXCEPT ![s] = "done"]
            /\ UNCHANGED <<pc, cursor, pass>>
    /\ UNCHANGED <<topic, mirrored, synced, lastSeq, lastRead, send, ack>>

(* Outside: payment messages are JSON and name their sender; the mirror node *)
(* follows the topic.                                                        *)

PostPayment(p, u) ==
    /\ \A i \in DOMAIN topic : topic[i].src # p
    /\ Reaches(p, u)
    /\ UNCHANGED <<mirrored, appVars>>

MirrorShows ==
    /\ mirrored < Len(topic)
    /\ MirrorFirst \/ \A s \in Sends : hcs[s] = "acked" => ack[s] # mirrored + 1
    /\ mirrored' = mirrored + 1
    /\ UNCHANGED <<topic, appVars>>

(* MessageSyncService.syncConversation and MessagingService.syncFromMirrorNode *)

Passed(q, p) == pass' = [pass EXCEPT ![q] = p]

\* The cursor, or getLastSyncedSequence when there is none.
StartPass(q) ==
    /\ pass[q].at = "idle"
    /\ Passed(q, IF cursor = Unknown
                 THEN [NoPass EXCEPT !.at = "resume", !.from = Max(Indexed \cup {0})]
                 ELSE [NoPass EXCEPT !.at = "load", !.from = cursor])
    /\ UNCHANGED <<topic, mirrored, seqOf, synced, lastSeq, lastRead, send, pc, hcs, ack, cursor>>

LoadConversation(q) ==
    LET p == pass[q] IN
    /\ p.at \in {"resume", "load"}
    /\ cursor' = IF p.at = "resume" THEN p.from ELSE cursor
    /\ Passed(q, [p EXCEPT !.at = "fetch", !.snap = lastSeq])
    /\ UNCHANGED <<topic, mirrored, seqOf, synced, lastSeq, lastRead, send, pc, hcs, ack>>

BatchEnd(from) == Min({mirrored, from + MIRROR_NODE_BATCH_SIZE})

\* getTopicMessages: what the mirror node shows after `from`, oldest first.
Fetch(q) ==
    LET p == pass[q] IN
    /\ p.at = "fetch"
    /\ \/ Passed(q, IF mirrored > p.from
                    THEN [p EXCEPT !.at = "check", !.next = p.from + 1, !.upto = BatchEnd(p.from)]
                    ELSE [p EXCEPT !.at = "finish", !.upto = p.from])
       \/ Faults /\ Passed(q, NoPass)
    /\ UNCHANGED <<topic, mirrored, seqOf, synced, lastSeq, lastRead, send, pc, hcs, ack, cursor>>

Following(p, found) ==
    [p EXCEPT !.at = IF p.next = p.upto THEN "finish" ELSE "check",
              !.next = @ + 1, !.found = found, !.claim = {}]

\* Is the number in the index already?
Check(q) ==
    LET p == pass[q] IN
    /\ p.at = "check"
    /\ Passed(q, IF Used(p.next) THEN Following(p, p.found) ELSE [p EXCEPT !.at = "lookup"])
    /\ UNCHANGED <<topic, mirrored, seqOf, synced, lastSeq, lastRead, send, pc, hcs, ack, cursor>>

\* A slip: any placeholder will do.
PlaceholdersOfAnyone(u) == {s \in Sends : seqOf[s] = 0}

\* Is there a placeholder of the same sender?  (There is never more than one.)
Placeholders(u) == {s \in Sends : seqOf[s] = 0 /\ send[s].user = u}

Lookup(q) ==
    LET p == pass[q] IN
    /\ p.at = "lookup"
    /\ Passed(q, [p EXCEPT !.at = "write", !.claim = Placeholders(topic[p.next].sender)])
    /\ UNCHANGED <<topic, mirrored, seqOf, synced, lastSeq, lastRead, send, pc, hcs, ack, cursor>>

\* A slip: a message that cannot be written is passed over.
WriteOrSkip(q) ==
    LET p == pass[q] IN
    /\ p.at = "write"
    /\ synced' \in {synced, synced \cup {p.next}}
    /\ Passed(q, Following(p, TRUE))
    /\ UNCHANGED <<topic, mirrored, seqOf, lastSeq, lastRead, send, pc, hcs, ack, cursor>>

\* The placeholder takes the number, or a row is inserted; a number that was taken
\* meanwhile ends the pass, which is repeated from the old cursor.
Write(q) ==
    LET p == pass[q] IN
    /\ p.at = "write"
    /\ IF p.next \in synced \/ \E s \in Sends \ p.claim : seqOf[s] = p.next
       THEN Passed(q, NoPass) /\ UNCHANGED <<seqOf, synced>>
       ELSE /\ Passed(q, Following(p, TRUE))
            /\ IF p.claim = {}
               THEN synced' = synced \cup {p.next} /\ UNCHANGED seqOf
               ELSE /\ seqOf' = [s \in Sends |-> IF s \in p.claim THEN p.next ELSE seqOf[s]]
                    /\ UNCHANGED synced
    /\ UNCHANGED <<topic, mirrored, lastSeq, lastRead, send, pc, hcs, ack, cursor>>

Finish(q) ==
    LET p == pass[q] IN
    /\ p.at = "finish"
    /\ lastSeq' = IF p.found /\ p.upto > p.snap THEN p.upto ELSE lastSeq
    /\ cursor'  = IF p.upto > p.from THEN p.upto ELSE cursor
    /\ Passed(q, NoPass)
    /\ UNCHANGED <<topic, mirrored, seqOf, synced, lastRead, send, pc, hcs, ack>>

(* ConversationsService.markAsRead *)

MarkAsRead ==
    /\ lastRead' = IF lastSeq = 0 THEN AllRead ELSE lastSeq
    /\ UNCHANGED <<topic, mirrored, seqOf, synced, lastSeq, send, pc, hcs, ack, cursor, pass>>

--------------------------------------------------------------------------------

Background(s) == Submit(s) \/ NumberMessage(s)
Handler(s)    == InsertMessage(s) \/ SaveConversation(s)
Sync(q) ==
    \/ StartPass(q) \/ LoadConversation(q) \/ Fetch(q)
    \/ Check(q) \/ Lookup(q) \/ Write(q) \/ Finish(q)

Steps ==
    \/ \E s \in Sends : Send(s) \/ Handler(s) \/ Background(s)
    \/ \E p \in Posts, u \in Users : PostPayment(p, u)
    \/ \E q \in Passes : Sync(q)
    \/ MirrorShows \/ MarkAsRead

Next == Steps \/ Crash

Spec == Init /\ [][Next]_vars

\* Handlers and background submissions go on, the mirror node catches up, and the
\* job runs every 30 seconds; what is promised then is promised while the process lives.
Fairness ==
    /\ \A s \in Sends : WF_vars(Handler(s)) /\ WF_vars(Background(s))
    /\ \A q \in Passes : WF_vars(Sync(q))
    /\ WF_vars(MirrorShows)

FairSpec == Init /\ [][Steps]_vars /\ Fairness

--------------------------------------------------------------------------------

IsPayment(n) == topic[n].src \in Posts

\* The number of a row is the number of its message in the topic, whoever gave it: the
\* receipt or the sync job; or else that of a payment of the same sender, for which the
\* job takes the placeholder.
ClaimedIsReal ==
    \A s \in Sends :
        seqOf[s] > 0 => /\ seqOf[s] \in DOMAIN topic
                        /\ \/ topic[seqOf[s]].src = s
                           \/ IsPayment(seqOf[s]) /\ topic[seqOf[s]].sender = send[s].user

\* A row that has the number of its message keeps it, whatever passes of the sync job are
\* under way with an older view of the row, but for a payment that took the placeholder.
NumberedOnce ==
    [][\A s \in Sends : seqOf[s] > 0 /\ seqOf'[s] # seqOf[s]
                        => IsPayment(seqOf[s]) \/ IsPayment(seqOf[s])']_vars

\* A run of the job is done with its batch, and about to move the cursor past it,
\* only when the index has every message of the batch but the payments (see
\* PaymentsAreIndexed): the job never asks for one of them again.
InIndex(n) == \/ n \in synced
              \/ \E s \in Sends : topic[n].src = s /\ seqOf[s] > 0
BatchIsIndexed ==
    \A q \in Passes :
        pass[q].at = "finish" => \A n \in pass[q].from + 1 .. pass[q].upto : IsPayment(n) \/ InIndex(n)

\* What the index may be trusted for, whatever receipts and passes of the job overlap.
IndexIsTrue == TypeOK /\ ClaimedIsReal /\ BatchIsIndexed

\* The placeholder, of which a topic can have one, is released: until then nobody
\* else can send.
PlaceholderReleased == Used(0) ~> ~Used(0)

\* What the mirror node shows after the cursor gets into the index, unless it is a
\* payment: that may be in the row of a text message, whose receipt drops it again.
SyncCatchesUp ==
    \A n \in Seqs : /\ cursor # Unknown /\ cursor < n /\ n <= mirrored
                    /\ topic[n].src \notin Posts
                    ~> Used(n)

\* Not kept by the code (README.md, section 3):
\* Every payment message of the topic gets into the index.
PaymentsAreIndexed ==
    \A n \in Seqs : (n \in DOMAIN topic /\ topic[n].src \in Posts) ~> Used(n)

\* Not kept by the code (README.md, section 3):
\* Nobody's message is refused because somebody else's is on its way.
SendsDoNotClash == \A s \in Sends : pc[s] # "threw"

\* Not kept by the code (README.md, section 3):
\* A message is not in the index twice: as a row the sync job made and as a
\* placeholder that will get no number any more.
IndexedOnce ==
    \A s \in Sends : seqOf[s] = 0 /\ hcs[s] \notin {"submitting", "acked"}
                      => \A n \in DOMAIN topic : topic[n].src = s => n \notin synced

\* Not kept by the code (README.md, section 3):
\* The conversation's last number does not go back.
LastSeqGrows == [][lastSeq' >= lastSeq]_vars

\* Not kept by the code (README.md, section 3):
\* A reader has read no further than the topic goes.
NotReadAhead == [][lastRead' # lastRead => lastRead' <= Len(topic)]_vars

================================================================================
