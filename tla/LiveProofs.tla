---- MODULE LiveProofs ----
(***************************************************************************)
(* The polling client of TamamCustodyService keeps what CustodyTransfer    *)
(* promises to the payment handlers, for every number of transfers and     *)
(* every polling budget; and the pages of feeds show what PostFeed         *)
(* promises, for every finite number of posts and every number of readers. *)
(***************************************************************************)
EXTENDS MCPaymentsLive, FiniteSetTheorems, TLAPS

--------------------------------------------------------------------------------
(* The custody client *)

\* What travels on the wire says of the transaction: a request that Tamam has not handled
\* has no transaction yet, and a status that is terminal is still the status.
WireInv ==
    \A c \in Transfers :
        /\ client[c] = "idle" => tx[c] = "absent" /\ wire[c].kind = "quiet"
        /\ wire[c].kind = "POST" => tx[c] = "absent" /\ client[c] \in {"creating", "threw"}
        /\ wire[c].kind \in {"created", "GET", "status"} => tx[c] # "absent"
        /\ wire[c].kind = "status" /\ wire[c].status # "PENDING" => tx[c] = wire[c].status

CustodyIInv == TransferInv /\ WireInv

LEMMA KindOf == \A k : Kind(k).kind = k
  BY DEF Kind

LEMMA ReplyOf == \A s, h : Reply(s, h).kind = "status" /\ Reply(s, h).status = s /\ Reply(s, h).hash = h
  BY DEF Reply

\* A message of the wire is known by its kind, but for a status.
LEMMA WireOf ==
    ASSUME NEW w \in Wire
    PROVE  /\ w.kind \in {"quiet", "POST", "GET", "created", "malformed", "httpError", "status"}
           /\ w.kind # "status" => w = Kind(w.kind)
           /\ w.kind = "status" => w.status \in {"PENDING"} \cup Terminal
  BY DEF Wire, Reply, Kind

LEMMA OnTheWire ==
    /\ \A k \in {"quiet", "POST", "GET", "created", "malformed", "httpError"} : Kind(k) \in Wire
    /\ \A s \in {"PENDING"} \cup Terminal, h \in BOOLEAN : Reply(s, h) \in Wire
  BY DEF Wire, Kind

\* The invariant is kept by every step of the client, of Tamam and of the network.
LEMMA CustodyKeeps == CustodyIInv /\ [TransferNext]_tvars => CustodyIInv'
  <1> SUFFICES ASSUME CustodyIInv, [TransferNext]_tvars PROVE CustodyIInv'
    OBVIOUS
  <1> USE PollAssumption, KindOf, ReplyOf, OnTheWire
      DEF CustodyIInv, TransferInv, TransferTypeOK, HashMeansCompleted, PolledExists, WireInv, Reach, OnWire
  <1>1. ASSUME NEW c \in Transfers, NotConfigured(c) \/ CreateTransaction(c) PROVE CustodyIInv'
    BY <1>1 DEF NotConfigured, CreateTransaction
  <1>2. ASSUME NEW c \in Transfers, Created(c) \/ BadResponse(c) PROVE CustodyIInv'
    BY <1>2 DEF Created, BadResponse
  <1>3. ASSUME NEW c \in Transfers, RequestTimesOut(c) PROVE CustodyIInv'
    BY <1>3 DEF RequestTimesOut
  <1>4. ASSUME NEW c \in Transfers, PollAgain(c) \/ PollingTimesOut(c) PROVE CustodyIInv'
    BY <1>4 DEF PollAgain, PollingTimesOut, Polled
  <1>5. ASSUME NEW c \in Transfers, PollCompleted(c) \/ PollFailed(c) PROVE CustodyIInv'
    BY <1>5 DEF PollCompleted, PollFailed, Polled
  <1>6. ASSUME NEW c \in Transfers, HandlePost(c) PROVE CustodyIInv'
    BY <1>6 DEF HandlePost, TxStatuses, Terminal
  <1>7. ASSUME NEW c \in Transfers, HandleGet(c) PROVE CustodyIInv'
    <2>1. tx[c] \in {"PENDING"} \cup Terminal
      BY <1>7 DEF HandleGet, TxStatuses
    <2>2. CASE OnWire(c, Kind("httpError"))
      BY <1>7, <2>2 DEF HandleGet
    <2>3. CASE \E h \in BOOLEAN : OnWire(c, Reply(tx[c], h))
      <3>1. PICK h \in BOOLEAN : wire' = [wire EXCEPT ![c] = Reply(tx[c], h)]
        BY <2>3
      <3>2. Reply(tx[c], h) \in Wire
        BY <2>1
      <3> QED BY <1>7, <2>1, <3>1, <3>2 DEF HandleGet
    <2> QED BY <1>7, <2>2, <2>3 DEF HandleGet
  <1>8. ASSUME NEW c \in Transfers, Process(c) PROVE CustodyIInv'
    <2>1. wire[c].kind = "status" => wire[c].status = "PENDING"
      BY <1>8 DEF Process
    <2> QED BY <1>8, <2>1 DEF Process, TxStatuses, Terminal
  <1>9. CASE UNCHANGED tvars
    BY <1>9 DEF tvars
  <1> QED BY <1>1, <1>2, <1>3, <1>4, <1>5, <1>6, <1>7, <1>8, <1>9 DEF TransferNext, ClientStep

LEMMA CustodyInitial == TransferInit => CustodyIInv
  BY PollAssumption, KindOf, OnTheWire
     DEF TransferInit, CustodyIInv, TransferInv, TransferTypeOK, HashMeansCompleted, PolledExists, WireInv, TxStatuses

\* A caller is given a hash only for a transfer that completed, and only what exists is
\* polled (executeTransfer, pollTransactionStatus).
THEOREM CustodyInductive == TransferSpec => []CustodyIInv
  BY CustodyInitial, CustodyKeeps, PTL DEF TransferSpec

THEOREM TransferInvHolds == TransferSpec => []TransferInv
  BY CustodyInductive, PTL DEF CustodyIInv

--------------------------------------------------------------------------------
(* The refinement of CustodyTransfer *)

Seen(c) == CASE tx[c] = "PENDING"   -> "live"
             [] tx[c] = "COMPLETED" -> "done"
             [] tx[c] = "FAILED"    -> "dead"
             [] wire[c] = Kind("POST") -> "sent"
             [] OTHER -> "none"
Told(c) == CASE client[c] = "idle" -> "idle"
             [] client[c] \in {"creating", "polling"} -> "waiting"
             [] client[c] = "returned" -> "hash"
             [] OTHER -> "error"
XferOf   == [c \in Transfers |-> Seen(c)]
AnswerOf == [c \in Transfers |-> Told(c)]

LEMMA AbstractMapping ==
    /\ Abstract!CustodyInit <=> XferOf = [c \in Transfers |-> "none"] /\ AnswerOf = [c \in Transfers |-> "idle"]
    /\ \A c \in Transfers :
        /\ Abstract!Submit(c) <=> /\ AnswerOf[c] = "idle" /\ AnswerOf' = [AnswerOf EXCEPT ![c] = "waiting"]
                                  /\ XferOf' = [XferOf EXCEPT ![c] = "sent"]
        /\ Abstract!Refuse(c) <=> /\ AnswerOf[c] = "idle" /\ AnswerOf' = [AnswerOf EXCEPT ![c] = "error"]
                                  /\ XferOf' = XferOf
        /\ Abstract!Accept(c) <=> /\ XferOf[c] = "sent" /\ AnswerOf' = AnswerOf
                                  /\ XferOf' \in {[XferOf EXCEPT ![c] = x] : x \in {"live", "dead"}}
        /\ Abstract!Settle(c) <=> /\ XferOf[c] = "live" /\ AnswerOf' = AnswerOf
                                  /\ XferOf' \in {[XferOf EXCEPT ![c] = x] : x \in {"done", "dead"}}
        /\ Abstract!AnswerHash(c) <=> /\ AnswerOf[c] = "waiting" /\ XferOf[c] = "done"
                                      /\ AnswerOf' = [AnswerOf EXCEPT ![c] = "hash"] /\ XferOf' = XferOf
        /\ Abstract!AnswerError(c) <=> /\ AnswerOf[c] = "waiting"
                                       /\ AnswerOf' = [AnswerOf EXCEPT ![c] = "error"] /\ XferOf' = XferOf
    /\ UNCHANGED Abstract!custodyVars <=> XferOf' = XferOf /\ AnswerOf' = AnswerOf
  BY DEF Abstract!CustodyInit, Abstract!Submit, Abstract!Refuse, Abstract!Accept, Abstract!Settle,
     Abstract!AnswerHash, Abstract!AnswerError, Abstract!custodyVars, XferOf, AnswerOf, Seen, Told

\* A step of the transfer c shows in its two columns only.
LEMMA OneTransfer ==
    ASSUME NEW c \in Transfers,
           \A d \in Transfers \ {c} : tx'[d] = tx[d] /\ wire'[d] = wire[d] /\ client'[d] = client[d]
    PROVE  XferOf' = [XferOf EXCEPT ![c] = Seen(c)'] /\ AnswerOf' = [AnswerOf EXCEPT ![c] = Told(c)']
  <1>1. \A d \in Transfers \ {c} : Seen(d)' = Seen(d) /\ Told(d)' = Told(d)
    BY DEF Seen, Told
  <1> QED BY <1>1 DEF XferOf, AnswerOf

\* What the columns of a transfer say, by the state of the client and of Tamam.
Columns(c) ==
    /\ tx[c] = "absent" => Seen(c) = IF wire[c].kind = "POST" THEN "sent" ELSE "none"
    /\ tx[c] = "PENDING" => Seen(c) = "live"
    /\ tx[c] = "COMPLETED" => Seen(c) = "done"
    /\ tx[c] = "FAILED" => Seen(c) = "dead"
    /\ client[c] = "idle" => Told(c) = "idle"
    /\ client[c] \in {"creating", "polling"} => Told(c) = "waiting"
    /\ client[c] = "returned" => Told(c) = "hash"
    /\ client[c] = "threw" => Told(c) = "error"

ColumnsInv == \A c \in Transfers : Columns(c)

LEMMA ColumnsSay == CustodyIInv => ColumnsInv
  <1> SUFFICES ASSUME CustodyIInv, NEW c \in Transfers PROVE Columns(c)
    BY DEF ColumnsInv
  <1>1. wire[c] = Kind("POST") <=> wire[c].kind = "POST"
    BY WireOf, KindOf DEF CustodyIInv, TransferInv, TransferTypeOK
  <1>2. tx[c] = "absent" => Seen(c) = IF wire[c].kind = "POST" THEN "sent" ELSE "none"
    BY <1>1 DEF Seen
  <1>3. /\ tx[c] = "PENDING" => Seen(c) = "live"
        /\ tx[c] = "COMPLETED" => Seen(c) = "done"
        /\ tx[c] = "FAILED" => Seen(c) = "dead"
    <2>1. tx[c] # "absent" => wire[c] # Kind("POST")
      BY <1>1 DEF CustodyIInv, WireInv
    <2> QED BY <2>1 DEF Seen
  <1>4. /\ client[c] = "idle" => Told(c) = "idle"
        /\ client[c] \in {"creating", "polling"} => Told(c) = "waiting"
        /\ client[c] = "returned" => Told(c) = "hash"
        /\ client[c] = "threw" => Told(c) = "error"
    BY DEF Told
  <1> QED BY <1>2, <1>3, <1>4 DEF Columns

\* Every step of the client, of Tamam and of the network is one of CustodyTransfer, or
\* changes nothing that a payment handler sees.
LEMMA AbstractStep ==
    ASSUME CustodyIInv, CustodyIInv', TransferNext
    PROVE  Abstract!CustodyNext \/ UNCHANGED Abstract!custodyVars
  <1> DEFINE Allowed(c) == \/ Abstract!Submit(c) \/ Abstract!Refuse(c) \/ Abstract!Accept(c) \/ Abstract!Settle(c)
                           \/ Abstract!AnswerHash(c) \/ Abstract!AnswerError(c)
                           \/ UNCHANGED Abstract!custodyVars
  <1> SUFFICES ASSUME NEW c \in Transfers,
                      \/ NotConfigured(c) \/ CreateTransaction(c) \/ ClientStep(c)
                      \/ HandlePost(c) \/ HandleGet(c) \/ Process(c)
               PROVE  Allowed(c)
    BY DEF TransferNext, Abstract!CustodyNext
  <1>1. XferOf' = [XferOf EXCEPT ![c] = Seen(c)'] /\ AnswerOf' = [AnswerOf EXCEPT ![c] = Told(c)']
    <2>1. \A d \in Transfers \ {c} : tx'[d] = tx[d] /\ wire'[d] = wire[d] /\ client'[d] = client[d]
      BY DEF NotConfigured, CreateTransaction, ClientStep, Created, BadResponse, RequestTimesOut, PollAgain,
         PollingTimesOut, PollCompleted, PollFailed, HandlePost, HandleGet, Process, Reach, OnWire,
         CustodyIInv, TransferInv, TransferTypeOK
    <2> QED BY <2>1, OneTransfer
  <1>2. XferOf[c] = Seen(c) /\ AnswerOf[c] = Told(c)
    BY DEF XferOf, AnswerOf
  <1>3. /\ Seen(c)' = Seen(c) => XferOf' = XferOf
        /\ Told(c)' = Told(c) => AnswerOf' = AnswerOf
    BY <1>1, <1>2 DEF XferOf, AnswerOf
  <1>a. /\ Told(c) = "idle" /\ Told(c)' = "error" /\ Seen(c)' = Seen(c) => Allowed(c)
        /\ Told(c) = "idle" /\ Told(c)' = "waiting" /\ Seen(c)' = "sent" => Allowed(c)
    BY <1>1, <1>2, <1>3, AbstractMapping
  <1>b. /\ Told(c) = "waiting" /\ Told(c)' = "hash" /\ Seen(c) = "done" /\ Seen(c)' = Seen(c) => Allowed(c)
        /\ Told(c) = "waiting" /\ Told(c)' = "error" /\ Seen(c)' = Seen(c) => Allowed(c)
    BY <1>1, <1>2, <1>3, AbstractMapping
  <1>4. ColumnsInv /\ ColumnsInv'
    BY ColumnsSay, PTL
  <1>5. Columns(c) /\ Columns(c)'
    BY <1>4 DEF ColumnsInv
  <1> USE KindOf, ReplyOf DEF Reach, OnWire, CustodyIInv, TransferInv, TransferTypeOK, WireInv, Columns
  <1>6. CASE NotConfigured(c)
    <2>1. Told(c) = "idle" /\ Told(c)' = "error" /\ Seen(c)' = Seen(c)
      BY <1>5, <1>6 DEF NotConfigured, Seen
    <2> HIDE DEF Allowed
    <2> QED BY <1>a, <2>1
  <1>7. CASE CreateTransaction(c)
    <2>1. Told(c) = "idle" /\ Told(c)' = "waiting" /\ Seen(c)' = "sent"
      BY <1>5, <1>7 DEF CreateTransaction
    <2> HIDE DEF Allowed
    <2> QED BY <1>a, <2>1
  <1>8. CASE ClientStep(c)
    <2>1. Seen(c)' = Seen(c)
      <3>1. UNCHANGED tx /\ (wire[c].kind = "POST" <=> wire'[c].kind = "POST")
        BY <1>8 DEF ClientStep, Created, BadResponse, RequestTimesOut, PollAgain, PollingTimesOut, PollCompleted,
           PollFailed, Polled
      <3> QED BY <1>5, <3>1 DEF TxStatuses, Terminal
    <2>2. CASE client'[c] \in {"creating", "polling"}
      <3>1. Told(c) = "waiting" /\ Told(c)' = "waiting"
        BY <1>5, <1>8, <2>2 DEF ClientStep, Created, BadResponse, RequestTimesOut, PollAgain, PollingTimesOut,
           PollCompleted, PollFailed, Polled
      <3> QED BY <1>3, <2>1, <3>1, AbstractMapping
    <2>3. CASE client'[c] = "returned"
      <3>1. Told(c) = "waiting" /\ Told(c)' = "hash" /\ Seen(c) = "done"
        BY <1>5, <1>8, <2>3 DEF ClientStep, Created, BadResponse, RequestTimesOut, PollAgain, PollingTimesOut,
           PollCompleted, PollFailed, Polled
      <3> HIDE DEF Allowed
      <3> QED BY <1>b, <2>1, <3>1
    <2>4. CASE client'[c] = "threw"
      <3>1. Told(c) = "waiting" /\ Told(c)' = "error"
        BY <1>5, <1>8, <2>4 DEF ClientStep, Created, BadResponse, RequestTimesOut, PollAgain, PollingTimesOut,
           PollCompleted, PollFailed, Polled
      <3> HIDE DEF Allowed
      <3> QED BY <1>b, <2>1, <3>1
    <2>5. client'[c] # "idle"
      BY <1>8 DEF ClientStep, Created, BadResponse, RequestTimesOut, PollAgain, PollingTimesOut, PollCompleted,
         PollFailed, Polled
    <2> QED BY <2>2, <2>3, <2>4, <2>5
  <1>9. CASE HandlePost(c)
    <2>1. Told(c)' = Told(c)
      BY <1>9 DEF HandlePost, Told
    <2>2. Seen(c) = "sent" /\ Seen(c)' \in {"live", "dead"}
      BY <1>5, <1>9 DEF HandlePost
    <2>3. PICK x \in {"live", "dead"} : Seen(c)' = x
      BY <2>2
    <2>4. XferOf' \in {[XferOf EXCEPT ![c] = y] : y \in {"live", "dead"}}
      BY <1>1, <2>3
    <2> QED BY <1>2, <1>3, <2>1, <2>2, <2>4, AbstractMapping
  <1>10. CASE HandleGet(c)
    <2>1. Told(c)' = Told(c)
      BY <1>10 DEF HandleGet, Told
    <2>2. Seen(c)' = Seen(c)
      BY <1>5, <1>10 DEF HandleGet, TxStatuses, Terminal
    <2> QED BY <1>3, <2>1, <2>2, AbstractMapping
  <1>11. CASE Process(c)
    <2>1. Told(c)' = Told(c)
      BY <1>11 DEF Process, Told
    <2>2. Seen(c) = "live" /\ Seen(c)' \in {"done", "dead"}
      BY <1>5, <1>11 DEF Process, Terminal
    <2>3. PICK x \in {"done", "dead"} : Seen(c)' = x
      BY <2>2
    <2>4. XferOf' \in {[XferOf EXCEPT ![c] = y] : y \in {"done", "dead"}}
      BY <1>1, <2>3
    <2> QED BY <1>2, <1>3, <2>1, <2>2, <2>4, AbstractMapping
  <1> QED BY <1>6, <1>7, <1>8, <1>9, <1>10, <1>11

\* A behaviour of the client, fair or not, maps to one of CustodyTransfer.
LEMMA AbstractBehaviour == TransferInit /\ [][TransferNext]_tvars => AbstractSpec
  <1>1. TransferInit => Abstract!CustodyInit
    <2> SUFFICES ASSUME TransferInit PROVE XferOf = [c \in Transfers |-> "none"] /\ AnswerOf = [c \in Transfers |-> "idle"]
      BY AbstractMapping
    <2>1. Kind("quiet") # Kind("POST")
      BY KindOf
    <2> QED BY <2>1 DEF TransferInit, XferOf, AnswerOf, Seen, Told
  <1>2. CustodyIInv /\ CustodyIInv' /\ [TransferNext]_tvars => [Abstract!CustodyNext]_(Abstract!custodyVars)
    <2>1. CASE TransferNext
      BY <2>1, AbstractStep
    <2>2. CASE UNCHANGED tvars
      BY <2>2, AbstractMapping DEF tvars, XferOf, AnswerOf, Seen, Told
    <2> QED BY <2>1, <2>2
  <1> QED BY <1>1, <1>2, CustodyInitial, CustodyKeeps, PTL DEF AbstractSpec, Abstract!CustodySpec

\* The polling client implements CustodyTransfer (executeTransfer): one transaction at most
\* for each call, and a hash only when it completed.
THEOREM AbstractHolds == TransferSpec => AbstractSpec
  BY AbstractBehaviour, PTL DEF TransferSpec

\* And so it does beside the payment requests and the feeds, as the run has it.
THEOREM LiveAbstractHolds == LiveSpec => AbstractSpec
  <1>1. LiveSpec => LiveInit /\ [][LiveNext]_liveVars
    BY PTL DEF LiveSpec
  <1>2. LiveInit => TransferInit
    BY DEF LiveInit
  <1>3. [LiveNext]_liveVars => [TransferNext]_tvars
    BY DEF LiveNext, liveVars, tvars
  <1> QED BY <1>1, <1>2, <1>3, AbstractBehaviour, PTL

--------------------------------------------------------------------------------
(* The feeds of posts *)

\* The topic has a post at most once, and every post whose submission is confirmed; a post
\* whose submission is over has its number, or is early.
TopicInv ==
    /\ \A p \in Blog : maker[p] = "none" => submission[p] = "none"
    /\ \A i \in DOMAIN onTopic : submission[onTopic[i]] \in {"confirmed", "over"}
    /\ \A i, j \in DOMAIN onTopic : onTopic[i] = onTopic[j] => i = j
    /\ \A p \in Blog : submission[p] = "confirmed" => \E i \in DOMAIN onTopic : onTopic[i] = p
    /\ \A p \in Blog : submission[p] = "over" /\ number[p] = 0 => p \in early
    /\ NumberIsItsPlace

\* What createPost, the fan-out and deletePost have left in the database.
RowsInv ==
    /\ \A p \in Blog : post[p] = "none" <=> maker[p] \in {"none", "save", "failed"}
    /\ \A p \in Blog : post[p] = "none" => fan[p] = "none" /\ remover[p] = "none"
    /\ \A p \in Blog : remover[p] \in {"clear", "returned"} => post[p] = "deleted"
    /\ \A r \in Readers, p \in Blog : <<r, p>> \in item => fan[p] \notin {"none", "list"}

Owned(r) == {p \in Blog : <<r, p>> \in item}

\* The page of r, stored or on its way, is without p.
Without(r, p) == \/ page[r].stored /\ ~Shows(r, p)
                 \/ fetch[r].at = "store" /\ p \notin fetch[r].seen
                 \/ fetch[r].at = "items" /\ p \notin fetch[r].items

\* A home page has only posts its reader was given; and when it lacks one of them, the
\* fan-out still has to clear the page, or was too late for it.
HomeInv ==
    feed = "home" =>
        \A r \in Readers :
            /\ page[r].posts \cup fetch[r].items \cup fetch[r].seen \subseteq Owned(r)
            /\ \A p \in Live \cap Owned(r) :
                  r \notin late /\ fan[p] # "failed" /\ Without(r, p)
                  => r \in to[p] /\ fan[p] \in {"items", "clear"}

\* createPost has cleared the pages of the feed that is looked at.
Cleared(p) == maker[p] = "returned" \/ (feed = "user" /\ maker[p] = "clearTrending")

\* A page of the author's feed or of the trending posts, stored or on its way, has the posts
\* that were cleared for, and the author's feed none that deletePost cleared.
OwnInv ==
    \A r \in Readers \ late, p \in Blog :
        /\ feed \in {"user", "trending"} /\ Cleared(p) /\ p \in Live
           => /\ page[r].stored => Shows(r, p)
              /\ fetch[r].at = "store" => p \in fetch[r].seen
        /\ feed = "user" /\ remover[p] = "returned"
           => /\ page[r].stored => ~Shows(r, p)
              /\ fetch[r].at = "store" => p \notin fetch[r].seen

FeedIInv == FeedTypeOK /\ TopicInv /\ RowsInv /\ HomeInv /\ OwnInv

LEMMA FeedInitial == FeedInit => FeedIInv
  <1> SUFFICES ASSUME FeedInit PROVE FeedIInv
    OBVIOUS
  <1> USE DEF FeedInit
  <1>1. FeedTypeOK
    <2>1. Cardinality(Blog) \in Nat
      BY BlogAssumption, FS_CardinalityType
    <2>2. follower \subseteq Readers
      OBVIOUS
    <2> QED BY <2>1, <2>2 DEF FeedTypeOK, Feeds, NoPage, NoFetch
  <1>2. TopicInv
    BY DEF TopicInv, NumberIsItsPlace
  <1>3. RowsInv
    BY DEF RowsInv
  <1>4. HomeInv
    BY DEF HomeInv, Owned, Live, NoPage, NoFetch
  <1>5. OwnInv
    BY DEF OwnInv, Cleared, Live
  <1> QED BY <1>1, <1>2, <1>3, <1>4, <1>5 DEF FeedIInv

\* A topic that has every post at most once is not longer than there are posts.
LEMMA TopicFits ==
    ASSUME NEW s \in Seq(Blog), \A i, j \in DOMAIN s : s[i] = s[j] => i = j
    PROVE  Len(s) <= Cardinality(Blog)
  <1>1. Len(s) \in Nat /\ DOMAIN s = 1 .. Len(s) /\ s \in [1 .. Len(s) -> Blog]
    OBVIOUS
  <1>2. IsFiniteSet(1 .. Len(s)) /\ Cardinality(1 .. Len(s)) = Len(s)
    <2>1. /\ IsFiniteSet(1 .. Len(s))
          /\ Cardinality(1 .. Len(s)) = IF 1 > Len(s) THEN 0 ELSE Len(s) - 1 + 1
      BY <1>1, FS_Interval
    <2> QED BY <1>1, <2>1
  <1>3. s \in Injection(1 .. Len(s), Blog)
    BY <1>1 DEF Injection, IsInjective
  <1>4. Cardinality(1 .. Len(s)) <= Cardinality(Blog)
    BY <1>3, BlogAssumption, FS_Injection
  <1> QED BY <1>2, <1>4

\* The place of a post whose submission is confirmed.
LEMMA PlaceIsThere ==
    ASSUME FeedTypeOK, TopicInv, NEW p \in Blog, submission[p] = "confirmed"
    PROVE  Place(p) \in DOMAIN onTopic /\ onTopic[Place(p)] = p
  <1>1. PICK i \in DOMAIN onTopic : onTopic[i] = p
    BY DEF TopicInv
  <1> QED BY <1>1 DEF Place

\* A deletion from Redis takes a page away or leaves it; what is left is known to be late.
LEMMA ClearDoes ==
    ASSUME FeedTypeOK, NEW S \in SUBSET Readers, NEW applies \in BOOLEAN, Clear(S, applies)
    PROVE  /\ page' \in [Readers -> [stored : BOOLEAN, posts : SUBSET Blog]]
           /\ late' \subseteq Readers /\ late \subseteq late'
           /\ \A r \in Readers : page'[r] = page[r] \/ page'[r] = NoPage
           /\ applies => \A r \in S \ late' : page'[r] = NoPage /\ fetch[r].at = "none"
  <1> USE DEF FeedTypeOK, Fetching, NoPage
  <1>1. CASE applies /\ DropPages(S) /\ Written
    BY <1>1 DEF DropPages, Written
  <1>2. CASE ~applies /\ UNCHANGED page /\ Written
    BY <1>2 DEF Written
  <1>3. CASE applies /\ UNCHANGED page /\ late' = late \cup S
    BY <1>3
  <1> QED BY <1>1, <1>2, <1>3 DEF Clear

Asked == [at : {"none", "miss", "items", "store"}, items : SUBSET Blog, seen : SUBSET Blog]

LEMMA AskedStays ==
    ASSUME NEW f \in Asked, NEW S \in SUBSET Blog
    PROVE  [f EXCEPT !.at = "miss"] \in Asked /\ [f EXCEPT !.at = "items", !.items = S] \in Asked
  BY DEF Asked

LEMMA FeedTypeKeeps == FeedTypeOK /\ TopicInv /\ TopicInv' /\ [FeedNext]_fvars => FeedTypeOK'
  <1> SUFFICES ASSUME FeedTypeOK, TopicInv, TopicInv', [FeedNext]_fvars PROVE FeedTypeOK'
    OBVIOUS
  <1>0. Cardinality(Blog) \in Nat
    BY BlogAssumption, FS_CardinalityType
  <1>1. ASSUME NEW p \in Blog, CreatePost(p) PROVE FeedTypeOK'
    BY <1>1 DEF CreatePost, FeedTypeOK
  <1>2. ASSUME NEW p \in Blog, Consensus(p) PROVE FeedTypeOK'
    <2>1. onTopic' \in Seq(Blog)
      BY <1>2 DEF Consensus, FeedTypeOK
    <2>2. Len(onTopic') <= Cardinality(Blog)
      BY <2>1, TopicFits DEF TopicInv
    <2> QED BY <1>2, <2>1, <2>2 DEF Consensus, FeedTypeOK
  <1>3. ASSUME NEW p \in Blog, UpdateNumber(p) PROVE FeedTypeOK'
    <2>1. Place(p) \in DOMAIN onTopic
      BY <1>3, PlaceIsThere DEF UpdateNumber
    <2>2. Place(p) \in 0 .. Cardinality(Blog)
      BY <1>0, <2>1 DEF FeedTypeOK
    <2>3. number' \in [Blog -> 0 .. Cardinality(Blog)]
      BY <1>3, <2>2 DEF UpdateNumber, FeedTypeOK
    <2>4. early' \subseteq Blog
      BY <1>3 DEF UpdateNumber, FeedTypeOK
    <2> QED BY <1>3, <2>3, <2>4 DEF UpdateNumber, FeedTypeOK
  <1>4. ASSUME NEW p \in Blog, SubmissionFails(p) PROVE FeedTypeOK'
    BY <1>4 DEF SubmissionFails, FeedTypeOK
  <1>5. ASSUME NEW p \in Blog, SavePost(p) PROVE FeedTypeOK'
    BY <1>5 DEF SavePost, FeedTypeOK
  <1>6. ASSUME NEW p \in Blog, ClearAfterCreate(p) PROVE FeedTypeOK'
    <2> DEFINE applies == maker[p] = IF feed = "user" THEN "clearUser"
                                     ELSE IF feed = "trending" THEN "clearTrending" ELSE ""
    <2>1. Clear(Readers, applies)
      BY <1>6 DEF ClearAfterCreate
    <2>2. page' \in [Readers -> [stored : BOOLEAN, posts : SUBSET Blog]] /\ late' \subseteq Readers
      <3>1. applies \in BOOLEAN
        OBVIOUS
      <3> HIDE DEF applies
      <3> QED BY <2>1, <3>1, ClearDoes
    <2> QED BY <1>6, <2>2 DEF ClearAfterCreate, FeedTypeOK
  <1>7. ASSUME NEW p \in Blog, CreateFails(p) PROVE FeedTypeOK'
    BY <1>7 DEF CreateFails, FeedTypeOK
  <1>8. ASSUME NEW p \in Blog, ListFollowers(p) PROVE FeedTypeOK'
    BY <1>8 DEF ListFollowers, FeedTypeOK
  <1>9. ASSUME NEW p \in Blog, SaveChunk(p) PROVE FeedTypeOK'
    BY <1>9 DEF SaveChunk, FeedTypeOK
  <1>10. ASSUME NEW p \in Blog, ClearHome(p) PROVE FeedTypeOK'
    <2>1. PICK r \in to[p] : /\ Clear({r}, feed = "home")
                             /\ to' = [to EXCEPT ![p] = @ \ {r}]
                             /\ fan' = IF to[p] = {r} THEN [fan EXCEPT ![p] = "complete"] ELSE fan
      BY <1>10 DEF ClearHome
    <2>2. {r} \in SUBSET Readers
      BY DEF FeedTypeOK
    <2>3. page' \in [Readers -> [stored : BOOLEAN, posts : SUBSET Blog]] /\ late' \subseteq Readers
      BY <2>1, <2>2, ClearDoes
    <2> QED BY <1>10, <2>1, <2>3 DEF ClearHome, FeedTypeOK
  <1>11. ASSUME NEW p \in Blog, FanOutFails(p) PROVE FeedTypeOK'
    BY <1>11 DEF FanOutFails, FeedTypeOK
  <1>12. ASSUME NEW p \in Blog, DeletePost(p) PROVE FeedTypeOK'
    BY <1>12 DEF DeletePost, FeedTypeOK
  <1>13. ASSUME NEW p \in Blog, RemovePost(p) PROVE FeedTypeOK'
    <2>1. post' \in [Blog -> {"none", "live", "deleted"}]
      BY <1>13 DEF RemovePost, FeedTypeOK
    <2>2. remover' = [remover EXCEPT ![p] = "clear"] \/ remover' = [remover EXCEPT ![p] = "failed"]
      BY <1>13 DEF RemovePost
    <2>3. remover' \in [Blog -> {"none", "remove", "clear", "returned", "failed"}]
      BY <2>2 DEF FeedTypeOK
    <2> QED BY <1>13, <2>1, <2>3 DEF RemovePost, FeedTypeOK
  <1>14. ASSUME NEW p \in Blog, ClearAfterDelete(p) PROVE FeedTypeOK'
    <2>1. page' \in [Readers -> [stored : BOOLEAN, posts : SUBSET Blog]] /\ late' \subseteq Readers
      <3>1. Clear(Readers, feed = "user")
        BY <1>14 DEF ClearAfterDelete
      <3> QED BY <3>1, ClearDoes
    <2> QED BY <1>14, <2>1 DEF ClearAfterDelete, FeedTypeOK
  <1>15. ASSUME NEW r \in Readers, OpenFeed(r) PROVE FeedTypeOK'
    <2>1. fetch' = [fetch EXCEPT ![r] = [fetch[r] EXCEPT !.at = "miss"]]
      BY <1>15 DEF OpenFeed, FeedTypeOK
    <2> fetch[r] \in Asked
      BY DEF FeedTypeOK, Asked
    <2>2. [fetch[r] EXCEPT !.at = "miss"] \in Asked
      BY AskedStays
    <2>3. fetch' \in [Readers -> Asked]
      BY <2>1, <2>2 DEF FeedTypeOK, Asked
    <2> QED BY <1>15, <2>3 DEF OpenFeed, FeedTypeOK, Asked
  <1>16. ASSUME NEW r \in Readers, QueryItems(r) PROVE FeedTypeOK'
    <2>1. {p \in Blog : <<r, p>> \in item} \in SUBSET Blog
      OBVIOUS
    <2>2. fetch' = [fetch EXCEPT ![r] = [fetch[r] EXCEPT !.at = "items", !.items = {p \in Blog : <<r, p>> \in item}]]
      BY <1>16 DEF QueryItems, FeedTypeOK
    <2> fetch[r] \in Asked
      BY DEF FeedTypeOK, Asked
    <2>3. [fetch[r] EXCEPT !.at = "items", !.items = {p \in Blog : <<r, p>> \in item}] \in Asked
      BY <2>1, AskedStays
    <2>4. fetch' \in [Readers -> Asked]
      BY <2>2, <2>3 DEF FeedTypeOK, Asked
    <2> QED BY <1>16, <2>4 DEF QueryItems, FeedTypeOK, Asked
  <1>17. ASSUME NEW r \in Readers, QueryPosts(r) PROVE FeedTypeOK'
    BY <1>17 DEF QueryPosts, FeedTypeOK, Live
  <1>18. ASSUME NEW r \in Readers, StorePage(r) PROVE FeedTypeOK'
    <2> DEFINE stored == [stored |-> TRUE, posts |-> fetch[r].seen]
    <2>1. stored \in [stored : BOOLEAN, posts : SUBSET Blog]
      BY DEF FeedTypeOK
    <2>2. page' = [page EXCEPT ![r] = stored] \/ page' = page
      BY <1>18 DEF StorePage
    <2> HIDE DEF stored
    <2>3. page' \in [Readers -> [stored : BOOLEAN, posts : SUBSET Blog]]
      BY <2>1, <2>2 DEF FeedTypeOK
    <2> QED BY <1>18, <2>3 DEF StorePage, FeedTypeOK, NoFetch
  <1>19. ASSUME NEW r \in Readers, PageExpires(r) PROVE FeedTypeOK'
    BY <1>19 DEF PageExpires, FeedTypeOK, NoPage
  <1>20. CASE UNCHANGED fvars
    BY <1>20 DEF fvars, FeedTypeOK
  <1> QED BY <1>1, <1>2, <1>3, <1>4, <1>5, <1>6, <1>7, <1>8, <1>9, <1>10, <1>11, <1>12, <1>13, <1>14,
             <1>15, <1>16, <1>17, <1>18, <1>19, <1>20 DEF FeedNext

LEMMA TopicKeeps == FeedIInv /\ [FeedNext]_fvars => TopicInv'
  <1> SUFFICES ASSUME FeedIInv, [FeedNext]_fvars PROVE TopicInv'
    OBVIOUS
  <1>1. ASSUME NEW p \in Blog, CreatePost(p) PROVE TopicInv'
    <2> USE <1>1 DEF CreatePost, FeedIInv, FeedTypeOK, TopicInv
    <2>1. submission' = [submission EXCEPT ![p] = submission'[p]] /\ submission'[p] \in {"none", "flight"}
      BY DEF CreatePost
    <2>2. \A i \in DOMAIN onTopic : onTopic[i] # p
      OBVIOUS
    <2>3. /\ \A q \in Blog : maker'[q] = "none" => submission'[q] = "none"
          /\ \A q \in Blog : submission'[q] \in {"confirmed", "over"} => submission[q] = submission'[q]
          /\ \A q \in Blog \ {p} : submission'[q] = submission[q]
      BY <2>1
    <2>4. NumberIsItsPlace'
      BY DEF NumberIsItsPlace
    <2>5. \A i \in DOMAIN onTopic' : submission'[onTopic'[i]] \in {"confirmed", "over"}
      BY <2>2, <2>3
    <2> QED BY <2>3, <2>4, <2>5
  <1>2. ASSUME NEW p \in Blog, Consensus(p) PROVE TopicInv'
    <2> USE <1>2 DEF Consensus
    <2>1. /\ onTopic \in Seq(Blog) /\ onTopic' = Append(onTopic, p)
          /\ submission' = [submission EXCEPT ![p] = "confirmed"] /\ submission[p] = "flight"
          /\ UNCHANGED <<maker, number, early>>
      BY DEF FeedIInv, FeedTypeOK
    <2>2. /\ Len(onTopic) \in Nat /\ DOMAIN onTopic = 1 .. Len(onTopic)
          /\ DOMAIN onTopic' = 1 .. Len(onTopic) + 1 /\ onTopic'[Len(onTopic) + 1] = p
          /\ \A i \in DOMAIN onTopic : i \in DOMAIN onTopic' /\ onTopic'[i] = onTopic[i] /\ onTopic[i] \in Blog
          /\ \A i \in DOMAIN onTopic' : i \in DOMAIN onTopic \/ i = Len(onTopic) + 1
      BY <2>1
    <2>3. \A i \in DOMAIN onTopic : onTopic[i] # p
      BY <2>1 DEF FeedIInv, TopicInv
    <2>4. /\ \A q \in Blog \ {p} : submission'[q] = submission[q]
          /\ submission'[p] = "confirmed"
      BY <2>1 DEF FeedIInv, FeedTypeOK
    <2>5. \A q \in Blog : maker'[q] = "none" => submission'[q] = "none"
      BY <2>1, <2>4 DEF FeedIInv, TopicInv
    <2>6. \A i \in DOMAIN onTopic' : submission'[onTopic'[i]] \in {"confirmed", "over"}
      BY <2>2, <2>3, <2>4 DEF FeedIInv, TopicInv
    <2>7. \A i, j \in DOMAIN onTopic' : onTopic'[i] = onTopic'[j] => i = j
      BY <2>2, <2>3 DEF FeedIInv, TopicInv
    <2>8. \A q \in Blog : submission'[q] = "confirmed" => \E i \in DOMAIN onTopic' : onTopic'[i] = q
      <3>1. \E i \in DOMAIN onTopic' : onTopic'[i] = p
        BY <2>2
      <3>2. ASSUME NEW q \in Blog \ {p}, submission[q] = "confirmed" PROVE \E i \in DOMAIN onTopic' : onTopic'[i] = q
        BY <3>2, <2>2 DEF FeedIInv, TopicInv
      <3> QED BY <2>4, <3>1, <3>2
    <2>9. \A q \in Blog : submission'[q] = "over" /\ number'[q] = 0 => q \in early'
      BY <2>1, <2>4 DEF FeedIInv, TopicInv
    <2>10. NumberIsItsPlace'
      BY <2>1, <2>2 DEF FeedIInv, TopicInv, NumberIsItsPlace
    <2> QED BY <2>5, <2>6, <2>7, <2>8, <2>9, <2>10 DEF TopicInv
  <1>3. ASSUME NEW p \in Blog, UpdateNumber(p) \/ SubmissionFails(p) PROVE TopicInv'
    <2>1. /\ submission' = [submission EXCEPT ![p] = "over"] /\ submission[p] \in {"flight", "confirmed"}
          /\ UNCHANGED <<onTopic, maker>>
      BY <1>3 DEF UpdateNumber, SubmissionFails
    <2>2. /\ \A q \in Blog \ {p} : submission'[q] = submission[q]
          /\ submission'[p] = "over"
      BY <2>1 DEF FeedIInv, FeedTypeOK
    <2>3. /\ \A i \in DOMAIN onTopic : onTopic[i] \in Blog
          /\ DOMAIN onTopic = 1 .. Len(onTopic) /\ Len(onTopic) \in Nat
      BY DEF FeedIInv, FeedTypeOK
    <2>4. NumberIsItsPlace' /\ \A q \in Blog : submission'[q] = "over" /\ number'[q] = 0 => q \in early'
      <3>1. CASE UNCHANGED number /\ early' = early \cup {p}
        BY <2>1, <2>2, <3>1 DEF FeedIInv, TopicInv, NumberIsItsPlace
      <3>2. CASE UpdateNumber(p) /\ post[p] # "none"
        <4>1. number' = [number EXCEPT ![p] = Place(p)] /\ early' = early /\ submission[p] = "confirmed"
          BY <3>2 DEF UpdateNumber
        <4>2. Place(p) \in DOMAIN onTopic /\ onTopic[Place(p)] = p
          BY <4>1, PlaceIsThere DEF FeedIInv
        <4>3. number'[p] = Place(p) /\ number'[p] # 0 /\ \A q \in Blog \ {p} : number'[q] = number[q]
          BY <2>3, <4>1, <4>2 DEF FeedIInv, FeedTypeOK
        <4>4. NumberIsItsPlace'
          BY <2>1, <4>2, <4>3 DEF FeedIInv, TopicInv, NumberIsItsPlace
        <4> QED BY <2>2, <4>1, <4>3, <4>4 DEF FeedIInv, TopicInv
      <3> QED BY <1>3, <3>1, <3>2 DEF UpdateNumber, SubmissionFails
    <2>5. \A q \in Blog : maker'[q] = "none" => submission'[q] = "none"
      BY <2>1, <2>2 DEF FeedIInv, TopicInv
    <2>6. \A i \in DOMAIN onTopic' : submission'[onTopic'[i]] \in {"confirmed", "over"}
      BY <2>1, <2>2, <2>3 DEF FeedIInv, TopicInv
    <2>7. \A q \in Blog : submission'[q] = "confirmed" => \E i \in DOMAIN onTopic' : onTopic'[i] = q
      BY <2>1, <2>2 DEF FeedIInv, TopicInv
    <2> QED BY <2>1, <2>4, <2>5, <2>6, <2>7 DEF FeedIInv, TopicInv
  <1>4. CASE /\ UNCHANGED <<onTopic, submission, number, early>>
             /\ \A p \in Blog : maker'[p] = "none" => maker[p] = "none"
    BY <1>4 DEF FeedIInv, TopicInv, NumberIsItsPlace
  <1>5. ASSUME NEW p \in Blog, SavePost(p) \/ ClearAfterCreate(p) \/ CreateFails(p) PROVE TopicInv'
    <2>1. UNCHANGED <<onTopic, submission, number, early>>
      BY <1>5 DEF SavePost, ClearAfterCreate, CreateFails
    <2>2. \A q \in Blog : maker'[q] = "none" => maker[q] = "none"
      <3>1. \E m \in {"clearUser", "clearTrending", "returned", "failed"} : maker' = [maker EXCEPT ![p] = m]
        BY <1>5 DEF SavePost, ClearAfterCreate, CreateFails
      <3> QED BY <3>1 DEF FeedIInv, FeedTypeOK
    <2> QED BY <1>4, <2>1, <2>2
  <1>6. ASSUME NEW p \in Blog, ListFollowers(p) \/ SaveChunk(p) \/ ClearHome(p) \/ FanOutFails(p) PROVE TopicInv'
    BY <1>4, <1>6 DEF ListFollowers, SaveChunk, ClearHome, FanOutFails
  <1>7. ASSUME NEW p \in Blog, DeletePost(p) \/ RemovePost(p) \/ ClearAfterDelete(p) PROVE TopicInv'
    BY <1>4, <1>7 DEF DeletePost, RemovePost, ClearAfterDelete
  <1>8. ASSUME NEW r \in Readers, OpenFeed(r) \/ QueryItems(r) \/ QueryPosts(r) \/ StorePage(r) \/ PageExpires(r)
        PROVE  TopicInv'
    BY <1>4, <1>8 DEF OpenFeed, QueryItems, QueryPosts, StorePage, PageExpires
  <1>9. CASE UNCHANGED fvars
    BY <1>4, <1>9 DEF fvars
  <1> QED BY <1>1, <1>2, <1>3, <1>5, <1>6, <1>7, <1>8, <1>9 DEF FeedNext

LEMMA RowsKeeps == FeedIInv /\ [FeedNext]_fvars => RowsInv'
  <1> SUFFICES ASSUME FeedIInv, [FeedNext]_fvars PROVE RowsInv'
    OBVIOUS
  <1> USE DEF FeedIInv, FeedTypeOK, RowsInv
  <1>1. CASE UNCHANGED <<post, maker, fan, remover, item>>
    BY <1>1
  <1>2. ASSUME NEW p \in Blog, CreatePost(p) \/ CreateFails(p) PROVE RowsInv'
    <2>1. /\ maker[p] \in {"none", "save"} /\ UNCHANGED <<post, fan, remover, item>>
          /\ maker'[p] \in {"save", "failed"} /\ \A q \in Blog \ {p} : maker'[q] = maker[q]
      BY <1>2 DEF CreatePost, CreateFails
    <2> QED BY <2>1
  <1>3. ASSUME NEW p \in Blog, SavePost(p) PROVE RowsInv'
    BY <1>3 DEF SavePost
  <1>4. ASSUME NEW p \in Blog, ClearAfterCreate(p) PROVE RowsInv'
    BY <1>4 DEF ClearAfterCreate
  <1>5. ASSUME NEW p \in Blog, ListFollowers(p) PROVE RowsInv'
    BY <1>5 DEF ListFollowers
  <1>6. ASSUME NEW p \in Blog, SaveChunk(p) PROVE RowsInv'
    BY <1>6 DEF SaveChunk
  <1>7. ASSUME NEW p \in Blog, ClearHome(p) \/ FanOutFails(p) PROVE RowsInv'
    <2>1. /\ fan[p] \notin {"none"} /\ UNCHANGED <<post, maker, remover, item>>
          /\ fan'[p] \notin {"none", "list"} /\ \A q \in Blog \ {p} : fan'[q] = fan[q]
      <3>1. CASE ClearHome(p)
        BY <3>1 DEF ClearHome
      <3>2. CASE FanOutFails(p)
        BY <3>2 DEF FanOutFails
      <3> QED BY <1>7, <3>1, <3>2
    <2> QED BY <2>1
  <1>8. ASSUME NEW p \in Blog, DeletePost(p) PROVE RowsInv'
    BY <1>8 DEF DeletePost
  <1>9. ASSUME NEW p \in Blog, RemovePost(p) PROVE RowsInv'
    BY <1>9 DEF RemovePost
  <1>10. ASSUME NEW p \in Blog, ClearAfterDelete(p) PROVE RowsInv'
    BY <1>10 DEF ClearAfterDelete
  <1>11. ASSUME NEW p \in Blog, Consensus(p) \/ UpdateNumber(p) \/ SubmissionFails(p) PROVE RowsInv'
    BY <1>1, <1>11 DEF Consensus, UpdateNumber, SubmissionFails
  <1>12. ASSUME NEW r \in Readers, OpenFeed(r) \/ QueryItems(r) \/ QueryPosts(r) \/ StorePage(r) \/ PageExpires(r)
         PROVE  RowsInv'
    BY <1>1, <1>12 DEF OpenFeed, QueryItems, QueryPosts, StorePage, PageExpires
  <1>13. CASE UNCHANGED fvars
    BY <1>1, <1>13 DEF fvars
  <1> QED BY <1>2, <1>3, <1>4, <1>5, <1>6, <1>7, <1>8, <1>9, <1>10, <1>11, <1>12, <1>13 DEF FeedNext

\* createPost and deletePost only take cached pages away, and what is live.
LEMMA WritesDo ==
    ASSUME FeedIInv, NEW p \in Blog, ClearAfterCreate(p) \/ ClearAfterDelete(p)
    PROVE  /\ late \subseteq late'
           /\ \A r \in Readers : page'[r] = page[r] \/ page'[r] = NoPage
  <1> DEFINE applies == maker[p] = IF feed = "user" THEN "clearUser"
                                   ELSE IF feed = "trending" THEN "clearTrending" ELSE ""
  <1>1. applies \in BOOLEAN
    OBVIOUS
  <1>2. Clear(Readers, applies) \/ Clear(Readers, feed = "user")
    BY DEF ClearAfterCreate, ClearAfterDelete
  <1> HIDE DEF applies
  <1> QED BY <1>1, <1>2, ClearDoes DEF FeedIInv

LEMMA HomeCalm ==
    ASSUME FeedIInv, UNCHANGED <<feed, item, to, fan, fetch>>, Live' \subseteq Live, late \subseteq late',
           \A r \in Readers : page'[r] = page[r] \/ page'[r] = NoPage
    PROVE  HomeInv'
  <1> SUFFICES ASSUME feed = "home", NEW r \in Readers
               PROVE  /\ page'[r].posts \cup fetch'[r].items \cup fetch'[r].seen \subseteq Owned(r)'
                      /\ \A p \in (Live \cap Owned(r))' :
                            r \notin late' /\ fan'[p] # "failed" /\ Without(r, p)'
                            => r \in to'[p] /\ fan'[p] \in {"items", "clear"}
    BY DEF HomeInv
  <1>1. Owned(r)' = Owned(r) /\ fetch'[r] = fetch[r] /\ fan' = fan /\ to' = to
    BY DEF Owned
  <1>2. page'[r].posts \subseteq page[r].posts
    BY DEF NoPage
  <1>3. \A p \in Blog : Without(r, p)' => Without(r, p)
    BY DEF Without, NoPage, Shows
  <1> QED BY <1>1, <1>2, <1>3 DEF FeedIInv, HomeInv, Live

LEMMA HomeKeeps == FeedIInv /\ [FeedNext]_fvars => HomeInv'
  <1> SUFFICES ASSUME FeedIInv, [FeedNext]_fvars PROVE HomeInv'
    OBVIOUS
  <1>1. ASSUME NEW p \in Blog, CreatePost(p) \/ Consensus(p) \/ UpdateNumber(p) \/ SubmissionFails(p) \/ CreateFails(p)
        PROVE  HomeInv'
    <2>1. UNCHANGED <<feed, post, item, to, fan, fetch, late, page>>
      BY <1>1 DEF CreatePost, Consensus, UpdateNumber, SubmissionFails, CreateFails
    <2> QED BY <2>1, HomeCalm DEF Live
  <1>2. ASSUME NEW p \in Blog, ClearAfterCreate(p) \/ ClearAfterDelete(p) PROVE HomeInv'
    <2>1. UNCHANGED <<feed, post, item, to, fan, fetch>>
      BY <1>2 DEF ClearAfterCreate, ClearAfterDelete
    <2> QED BY <1>2, <2>1, HomeCalm, WritesDo DEF Live
  <1>3. ASSUME NEW p \in Blog, DeletePost(p) \/ RemovePost(p) PROVE HomeInv'
    <2>1. UNCHANGED <<feed, item, to, fan, fetch, late, page>>
      BY <1>3 DEF DeletePost, RemovePost
    <2>2. Live' \subseteq Live
      BY <1>3 DEF DeletePost, RemovePost, Live, FeedIInv, FeedTypeOK
    <2> QED BY <2>1, <2>2, HomeCalm
  <1>4. SUFFICES ASSUME feed' = "home", NEW r \in Readers
                 PROVE  /\ page'[r].posts \cup fetch'[r].items \cup fetch'[r].seen \subseteq Owned(r)'
                        /\ \A q \in (Live \cap Owned(r))' :
                              r \notin late' /\ fan'[q] # "failed" /\ Without(r, q)'
                              => r \in to'[q] /\ fan'[q] \in {"items", "clear"}
    BY <1>1, <1>2, <1>3 DEF HomeInv
  <1> DEFINE Goal == /\ page'[r].posts \cup fetch'[r].items \cup fetch'[r].seen \subseteq Owned(r)'
                     /\ \A q \in (Live \cap Owned(r))' :
                           r \notin late' /\ fan'[q] # "failed" /\ Without(r, q)'
                           => r \in to'[q] /\ fan'[q] \in {"items", "clear"}
  <1>5. feed = "home"
    BY <1>4 DEF FeedNext, fvars, CreatePost, Consensus, UpdateNumber, SubmissionFails, SavePost, ClearAfterCreate,
                CreateFails, ListFollowers, SaveChunk, ClearHome, FanOutFails, DeletePost, RemovePost,
                ClearAfterDelete, OpenFeed, QueryItems, QueryPosts, StorePage, PageExpires
  <1>6. /\ page[r].posts \cup fetch[r].items \cup fetch[r].seen \subseteq Owned(r)
        /\ \A q \in Live \cap Owned(r) :
              r \notin late /\ fan[q] # "failed" /\ Without(r, q)
              => r \in to[q] /\ fan[q] \in {"items", "clear"}
    BY <1>5 DEF FeedIInv, HomeInv
  <1>7. ASSUME NEW p \in Blog, SavePost(p) PROVE Goal
    <2>1. /\ UNCHANGED <<to, item, page, fetch, late>> /\ post' = [post EXCEPT ![p] = "live"] /\ post[p] = "none"
          /\ fan' = [fan EXCEPT ![p] = "list"]
      BY <1>7 DEF SavePost, FeedIInv, RowsInv
    <2>2. p \notin Owned(r)
      BY <2>1 DEF FeedIInv, RowsInv, Owned
    <2>3. Owned(r)' = Owned(r) /\ Live' = Live \cup {p} /\ \A q \in Blog : Without(r, q)' = Without(r, q)
      BY <2>1 DEF Owned, Live, Without, Shows, FeedIInv, FeedTypeOK
    <2>4. \A q \in Blog \ {p} : fan'[q] = fan[q]
      BY <2>1 DEF FeedIInv, FeedTypeOK
    <2> QED BY <1>6, <2>1, <2>2, <2>3, <2>4 DEF Live
  <1>8. ASSUME NEW p \in Blog, ListFollowers(p) \/ FanOutFails(p) PROVE Goal
    <2>1. /\ UNCHANGED <<post, item, page, fetch, late>>
          /\ \A q \in Blog \ {p} : fan'[q] = fan[q] /\ to'[q] = to[q]
          /\ fan[p] = "list" \/ fan'[p] = "failed"
      BY <1>8 DEF ListFollowers, FanOutFails, FeedIInv, FeedTypeOK
    <2>2. fan[p] = "list" => p \notin Owned(r)
      BY DEF FeedIInv, RowsInv, Owned
    <2>3. Owned(r)' = Owned(r) /\ Live' = Live /\ \A q \in Blog : Without(r, q)' = Without(r, q)
      BY <2>1 DEF Owned, Live, Without, Shows
    <2> QED BY <1>6, <2>1, <2>2, <2>3 DEF Live
  <1>9. ASSUME NEW p \in Blog, SaveChunk(p) PROVE Goal
    <2>1. PICK s \in to[p] : item' = item \cup {<<s, p>>}
      BY <1>9 DEF SaveChunk
    <2>2. /\ UNCHANGED <<post, to, page, fetch, late>> /\ fan[p] = "items" /\ fan'[p] \in {"items", "clear"}
          /\ \A q \in Blog \ {p} : fan'[q] = fan[q]
      BY <1>9 DEF SaveChunk, FeedIInv, FeedTypeOK
    <2>3. Owned(r) \subseteq Owned(r)' /\ \A q \in Owned(r)' \ Owned(r) : q = p /\ r = s
      BY <2>1 DEF Owned
    <2>4. Live' = Live /\ \A q \in Blog : Without(r, q)' = Without(r, q)
      BY <2>2 DEF Live, Without, Shows
    <2> QED BY <1>6, <2>1, <2>2, <2>3, <2>4 DEF Live
  <1>10. ASSUME NEW p \in Blog, ClearHome(p) PROVE Goal
    <2>1. PICK s \in to[p] : /\ Clear({s}, feed = "home")
                             /\ to' = [to EXCEPT ![p] = @ \ {s}]
                             /\ fan' = IF to[p] = {s} THEN [fan EXCEPT ![p] = "complete"] ELSE fan
      BY <1>10 DEF ClearHome
    <2>2. UNCHANGED <<post, item, fetch>> /\ fan[p] = "clear"
      BY <1>10 DEF ClearHome
    <2>3. {s} \in SUBSET Readers
      BY DEF FeedIInv, FeedTypeOK
    <2>4. /\ late \subseteq late' /\ \A x \in Readers : page'[x] = page[x] \/ page'[x] = NoPage
          /\ \A x \in {s} \ late' : page'[x] = NoPage /\ fetch[x].at = "none"
      BY <1>5, <2>1, <2>3, ClearDoes DEF FeedIInv
    <2>5. Owned(r)' = Owned(r) /\ Live' = Live /\ page'[r].posts \subseteq page[r].posts
      BY <2>2, <2>4 DEF Owned, Live, NoPage
    <2>6. \A q \in Blog : Without(r, q)' => Without(r, q)
      BY <2>2, <2>4 DEF Without, NoPage, Shows
    <2>7. \A q \in Blog : r \notin late' /\ Without(r, q)' => r # s
      BY <2>2, <2>4 DEF Without, NoPage
    <2>8. \A q \in Blog : r # s /\ r \in to[q] => r \in to'[q] /\ fan'[q] = fan[q]
      BY <2>1 DEF FeedIInv, FeedTypeOK
    <2>9. \A q \in Blog : fan'[q] # "failed" => fan[q] # "failed"
      BY <2>1, <2>2 DEF FeedIInv, FeedTypeOK
    <2> QED BY <1>6, <2>2, <2>4, <2>5, <2>6, <2>7, <2>8, <2>9 DEF Live
  <1>11. ASSUME NEW s \in Readers, OpenFeed(s) PROVE Goal
    <2>1. /\ UNCHANGED <<post, fan, to, item, page, late>> /\ fetch' = [fetch EXCEPT ![s].at = "miss"] /\ fetch[s] = NoFetch
      BY <1>11 DEF OpenFeed
    <2>2. /\ fetch'[r].items = fetch[r].items /\ fetch'[r].seen = fetch[r].seen
          /\ fetch'[r].at \in {"store", "items"} => fetch'[r].at = fetch[r].at
      BY <2>1 DEF FeedIInv, FeedTypeOK
    <2>3. Owned(r)' = Owned(r) /\ Live' = Live /\ \A q \in Blog : Without(r, q)' => Without(r, q)
      BY <2>1, <2>2 DEF Owned, Live, Without, Shows
    <2> QED BY <1>6, <2>1, <2>2, <2>3 DEF Live
  <1>12. ASSUME NEW s \in Readers, QueryItems(s) PROVE Goal
    <2>1. /\ UNCHANGED <<post, fan, to, item, page, late>>
          /\ fetch' = [fetch EXCEPT ![s] = [@ EXCEPT !.at = "items", !.items = Owned(s)]]
      BY <1>12 DEF QueryItems, Owned
    <2>2. CASE r # s
      <3>1. fetch'[r] = fetch[r]
        BY <2>1, <2>2 DEF FeedIInv, FeedTypeOK
      <3>2. Owned(r)' = Owned(r) /\ Live' = Live /\ \A q \in Blog : Without(r, q)' = Without(r, q)
        BY <2>1, <3>1 DEF Owned, Live, Without, Shows
      <3> QED BY <1>6, <2>1, <3>1, <3>2 DEF Live
    <2>3. CASE r = s
      <3>1. fetch'[r].at = "items" /\ fetch'[r].items = Owned(r) /\ fetch'[r].seen = fetch[r].seen
        BY <2>1, <2>3 DEF FeedIInv, FeedTypeOK
      <3>2. Owned(r)' = Owned(r) /\ Live' = Live /\ \A q \in Owned(r) : Without(r, q)' => Without(r, q)
        BY <2>1, <3>1 DEF Owned, Live, Without, Shows
      <3> QED BY <1>6, <2>1, <3>1, <3>2 DEF Live
    <2> QED BY <2>2, <2>3
  <1>13. ASSUME NEW s \in Readers, QueryPosts(s) PROVE Goal
    <2>1. /\ UNCHANGED <<post, fan, to, item, page, late>> /\ fetch[s].at = "items"
          /\ fetch' = [fetch EXCEPT ![s] = [at |-> "store", items |-> {}, seen |-> Live \cap fetch[s].items]]
      BY <1>5, <1>13 DEF QueryPosts
    <2>2. CASE r # s
      <3>1. fetch'[r] = fetch[r]
        BY <2>1, <2>2 DEF FeedIInv, FeedTypeOK
      <3>2. Owned(r)' = Owned(r) /\ Live' = Live /\ \A q \in Blog : Without(r, q)' = Without(r, q)
        BY <2>1, <3>1 DEF Owned, Live, Without, Shows
      <3> QED BY <1>6, <2>1, <3>1, <3>2 DEF Live
    <2>3. CASE r = s
      <3>1. fetch'[r].at = "store" /\ fetch'[r].items = {} /\ fetch'[r].seen = Live \cap fetch[r].items
        BY <2>1, <2>3 DEF FeedIInv, FeedTypeOK
      <3>2. Owned(r)' = Owned(r) /\ Live' = Live
        BY <2>1 DEF Owned, Live
      <3>3. \A q \in Live : Without(r, q)' => Without(r, q)
        BY <2>1, <2>3, <3>1 DEF Without, Shows
      <3> QED BY <1>6, <2>1, <3>1, <3>2, <3>3 DEF Live
    <2> QED BY <2>2, <2>3
  <1>14. ASSUME NEW s \in Readers, StorePage(s) PROVE Goal
    <2>1. /\ UNCHANGED <<post, fan, to, item, late>> /\ fetch[s].at = "store" /\ fetch' = [fetch EXCEPT ![s] = NoFetch]
          /\ page' = page \/ page' = [page EXCEPT ![s] = [stored |-> TRUE, posts |-> fetch[s].seen]]
      BY <1>14 DEF StorePage
    <2>2. /\ r # s => fetch'[r] = fetch[r] /\ page'[r] = page[r]
          /\ r = s => fetch'[r] = NoFetch
          /\ page'[r] = page[r] \/ (r = s /\ page'[r].posts = fetch[r].seen /\ fetch[r].at = "store")
      BY <2>1 DEF FeedIInv, FeedTypeOK
    <2>3. Owned(r)' = Owned(r) /\ Live' = Live
      BY <2>1 DEF Owned, Live
    <2>4. \A q \in Blog : Without(r, q)' => Without(r, q)
      BY <2>2 DEF Without, Shows, NoFetch
    <2>5. page'[r].posts \cup fetch'[r].items \cup fetch'[r].seen \subseteq Owned(r)
      BY <1>6, <2>2 DEF NoFetch
    <2> QED BY <1>6, <2>1, <2>3, <2>4, <2>5 DEF Live
  <1>15. ASSUME NEW s \in Readers, PageExpires(s) PROVE Goal
    <2>1. /\ UNCHANGED <<post, fan, to, item, fetch>> /\ fetch[s] = NoFetch
          /\ page' = [page EXCEPT ![s] = NoPage] /\ late' = late \ {s}
      BY <1>15 DEF PageExpires
    <2>2. /\ r # s => page'[r] = page[r]
          /\ r = s => page'[r] = NoPage /\ fetch[r] = NoFetch
      BY <2>1 DEF FeedIInv, FeedTypeOK
    <2>3. Owned(r)' = Owned(r) /\ Live' = Live /\ page'[r].posts \subseteq page[r].posts
      BY <2>1, <2>2 DEF Owned, Live, NoPage
    <2>4. \A q \in Blog : Without(r, q)' => Without(r, q) /\ r # s
      BY <2>1, <2>2 DEF Without, Shows, NoFetch, NoPage
    <2> QED BY <1>6, <2>1, <2>3, <2>4 DEF Live
  <1>16. ASSUME UNCHANGED fvars PROVE Goal
    <2>1. UNCHANGED <<post, fan, to, item, fetch, page, late>>
      BY <1>16 DEF fvars
    <2>2. Owned(r)' = Owned(r) /\ Live' = Live /\ \A q \in Blog : Without(r, q)' = Without(r, q)
      BY <2>1 DEF Owned, Live, Without, Shows
    <2> QED BY <1>6, <2>1, <2>2 DEF Live
  <1>17. HomeInv' => Goal
    BY <1>4 DEF HomeInv
  <1> HIDE DEF Goal
  <1>18. Goal
    BY <1>1, <1>2, <1>3, <1>7, <1>8, <1>9, <1>10, <1>11, <1>12, <1>13, <1>14, <1>15, <1>16, <1>17 DEF FeedNext
  <1> QED BY <1>18 DEF Goal

\* Pages that are only taken away, by a step that clears and makes nothing: nothing is missed.
LEMMA OwnCalm ==
    ASSUME FeedIInv, UNCHANGED <<feed, fetch>>, Live' \subseteq Live, late \subseteq late',
           \A r \in Readers : page'[r] = page[r] \/ page'[r] = NoPage,
           \A p \in Live' : Cleared(p)' => Cleared(p),
           \A p \in Blog : remover'[p] = "returned" => remover[p] = "returned"
    PROVE  OwnInv'
  <1> SUFFICES ASSUME NEW r \in Readers \ late', NEW p \in Blog
               PROVE  /\ feed \in {"user", "trending"} /\ Cleared(p)' /\ p \in Live'
                         => /\ page'[r].stored => Shows(r, p)'
                            /\ fetch[r].at = "store" => p \in fetch[r].seen
                      /\ feed = "user" /\ remover'[p] = "returned"
                         => /\ page'[r].stored => ~Shows(r, p)'
                            /\ fetch[r].at = "store" => p \notin fetch[r].seen
    BY DEF OwnInv
  <1>1. page'[r].stored => page'[r] = page[r]
    BY DEF NoPage
  <1>2. page'[r].stored => Shows(r, p)' = Shows(r, p)
    BY <1>1 DEF Shows
  <1> QED BY <1>1, <1>2 DEF FeedIInv, OwnInv

\* Of a reader whose page is neither stored nor on its way there is nothing to say.
LEMMA OwnAway ==
    ASSUME \A r \in Readers \ late' : ~page'[r].stored /\ fetch'[r].at # "store"
    PROVE  OwnInv'
  BY DEF OwnInv

LEMMA OwnKeeps == FeedIInv /\ [FeedNext]_fvars => OwnInv'
  <1> SUFFICES ASSUME FeedIInv, [FeedNext]_fvars PROVE OwnInv'
    OBVIOUS
  <1>1. ASSUME NEW p \in Blog, CreatePost(p) \/ Consensus(p) \/ UpdateNumber(p) \/ SubmissionFails(p) \/ CreateFails(p)
        PROVE  OwnInv'
    <2>1. UNCHANGED <<feed, post, fetch, late, page, remover>>
      BY <1>1 DEF CreatePost, Consensus, UpdateNumber, SubmissionFails, CreateFails
    <2>2. \A q \in Blog : maker'[q] = maker[q] \/ maker'[q] \in {"save", "failed"}
      BY <1>1 DEF CreatePost, Consensus, UpdateNumber, SubmissionFails, CreateFails, FeedIInv, FeedTypeOK
    <2>3. \A q \in Blog : Cleared(q)' => Cleared(q)
      BY <2>1, <2>2 DEF Cleared
    <2> QED BY <2>1, <2>3, OwnCalm DEF Live
  <1>2. ASSUME NEW p \in Blog, SavePost(p) PROVE OwnInv'
    <2>1. UNCHANGED <<feed, fetch, late, page, remover>> /\ post' = [post EXCEPT ![p] = "live"]
          /\ maker' = [maker EXCEPT ![p] = "clearUser"]
      BY <1>2 DEF SavePost
    <2>2. ~Cleared(p)' /\ \A q \in Blog \ {p} : Cleared(q)' = Cleared(q) /\ (q \in Live' <=> q \in Live)
      BY <2>1 DEF Cleared, Live, FeedIInv, FeedTypeOK
    <2> QED BY <2>1, <2>2 DEF FeedIInv, OwnInv, Shows
  <1>3. ASSUME NEW p \in Blog, ClearAfterCreate(p) PROVE OwnInv'
    <2> DEFINE applies == maker[p] = IF feed = "user" THEN "clearUser"
                                     ELSE IF feed = "trending" THEN "clearTrending" ELSE ""
    <2>1. /\ UNCHANGED <<feed, post, fetch, remover>> /\ maker[p] \in {"clearUser", "clearTrending"}
          /\ maker' = [maker EXCEPT ![p] = IF @ = "clearUser" THEN "clearTrending" ELSE "returned"]
          /\ Clear(Readers, applies)
      BY <1>3 DEF ClearAfterCreate
    <2>2. CASE applies
      <3>1. \A r \in Readers \ late' : page'[r] = NoPage /\ fetch[r].at = "none"
        BY <2>1, <2>2, ClearDoes DEF FeedIInv
      <3>2. fetch' = fetch
        BY <2>1
      <3> QED BY <3>1, <3>2, OwnAway DEF NoPage
    <2>3. CASE ~applies
      <3>1. \A q \in Blog \ {p} : maker'[q] = maker[q]
        BY <2>1 DEF FeedIInv, FeedTypeOK
      <3>2. maker'[p] = IF maker[p] = "clearUser" THEN "clearTrending" ELSE "returned"
        BY <2>1 DEF FeedIInv, FeedTypeOK
      <3>3. feed \in {"home", "user", "trending", "topic"}
        BY DEF FeedIInv, FeedTypeOK, Feeds
      <3>4. feed \in {"user", "trending"} => (Cleared(p)' => Cleared(p))
        <4>1. feed = "user" => maker[p] # "clearUser"
          BY <2>3
        <4>2. feed = "trending" => maker[p] # "clearTrending"
          BY <2>3
        <4>3. feed' = feed /\ maker[p] \in {"clearUser", "clearTrending"}
          BY <2>1
        <4> HIDE DEF applies
        <4>4. ASSUME feed = "user" PROVE Cleared(p)
          BY <4>1, <4>3, <4>4 DEF Cleared
        <4>5. ASSUME feed = "trending" PROVE ~Cleared(p)'
          BY <3>2, <4>2, <4>3, <4>5 DEF Cleared
        <4> QED BY <4>4, <4>5
      <3>5. \A q \in Blog \ {p} : Cleared(q)' => Cleared(q)
        BY <2>1, <3>1 DEF Cleared
      <3>6. late \subseteq late' /\ \A r \in Readers : page'[r] = page[r] \/ page'[r] = NoPage
        BY <1>3, WritesDo
      <3>7. CASE feed \in {"user", "trending"}
        BY <2>1, <3>4, <3>5, <3>6, <3>7, OwnCalm DEF Live
      <3>8. CASE feed \notin {"user", "trending"}
        BY <2>1, <3>8 DEF OwnInv
      <3> QED BY <3>7, <3>8
    <2> QED BY <2>2, <2>3
  <1>4. ASSUME NEW p \in Blog, ListFollowers(p) \/ SaveChunk(p) \/ FanOutFails(p) PROVE OwnInv'
    <2>1. UNCHANGED <<feed, post, fetch, late, page, remover, maker>>
      BY <1>4 DEF ListFollowers, SaveChunk, FanOutFails
    <2> QED BY <2>1, OwnCalm DEF Live, Cleared
  <1>5. ASSUME NEW p \in Blog, ClearHome(p) PROVE OwnInv'
    <2>1. PICK s \in to[p] : Clear({s}, feed = "home")
      BY <1>5 DEF ClearHome
    <2>2. {s} \in SUBSET Readers
      BY DEF FeedIInv, FeedTypeOK
    <2>3. late \subseteq late' /\ \A r \in Readers : page'[r] = page[r] \/ page'[r] = NoPage
      BY <2>1, <2>2, ClearDoes DEF FeedIInv
    <2>4. UNCHANGED <<feed, post, fetch, remover, maker>>
      BY <1>5 DEF ClearHome
    <2> QED BY <2>3, <2>4, OwnCalm DEF Live, Cleared
  <1>6. ASSUME NEW p \in Blog, DeletePost(p) \/ RemovePost(p) PROVE OwnInv'
    <2>1. UNCHANGED <<feed, maker, fetch, late, page>>
      BY <1>6 DEF DeletePost, RemovePost
    <2>2. Live' \subseteq Live
      BY <1>6 DEF DeletePost, RemovePost, Live, FeedIInv, FeedTypeOK
    <2>3. \A q \in Blog : remover'[q] = remover[q] \/ remover'[q] \in {"remove", "clear", "failed"}
      <3>1. CASE DeletePost(p)
        BY <3>1 DEF DeletePost, FeedIInv, FeedTypeOK
      <3>2. CASE RemovePost(p)
        <4>1. remover' = [remover EXCEPT ![p] = "clear"] \/ remover' = [remover EXCEPT ![p] = "failed"]
          BY <3>2 DEF RemovePost
        <4> QED BY <4>1 DEF FeedIInv, FeedTypeOK
      <3> QED BY <1>6, <3>1, <3>2
    <2> QED BY <2>1, <2>2, <2>3, OwnCalm DEF Cleared
  <1>7. ASSUME NEW p \in Blog, ClearAfterDelete(p) PROVE OwnInv'
    <2>1. /\ UNCHANGED <<feed, post, fetch, maker>> /\ Clear(Readers, feed = "user")
      BY <1>7 DEF ClearAfterDelete
    <2>2. CASE feed = "user"
      <3>1. \A r \in Readers \ late' : page'[r] = NoPage /\ fetch[r].at = "none"
        BY <2>1, <2>2, ClearDoes DEF FeedIInv
      <3> QED BY <2>1, <3>1, OwnAway DEF NoPage
    <2>3. CASE feed # "user"
      <3>1. late \subseteq late' /\ \A r \in Readers : page'[r] = page[r] \/ page'[r] = NoPage
        BY <1>7, WritesDo
      <3>2. \A r \in Readers : page'[r].stored => page'[r] = page[r]
        BY <3>1 DEF NoPage
      <3> QED BY <2>1, <2>3, <3>1, <3>2 DEF FeedIInv, OwnInv, Shows, Live, Cleared
    <2> QED BY <2>2, <2>3
  <1>8. ASSUME NEW s \in Readers, OpenFeed(s) \/ QueryItems(s) PROVE OwnInv'
    <2>1. UNCHANGED <<feed, post, maker, remover, page, late>>
      BY <1>8 DEF OpenFeed, QueryItems
    <2>2. \A r \in Readers \ {s} : fetch'[r] = fetch[r]
      BY <1>8 DEF OpenFeed, QueryItems, FeedIInv, FeedTypeOK
    <2>3. fetch'[s].at # "store"
      <3>1. CASE OpenFeed(s)
        BY <3>1 DEF OpenFeed, FeedIInv, FeedTypeOK
      <3>2. CASE QueryItems(s)
        BY <3>2 DEF QueryItems, FeedIInv, FeedTypeOK
      <3> QED BY <1>8, <3>1, <3>2
    <2> QED BY <2>1, <2>2, <2>3 DEF FeedIInv, OwnInv, Shows, Live, Cleared
  <1>9. ASSUME NEW s \in Readers, QueryPosts(s) PROVE OwnInv'
    <2>1. CASE feed = "home"
      BY <1>9, <2>1 DEF QueryPosts, OwnInv
    <2>2. CASE feed # "home"
      <3>1. /\ UNCHANGED <<feed, post, maker, remover, page, late>>
            /\ fetch' = [fetch EXCEPT ![s] = [at |-> "store", items |-> {}, seen |-> Live]]
        BY <1>9, <2>2 DEF QueryPosts
      <3>2. \A r \in Readers : fetch'[r] = fetch[r] \/ fetch'[r].seen = Live
        BY <3>1 DEF FeedIInv, FeedTypeOK
      <3>3. \A p \in Blog : remover[p] = "returned" => p \notin Live
        BY DEF FeedIInv, RowsInv, Live
      <3>4. ASSUME NEW r \in Readers \ late, NEW p \in Blog
            PROVE  /\ feed \in {"user", "trending"} /\ Cleared(p) /\ p \in Live
                      => /\ page[r].stored => Shows(r, p)
                         /\ fetch'[r].at = "store" => p \in fetch'[r].seen
                   /\ feed = "user" /\ remover[p] = "returned"
                      => /\ page[r].stored => ~Shows(r, p)
                         /\ fetch'[r].at = "store" => p \notin fetch'[r].seen
        BY <3>2, <3>3 DEF FeedIInv, OwnInv
      <3>5. Live' = Live /\ \A p \in Blog : Cleared(p)' = Cleared(p) /\ \A r \in Readers : Shows(r, p)' = Shows(r, p)
        BY <3>1 DEF Live, Cleared, Shows
      <3> QED BY <3>1, <3>4, <3>5 DEF OwnInv
    <2> QED BY <2>1, <2>2
  <1>10. ASSUME NEW s \in Readers, StorePage(s) PROVE OwnInv'
    <2>1. /\ UNCHANGED <<feed, post, maker, remover, late>> /\ fetch[s].at = "store" /\ fetch' = [fetch EXCEPT ![s] = NoFetch]
          /\ page' = page \/ page' = [page EXCEPT ![s] = [stored |-> TRUE, posts |-> fetch[s].seen]]
      BY <1>10 DEF StorePage
    <2>2. \A r \in Readers : /\ fetch'[r].at = "store" => fetch'[r] = fetch[r]
                             /\ page'[r] = page[r] \/ (fetch[r].at = "store" /\ page'[r].posts = fetch[r].seen)
      BY <2>1 DEF FeedIInv, FeedTypeOK, NoFetch
    <2>3. Live' = Live /\ \A p \in Blog : Cleared(p)' = Cleared(p)
      BY <2>1 DEF Live, Cleared
    <2> SUFFICES ASSUME NEW r \in Readers \ late, NEW p \in Blog
                 PROVE  /\ feed \in {"user", "trending"} /\ Cleared(p) /\ p \in Live
                           => /\ page'[r].stored => Shows(r, p)'
                              /\ fetch'[r].at = "store" => p \in fetch'[r].seen
                        /\ feed = "user" /\ remover[p] = "returned"
                           => /\ page'[r].stored => ~Shows(r, p)'
                              /\ fetch'[r].at = "store" => p \notin fetch'[r].seen
      BY <2>1, <2>3 DEF OwnInv
    <2> QED BY <2>2 DEF FeedIInv, OwnInv, Shows
  <1>11. ASSUME NEW s \in Readers, PageExpires(s) PROVE OwnInv'
    <2>1. /\ UNCHANGED <<feed, post, maker, remover, fetch>> /\ fetch[s] = NoFetch
          /\ page' = [page EXCEPT ![s] = NoPage] /\ late' = late \ {s}
      BY <1>11 DEF PageExpires
    <2>2. /\ ~page'[s].stored /\ fetch'[s].at # "store"
          /\ \A r \in Readers \ {s} : page'[r] = page[r]
      BY <2>1 DEF FeedIInv, FeedTypeOK, NoPage, NoFetch
    <2> QED BY <2>1, <2>2 DEF FeedIInv, OwnInv, Shows, Live, Cleared
  <1>12. CASE UNCHANGED fvars
    BY <1>12 DEF fvars, FeedIInv, OwnInv, Shows, Live, Cleared
  <1> QED BY <1>1, <1>2, <1>3, <1>4, <1>5, <1>6, <1>7, <1>8, <1>9, <1>10, <1>11, <1>12 DEF FeedNext

LEMMA FeedKeeps == FeedIInv /\ [FeedNext]_fvars => FeedIInv'
  BY FeedTypeKeeps, TopicKeeps, RowsKeeps, HomeKeeps, OwnKeeps DEF FeedIInv

\* The inductive invariant says what the feeds promise.
LEMMA FeedIs == FeedIInv => FeedInv
  <1> SUFFICES ASSUME FeedIInv PROVE FeedInv
    OBVIOUS
  <1>1. FeedTypeOK /\ NumberIsItsPlace /\ UnnumberedOnlyIfEarly
    BY DEF FeedIInv, TopicInv, UnnumberedOnlyIfEarly
  <1>2. HomeMissesOnlyIfLate
    BY DEF FeedIInv, HomeInv, HomeMissesOnlyIfLate, Owned, Without, Live
  <1>3. AuthorSeesOwnWrites
    BY DEF FeedIInv, OwnInv, AuthorSeesOwnWrites, Cleared, Live
  <1>4. HomeIsOfFollowed
    BY DEF FeedIInv, HomeInv, HomeIsOfFollowed, Owned, Shows
  <1> QED BY <1>1, <1>2, <1>3, <1>4 DEF FeedInv

\* What is shown of the posts, and under which number, however posts, fan-outs, deletions and
\* queries overlap (createPost, fanOutToFollowers, deletePost, getHomeFeed and the others).
THEOREM FeedInvHolds == FeedSpec => []FeedInv
  <1>1. FeedInit => FeedIInv
    BY FeedInitial
  <1>2. FeedIInv /\ [FeedNext]_fvars => FeedIInv'
    BY FeedKeeps
  <1>3. FeedIInv => FeedInv
    BY FeedIs
  <1> QED BY <1>1, <1>2, <1>3, PTL DEF FeedSpec

\* The run's specification, for every number of calls, transfers, posts and readers: the
\* feeds and the custody client keep their invariants side by side.
THEOREM LiveInvHolds == LiveSpec => []LiveInv
  <1> DEFINE I == CustodyIInv /\ FeedIInv
  <1>1. LiveSpec => LiveInit /\ [][LiveNext]_liveVars
    BY PTL DEF LiveSpec
  <1>2. LiveInit => I
    <2>1. LiveInit => TransferInit /\ FeedInit
      BY DEF LiveInit
    <2>2. TransferInit => CustodyIInv
      BY CustodyInitial
    <2> QED BY <2>1, <2>2, FeedInitial
  <1>3. I /\ [LiveNext]_liveVars => I'
    <2>1. [LiveNext]_liveVars => [TransferNext]_tvars /\ [FeedNext]_fvars
      BY DEF LiveNext, liveVars, tvars, fvars
    <2> QED BY <2>1, CustodyKeeps, FeedKeeps
  <1>4. I => LiveInv
    BY FeedIs DEF LiveInv, CustodyIInv
  <1> HIDE DEF I
  <1> QED BY <1>1, <1>2, <1>3, <1>4, PTL

================================================================================
