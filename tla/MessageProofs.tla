---- MODULE MessageProofs ----
(***************************************************************************)
(* The index of a conversation's messages is true to the topic, whatever   *)
(* sends, receipts, runs of the sync job and restarts overlap: for every   *)
(* number of messages, payments and runs, and every size of a batch.  The  *)
(* form of a profile says what is so, for every number of saves and checks *)
(* that overlap, and the page of a conversation keeps what was sent and    *)
(* seen, for every number of texts, conversations and fetches.             *)
(***************************************************************************)
EXTENDS MCMessages, FiniteSetTheorems, WellFoundedInduction, TLAPS

\* Every message is in the topic once; what does not name its sender has the operator's.
TopicInv ==
    /\ \A i, j \in DOMAIN topic : topic[i].src = topic[j].src => i = j
    /\ \A i \in DOMAIN topic : topic[i].src \notin Posts => topic[i].sender = Operator

\* How far each submission is: it starts after its row, and the receipt is for its message.
SubmissionInv ==
    /\ \A s \in Sends, i \in DOMAIN topic : topic[i].src = s => hcs[s] \in {"acked", "done", "failed"}
    /\ \A s \in Sends : hcs[s] = "acked" => ack[s] \in DOMAIN topic /\ topic[ack[s]].src = s
    /\ \A s \in Sends : pc[s] \in {"idle", "insert"} => hcs[s] = "none" /\ seqOf[s] = NoRow

\* The index and the mirror node know nothing that the topic does not have.
BoundsInv ==
    /\ mirrored <= Len(topic)
    /\ synced \subseteq DOMAIN topic

Listed(n) == IsPayment(n) \/ InIndex(n)

\* A run that is about to look at a number has passed over none that is missing, and a
\* placeholder that it is about to number is that of the payment's sender.
PassOf(q) ==
    LET p == pass[q] IN
    /\ p.at \in {"check", "lookup", "write"} =>
           /\ p.from < p.next /\ p.next <= p.upto /\ p.upto <= Len(topic)
           /\ \A n \in p.from + 1 .. p.next - 1 : Listed(n)
    /\ p.at = "finish" => \A n \in p.from + 1 .. p.upto : n \in DOMAIN topic /\ Listed(n)
    /\ p.at = "write" => \A s \in p.claim :
           IsPayment(p.next) /\ topic[p.next].sender = send[s].user /\ seqOf[s] # NoRow
PassInv == \A q \in Passes : PassOf(q)

IndexIInv == TypeOK /\ ClaimedIsReal /\ TopicInv /\ SubmissionInv /\ BoundsInv /\ PassInv

--------------------------------------------------------------------------------
(* Numbers *)

\* A set of numbers that has a bound has a greatest element.
LEMMA MaxOfBounded ==
    ASSUME NEW S \in SUBSET Nat, S # {}, NEW b \in Nat, \A x \in S : x <= b
    PROVE  Max(S) \in S
  <1> DEFINE T == {b - x : x \in S}
  <1>1. T \subseteq Nat /\ T # {}
    <2>1. \A x \in S : b - x \in Nat
      OBVIOUS
    <2> QED BY <2>1
  <1>2. PICK t \in T : \A u \in T : <<u, t>> \notin OpToRel(<, Nat)
    BY <1>1, WFMin, NatLessThanWellFounded
  <1>3. \A u \in T : ~ u < t
    BY <1>1, <1>2 DEF OpToRel
  <1>4. PICK x \in S : t = b - x
    OBVIOUS
  <1>5. \A y \in S : x >= y
    BY <1>3, <1>4
  <1> QED BY <1>4, <1>5 DEF Max

\* The end of a batch is not after what the mirror node shows.
LEMMA BatchEndIs ==
    ASSUME mirrored \in Nat, NEW from \in Nat, from < mirrored
    PROVE  BatchEnd(from) \in from + 1 .. mirrored
  <1> DEFINE b == from + MIRROR_NODE_BATCH_SIZE
  <1>1. b \in Nat /\ b > from
    BY BatchAssumption
  <1> HIDE DEF b
  <1>2. \E x \in {mirrored, b} : \A y \in {mirrored, b} : x =< y
    <2>1. CASE mirrored <= b
      BY <2>1, <1>1
    <2>2. CASE b <= mirrored
      BY <2>2, <1>1
    <2> QED BY <1>1, <2>1, <2>2
  <1>3. Min({mirrored, b}) \in {mirrored, b} /\ \A y \in {mirrored, b} : Min({mirrored, b}) =< y
    BY <1>2 DEF Min
  <1>4. PICK e \in {mirrored, b} : e = BatchEnd(from) /\ e <= mirrored
    BY <1>3 DEF BatchEnd, b
  <1> QED BY <1>1, <1>4

\* What is in the index stays in it, and the messages of the topic stay what they are.
LEMMA ListedStays ==
    ASSUME NEW n \in DOMAIN topic, topic'[n] = topic[n],
           synced \subseteq synced',
           \A s \in Sends : seqOf[s] > 0 => seqOf'[s] > 0
    PROVE  Listed(n) => Listed(n)'
  BY DEF Listed, IsPayment, InIndex

--------------------------------------------------------------------------------
(* Every step keeps the invariant *)

LEMMA IndexStarts == Init => IndexIInv
  <1> SUFFICES ASSUME Init PROVE IndexIInv
    OBVIOUS
  <1>1. [src |-> KeyExchange, sender |-> Operator] \in TopicMessage
    BY DEF TopicMessage
  <1>2. topic \in Seq(TopicMessage) /\ DOMAIN topic = {1} /\ Len(topic) = 1
        /\ topic[1].src = KeyExchange /\ topic[1].sender = Operator
    BY <1>1 DEF Init
  <1>3. pass \in [Passes -> Pass] /\ \A q \in Passes : pass[q].at = "idle"
    BY DEF Init, Pass, NoPass
  <1>4. TypeOK
    BY <1>2, <1>3 DEF Init, TypeOK, NoRow, Unknown
  <1>5. ClaimedIsReal /\ TopicInv
    BY <1>2 DEF Init, ClaimedIsReal, TopicInv, NoRow
  <1>6. SubmissionInv
    BY <1>2, NamesAssumption DEF Init, SubmissionInv
  <1>7. BoundsInv /\ PassInv
    BY <1>2, <1>3 DEF Init, BoundsInv, PassInv, PassOf
  <1> QED BY <1>4, <1>5, <1>6, <1>7 DEF IndexIInv

\* A message that is appended to the topic, and was not in it.
LEMMA Appended ==
    ASSUME IndexIInv, NEW src \in Sends \cup Posts, NEW sender \in Users \cup {Operator},
           \A i \in DOMAIN topic : topic[i].src # src,
           src \notin Posts => sender = Operator,
           Reaches(src, sender)
    PROVE  /\ topic' \in Seq(TopicMessage) /\ Len(topic') = Len(topic) + 1
           /\ \A i \in DOMAIN topic : i \in DOMAIN topic' /\ topic'[i] = topic[i]
           /\ \A i \in DOMAIN topic' : i \in DOMAIN topic \/ i = Len(topic) + 1
           /\ topic'[Len(topic) + 1].src = src /\ Len(topic) + 1 \in DOMAIN topic'
           /\ TopicInv'
  <1>1. [src |-> src, sender |-> sender] \in TopicMessage
    BY DEF TopicMessage
  <1>2. topic \in Seq(TopicMessage)
    BY DEF IndexIInv, TypeOK
  <1>3. /\ topic' \in Seq(TopicMessage) /\ Len(topic') = Len(topic) + 1
        /\ \A i \in DOMAIN topic : i \in DOMAIN topic' /\ topic'[i] = topic[i]
        /\ \A i \in DOMAIN topic' : i \in DOMAIN topic \/ i = Len(topic) + 1
        /\ topic'[Len(topic) + 1] = [src |-> src, sender |-> sender]
        /\ Len(topic) + 1 \in DOMAIN topic'
    BY <1>1, <1>2 DEF Reaches
  <1>4. TopicInv'
    BY <1>3 DEF TopicInv, IndexIInv
  <1> QED BY <1>3, <1>4


\* A message that is submitted changes nothing of what the index and the runs know.
LEMMA TopicGrows ==
    ASSUME IndexIInv, NEW src \in Sends \cup Posts, NEW sender \in Users \cup {Operator},
           \A i \in DOMAIN topic : topic[i].src # src,
           src \notin Posts => sender = Operator,
           Reaches(src, sender),
           UNCHANGED <<mirrored, seqOf, synced, send, pass>>
    PROVE  TopicInv' /\ BoundsInv' /\ ClaimedIsReal' /\ PassInv' /\ topic' \in Seq(TopicMessage)
  <1>1. /\ topic' \in Seq(TopicMessage) /\ Len(topic') = Len(topic) + 1 /\ TopicInv'
        /\ \A i \in DOMAIN topic : i \in DOMAIN topic' /\ topic'[i] = topic[i]
    BY Appended
  <1>2. topic \in Seq(TopicMessage) /\ Len(topic) \in Nat /\ DOMAIN topic = 1 .. Len(topic)
    BY DEF IndexIInv, TypeOK
  <1>3. BoundsInv'
    BY <1>1, <1>2 DEF IndexIInv, TypeOK, BoundsInv
  <1>4. ClaimedIsReal'
    BY <1>1, <1>2 DEF IndexIInv, TypeOK, ClaimedIsReal, IsPayment
  <1>5. \A n \in DOMAIN topic : Listed(n) => Listed(n)'
    BY <1>1, ListedStays
  <1>6. pass \in [Passes -> Pass]
    BY DEF IndexIInv, TypeOK
  <1>8. PassInv'
    <2> SUFFICES ASSUME NEW q \in Passes PROVE PassOf(q)'
      BY DEF PassInv
    <2>1. PassOf(q) /\ pass[q] \in Pass
      BY <1>6 DEF IndexIInv, PassInv
    <2>2. pass[q].at \in {"check", "lookup", "write"} => \A n \in pass[q].from + 1 .. pass[q].next - 1 : Listed(n)'
      BY <1>2, <1>5, <2>1 DEF PassOf, Pass
    <2>3. pass[q].at = "finish" => \A n \in pass[q].from + 1 .. pass[q].upto : n \in (DOMAIN topic)' /\ Listed(n)'
      BY <1>1, <1>5, <2>1 DEF PassOf
    <2>4. pass[q].at = "write" => pass[q].next \in DOMAIN topic
      BY <1>2, <2>1 DEF PassOf, Pass
    <2> QED BY <1>1, <1>2, <2>1, <2>2, <2>3, <2>4 DEF PassOf, Pass, IsPayment
  <1> QED BY <1>1, <1>3, <1>4, <1>8

LEMMA SubmitKeeps ==
    ASSUME IndexIInv, NEW s \in Sends, Submit(s)
    PROVE  IndexIInv'
  <1>1. s \notin Posts /\ \A i \in DOMAIN topic : topic[i].src # s
    BY NamesAssumption DEF IndexIInv, SubmissionInv, Submit
  <1>2. CASE UNCHANGED topic
    <2>1. hcs' = [hcs EXCEPT ![s] = "failed"] /\ UNCHANGED ack
      BY <1>2 DEF Submit, Reaches, IndexIInv, TypeOK
    <2>2. TypeOK' /\ TopicInv' /\ SubmissionInv' /\ BoundsInv' /\ ClaimedIsReal'
      BY <1>2, <2>1 DEF Submit, IndexIInv, TypeOK, TopicInv, SubmissionInv, BoundsInv, ClaimedIsReal, IsPayment
    <2>3. PassInv'
      BY <1>2, <2>1 DEF Submit, IndexIInv, PassInv, PassOf, Listed, IsPayment, InIndex
    <2> QED BY <2>2, <2>3 DEF IndexIInv
  <1>3. CASE Reaches(s, Operator)
    <2>1. TopicInv' /\ BoundsInv' /\ ClaimedIsReal' /\ PassInv' /\ topic' \in Seq(TopicMessage)
      BY <1>1, <1>3, TopicGrows DEF Submit
    <2>2. /\ \A i \in DOMAIN topic : i \in DOMAIN topic' /\ topic'[i] = topic[i]
          /\ \A i \in DOMAIN topic' : i \in DOMAIN topic \/ i = Len(topic) + 1
          /\ Len(topic) + 1 \in DOMAIN topic' /\ topic'[Len(topic) + 1].src = s
      BY <1>1, <1>3, Appended
    <2>3. Len(topic) + 1 \in Nat
      BY DEF IndexIInv, TypeOK
    <2>4. /\ hcs \in [Sends -> {"none", "submitting", "acked", "done", "failed"}] /\ ack \in [Sends -> Nat]
          /\ SubmissionInv
      BY DEF IndexIInv, TypeOK
    <2>5. CASE hcs' = [hcs EXCEPT ![s] = "acked"] /\ ack' = [ack EXCEPT ![s] = Len(topic) + 1]
      <3>1. SubmissionInv'
        BY <2>2, <2>3, <2>4, <2>5 DEF Submit, SubmissionInv
      <3>2. TypeOK'
        BY <2>1, <2>3, <2>5 DEF Submit, IndexIInv, TypeOK
      <3> QED BY <2>1, <3>1, <3>2 DEF IndexIInv
    <2>6. CASE hcs' = [hcs EXCEPT ![s] = "failed"] /\ UNCHANGED ack
      <3>1. SubmissionInv'
        BY <2>2, <2>4, <2>6 DEF Submit, SubmissionInv
      <3>2. TypeOK'
        BY <2>1, <2>6 DEF Submit, IndexIInv, TypeOK
      <3> QED BY <2>1, <3>1, <3>2 DEF IndexIInv
    <2> QED BY <2>5, <2>6 DEF Submit
  <1> QED BY <1>2, <1>3 DEF Submit

LEMMA PostKeeps ==
    ASSUME IndexIInv, NEW p \in Posts, NEW u \in Users, PostPayment(p, u)
    PROVE  IndexIInv'
  <1>1. Reaches(p, u) /\ \A i \in DOMAIN topic : topic[i].src # p
    BY DEF PostPayment
  <1>2. TopicInv' /\ BoundsInv' /\ ClaimedIsReal' /\ PassInv' /\ topic' \in Seq(TopicMessage)
    BY <1>1, TopicGrows DEF PostPayment, appVars
  <1>3. /\ \A i \in DOMAIN topic : i \in DOMAIN topic' /\ topic'[i] = topic[i]
        /\ \A i \in DOMAIN topic' : i \in DOMAIN topic \/ i = Len(topic) + 1
        /\ topic'[Len(topic) + 1].src = p
    BY <1>1, Appended
  <1>4. SubmissionInv'
    BY <1>3, NamesAssumption DEF PostPayment, appVars, IndexIInv, SubmissionInv
  <1>5. TypeOK'
    BY <1>2 DEF PostPayment, appVars, IndexIInv, TypeOK
  <1> QED BY <1>2, <1>4, <1>5 DEF IndexIInv

\* A run that a step does not touch still has passed over none that is missing.
LEMMA PassStays ==
    ASSUME IndexIInv, NEW q \in Passes, pass'[q] = pass[q], UNCHANGED topic,
           synced \subseteq synced',
           \A s \in Sends : /\ seqOf[s] > 0 => seqOf'[s] > 0
                            /\ seqOf[s] # NoRow => seqOf'[s] # NoRow
                            /\ send'[s].user = send[s].user
    PROVE  PassOf(q)'
  <1>1. \A n \in DOMAIN topic : Listed(n) => Listed(n)'
    BY DEF Listed, IsPayment, InIndex
  <1>2. topic \in Seq(TopicMessage) /\ Len(topic) \in Nat /\ DOMAIN topic = 1 .. Len(topic)
    BY DEF IndexIInv, TypeOK
  <1>3. PassOf(q) /\ pass[q] \in Pass
    BY DEF IndexIInv, PassInv, TypeOK
  <1>4. pass[q].at \in {"check", "lookup", "write"} => \A n \in pass[q].from + 1 .. pass[q].next - 1 : Listed(n)'
    BY <1>1, <1>2, <1>3 DEF PassOf, Pass
  <1>5. pass[q].at = "finish" => \A n \in pass[q].from + 1 .. pass[q].upto : n \in DOMAIN topic /\ Listed(n)'
    BY <1>1, <1>2, <1>3 DEF PassOf, Pass
  <1>6. pass[q].at = "write" => pass[q].claim \in SUBSET Sends
    BY <1>3 DEF Pass
  <1> QED BY <1>3, <1>4, <1>5, <1>6 DEF PassOf, IsPayment

\* Steps of sendMessage's handler, and the reader's.
LEMMA HandlerKeeps ==
    ASSUME IndexIInv, NEW s \in Sends, Send(s) \/ Handler(s)
    PROVE  IndexIInv'
  <1>1. UNCHANGED <<topic, mirrored, synced, pass, ack>>
    BY DEF Send, Handler, InsertMessage, SaveConversation
  <1>2. TypeOK'
    <2>1. CASE Send(s)
      BY <2>1 DEF Send, Goto, IndexIInv, TypeOK
    <2>2. CASE InsertMessage(s)
      <3>1. pc' \in [Sends -> {"idle", "insert", "touch", "returned", "threw"}]
        BY <2>2 DEF InsertMessage, Goto, IndexIInv, TypeOK
      <3>2. hcs' \in [Sends -> {"none", "submitting", "acked", "done", "failed"}]
        BY <2>2 DEF InsertMessage, IndexIInv, TypeOK
      <3>3. seqOf' \in [Sends -> {NoRow} \cup Nat]
        BY <2>2 DEF InsertMessage, IndexIInv, TypeOK
      <3> QED BY <2>2, <3>1, <3>2, <3>3 DEF InsertMessage, IndexIInv, TypeOK
    <2>3. CASE SaveConversation(s)
      BY <2>3 DEF SaveConversation, Goto, IndexIInv, TypeOK
    <2> QED BY <2>1, <2>2, <2>3 DEF Handler
  <1>3. \A r \in Sends : /\ seqOf[r] > 0 => seqOf'[r] > 0
                         /\ seqOf[r] # NoRow => seqOf'[r] # NoRow
                         /\ send'[r].user = send[r].user
                         /\ seqOf'[r] > 0 => seqOf'[r] = seqOf[r]
    BY DEF Send, Handler, InsertMessage, SaveConversation, IndexIInv, TypeOK, SubmissionInv, NoRow
  <1>4. PassInv'
    BY <1>1, <1>3, PassStays DEF PassInv
  <1>5. TopicInv' /\ BoundsInv'
    BY <1>1 DEF IndexIInv, TopicInv, BoundsInv
  <1>6. ClaimedIsReal'
    BY <1>1, <1>3 DEF IndexIInv, ClaimedIsReal, IsPayment
  <1>7. SubmissionInv'
    <2>1. CASE Send(s) \/ SaveConversation(s)
      BY <1>1, <2>1 DEF Send, SaveConversation, Goto, IndexIInv, TypeOK, SubmissionInv
    <2>2. CASE InsertMessage(s)
      <3>1. /\ pc \in [Sends -> {"idle", "insert", "touch", "returned", "threw"}]
            /\ hcs \in [Sends -> {"none", "submitting", "acked", "done", "failed"}]
            /\ seqOf \in [Sends -> {NoRow} \cup Nat] /\ SubmissionInv
        BY DEF IndexIInv, TypeOK
      <3>2. CASE Used(0)
        BY <1>1, <2>2, <3>1, <3>2 DEF InsertMessage, Goto, SubmissionInv
      <3>3. CASE ~Used(0)
        BY <1>1, <2>2, <3>1, <3>3 DEF InsertMessage, Goto, SubmissionInv
      <3> QED BY <3>2, <3>3
    <2> QED BY <2>1, <2>2 DEF Handler
  <1> QED BY <1>2, <1>4, <1>5, <1>6, <1>7 DEF IndexIInv

\* The process dies, or ends on an update that was refused.
LEMMA RestartKeeps ==
    ASSUME IndexIInv, Restart, UNCHANGED <<topic, mirrored, seqOf, synced, lastSeq, lastRead, send, ack>>
    PROVE  IndexIInv'
  <1>1. NoPass \in Pass /\ Unknown \in {Unknown} \cup Nat /\ NoPass.at = "idle"
    BY DEF NoPass, Pass
  <1>2. TypeOK'
    BY <1>1 DEF Restart, IndexIInv, TypeOK
  <1>3. PassInv'
    BY <1>1 DEF Restart, PassInv, PassOf
  <1>4. TopicInv' /\ BoundsInv' /\ ClaimedIsReal'
    BY DEF IndexIInv, TopicInv, BoundsInv, ClaimedIsReal, IsPayment
  <1>5. SubmissionInv'
    BY DEF Restart, IndexIInv, TypeOK, SubmissionInv
  <1> QED BY <1>2, <1>3, <1>4, <1>5 DEF IndexIInv

\* The receipt gives a row the number of its message.
LEMMA NumberKeeps ==
    ASSUME IndexIInv, NEW s \in Sends, NumberMessage(s)
    PROVE  IndexIInv'
  <1>1. CASE Used(ack[s]) /\ seqOf[s] # ack[s]
    BY <1>1, RestartKeeps DEF NumberMessage
  <1>2. CASE ~(Used(ack[s]) /\ seqOf[s] # ack[s])
    <2>1. /\ seqOf' = [seqOf EXCEPT ![s] = ack[s]] /\ hcs' = [hcs EXCEPT ![s] = "done"]
          /\ UNCHANGED <<pc, cursor, pass, topic, mirrored, synced, lastSeq, lastRead, send, ack>>
      BY <1>2 DEF NumberMessage
    <2>2. ack[s] \in DOMAIN topic /\ topic[ack[s]].src = s /\ ack[s] > 0 /\ ack[s] \in Nat
      BY DEF NumberMessage, IndexIInv, SubmissionInv, TypeOK
    <2>3. TypeOK'
      BY <2>1, <2>2 DEF IndexIInv, TypeOK
    <2>4. PassInv'
      <3>1. \A r \in Sends : /\ seqOf[r] > 0 => seqOf'[r] > 0
                             /\ seqOf[r] # NoRow => seqOf'[r] # NoRow
        BY <2>1, <2>2 DEF IndexIInv, TypeOK, NoRow
      <3> QED BY <2>1, <3>1, PassStays DEF PassInv
    <2>5. TopicInv' /\ BoundsInv'
      BY <2>1 DEF IndexIInv, TopicInv, BoundsInv
    <2>6. ClaimedIsReal'
      BY <2>1, <2>2 DEF IndexIInv, TypeOK, ClaimedIsReal, IsPayment
    <2>7. SubmissionInv'
      BY <2>1 DEF NumberMessage, IndexIInv, TypeOK, SubmissionInv
    <2> QED BY <2>3, <2>4, <2>5, <2>6, <2>7 DEF IndexIInv
  <1> QED BY <1>1, <1>2

LEMMA MirrorKeeps ==
    ASSUME IndexIInv, MirrorShows \/ MarkAsRead
    PROVE  IndexIInv'
  <1>1. UNCHANGED <<topic, seqOf, synced, send, pc, hcs, ack, pass>>
    BY DEF MirrorShows, MarkAsRead, appVars
  <1>2. TypeOK' /\ BoundsInv'
    <2>1. CASE MirrorShows
      BY <2>1 DEF MirrorShows, appVars, IndexIInv, TypeOK, BoundsInv
    <2>2. CASE MarkAsRead
      BY <2>2 DEF MarkAsRead, AllRead, IndexIInv, TypeOK, BoundsInv
    <2> QED BY <2>1, <2>2
  <1>3. PassInv'
    BY <1>1, PassStays DEF PassInv
  <1>4. TopicInv' /\ ClaimedIsReal' /\ SubmissionInv'
    BY <1>1 DEF IndexIInv, TopicInv, ClaimedIsReal, IsPayment, SubmissionInv
  <1> QED BY <1>2, <1>3, <1>4 DEF IndexIInv

--------------------------------------------------------------------------------
(* The sync job *)

\* A step of a run: what is left to show is what it knows then.
LEMMA PassMoves ==
    ASSUME IndexIInv, NEW q \in Passes, NEW v \in Pass, Passed(q, v), UNCHANGED <<topic, send>>,
           synced \subseteq synced',
           \A s \in Sends : /\ seqOf[s] > 0 => seqOf'[s] > 0
                            /\ seqOf[s] # NoRow => seqOf'[s] # NoRow,
           PassOf(q)'
    PROVE  PassInv' /\ pass' \in [Passes -> Pass] /\ pass'[q] = v
  <1>1. pass \in [Passes -> Pass]
    BY DEF IndexIInv, TypeOK
  <1>2. pass' \in [Passes -> Pass] /\ pass'[q] = v /\ \A r \in Passes \ {q} : pass'[r] = pass[r]
    BY <1>1 DEF Passed
  <1>3. \A r \in Passes \ {q} : PassOf(r)'
    BY <1>2, PassStays
  <1> QED BY <1>2, <1>3 DEF PassInv

\* A step of a run that writes nothing.
LEMMA ReadingKeeps ==
    ASSUME IndexIInv, NEW q \in Passes, NEW v \in Pass, Passed(q, v), PassOf(q)',
           cursor' \in {Unknown} \cup Nat, lastSeq' \in Nat,
           UNCHANGED <<topic, mirrored, seqOf, synced, lastRead, send, pc, hcs, ack>>
    PROVE  IndexIInv'
  <1>1. PassInv' /\ pass' \in [Passes -> Pass]
    BY PassMoves
  <1>2. TypeOK'
    BY <1>1 DEF IndexIInv, TypeOK
  <1>3. TopicInv' /\ BoundsInv' /\ ClaimedIsReal' /\ SubmissionInv'
    BY DEF IndexIInv, TopicInv, BoundsInv, ClaimedIsReal, IsPayment, SubmissionInv
  <1> QED BY <1>1, <1>2, <1>3 DEF IndexIInv

LEMMA StartKeeps ==
    ASSUME IndexIInv, NEW q \in Passes, StartPass(q)
    PROVE  IndexIInv'
  <1> DEFINE v == IF cursor = Unknown
                  THEN [NoPass EXCEPT !.at = "resume", !.from = Max(Indexed \cup {0})]
                  ELSE [NoPass EXCEPT !.at = "load", !.from = cursor]
  <1>1. Max(Indexed \cup {0}) \in Nat
    <2>1. Indexed \cup {0} \in SUBSET Nat
      BY DEF Indexed, IndexIInv, TypeOK
    <2>2. Len(topic) \in Nat /\ \A n \in Indexed \cup {0} : n <= Len(topic)
      <3>1. DOMAIN topic = 1 .. Len(topic) /\ Len(topic) \in Nat
        BY DEF IndexIInv, TypeOK
      <3>2. \A n \in synced : n <= Len(topic)
        BY <3>1 DEF IndexIInv, BoundsInv
      <3>3. \A s \in Sends : seqOf[s] <= Len(topic)
        <4> SUFFICES ASSUME NEW s \in Sends PROVE seqOf[s] <= Len(topic)
          OBVIOUS
        <4>1. seqOf[s] = NoRow \/ seqOf[s] \in Nat
          BY DEF IndexIInv, TypeOK
        <4>2. seqOf[s] > 0 => seqOf[s] \in DOMAIN topic
          BY DEF IndexIInv, ClaimedIsReal
        <4> QED BY <3>1, <4>1, <4>2 DEF NoRow
      <3> QED BY <3>1, <3>2, <3>3 DEF Indexed
    <2> QED BY <2>1, <2>2, MaxOfBounded
  <1>2. v \in Pass /\ v.at \in {"resume", "load"}
    BY <1>1 DEF NoPass, Pass, IndexIInv, TypeOK, Unknown
  <1>3. Passed(q, v)
    BY DEF StartPass
  <1> HIDE DEF v
  <1>4. pass'[q] = v
    BY <1>3 DEF Passed, IndexIInv, TypeOK
  <1>5. PassOf(q)'
    BY <1>2, <1>4 DEF PassOf
  <1> QED BY <1>2, <1>3, <1>5, ReadingKeeps DEF StartPass, IndexIInv, TypeOK

LEMMA LoadKeeps ==
    ASSUME IndexIInv, NEW q \in Passes, LoadConversation(q)
    PROVE  IndexIInv'
  <1> DEFINE v == [pass[q] EXCEPT !.at = "fetch", !.snap = lastSeq]
  <1>1. v \in Pass /\ v.at = "fetch"
    BY DEF Pass, IndexIInv, TypeOK
  <1>2. Passed(q, v)
    BY DEF LoadConversation
  <1>3. cursor' \in {Unknown} \cup Nat
    BY DEF LoadConversation, IndexIInv, TypeOK, Pass
  <1> HIDE DEF v
  <1>4. pass'[q] = v
    BY <1>2 DEF Passed, IndexIInv, TypeOK
  <1>5. PassOf(q)'
    BY <1>1, <1>4 DEF PassOf
  <1> QED BY <1>1, <1>2, <1>3, <1>5, ReadingKeeps DEF LoadConversation, IndexIInv, TypeOK

LEMMA FetchKeeps ==
    ASSUME IndexIInv, NEW q \in Passes, Fetch(q)
    PROVE  IndexIInv'
  <1>1. pass[q] \in Pass /\ pass \in [Passes -> Pass] /\ mirrored \in Nat /\ Len(topic) \in Nat
        /\ mirrored <= Len(topic)
    BY DEF IndexIInv, TypeOK, BoundsInv
  <1>2. PICK f \in Nat : pass[q].from = f
    BY <1>1 DEF Pass
  <1>3. PICK v \in Pass : Passed(q, v) /\ (v.at = "check" \/ v.at = "finish" \/ v.at = "idle")
                          /\ (v.at # "idle" => v.from = f)
                          /\ (v.at = "check" => v.next = f + 1 /\ v.upto \in f + 1 .. mirrored)
                          /\ (v.at = "finish" => v.upto = f)
    <2>1. CASE Passed(q, NoPass)
      <3>1. NoPass \in Pass /\ NoPass.at = "idle"
        BY DEF NoPass, Pass
      <3> QED BY <2>1, <3>1
    <2>2. CASE mirrored > f /\ Passed(q, [pass[q] EXCEPT !.at = "check", !.next = f + 1, !.upto = BatchEnd(f)])
      <3>1. BatchEnd(f) \in f + 1 .. mirrored
        BY <1>1, <2>2, BatchEndIs
      <3>3. BatchEnd(f) \in Nat
        BY <1>1, <3>1
      <3> DEFINE w == [pass[q] EXCEPT !.at = "check", !.next = f + 1, !.upto = BatchEnd(f)]
      <3>2. w \in Pass /\ w.at = "check" /\ w.from = f /\ w.next = f + 1 /\ w.upto = BatchEnd(f)
        <4>1. PICK p \in Pass : pass[q] = p /\ p.from = f
          BY <1>1, <1>2
        <4>2. PICK m \in Nat : m = f + 1
          OBVIOUS
        <4>3. PICK b \in Nat : b = BatchEnd(f)
          BY <3>3
        <4>4. w = [p EXCEPT !.at = "check", !.next = m, !.upto = b]
          BY <4>1, <4>2, <4>3
        <4>5. w \in Pass /\ w.at = "check" /\ w.from = p.from /\ w.next = m /\ w.upto = b
          BY <4>4 DEF Pass
        <4> QED BY <4>1, <4>2, <4>3, <4>5
      <3> HIDE DEF w
      <3> QED BY <2>2, <3>1, <3>2 DEF w
    <2>3. CASE Passed(q, [pass[q] EXCEPT !.at = "finish", !.upto = f])
      <3> DEFINE w == [pass[q] EXCEPT !.at = "finish", !.upto = f]
      <3>1. w \in Pass /\ w.at = "finish" /\ w.from = f /\ w.upto = f
        BY <1>1, <1>2 DEF Pass
      <3> HIDE DEF w
      <3> QED BY <2>3, <3>1 DEF w
    <2> QED BY <1>1, <1>2, <2>1, <2>2, <2>3 DEF Fetch
  <1>4. pass'[q] = v
    BY <1>1, <1>3 DEF Passed
  <1>5. PassOf(q)'
    BY <1>1, <1>2, <1>3, <1>4 DEF PassOf, Fetch
  <1> QED BY <1>3, <1>5, ReadingKeeps DEF Fetch, IndexIInv, TypeOK

\* A number is passed over when it is in the index, or is a payment's.
LEMMA FollowingKnows ==
    ASSUME TypeOK, NEW q \in Passes, NEW found \in BOOLEAN,
           pass[q].at \in {"check", "lookup", "write"}, PassOf(q),
           \A n \in DOMAIN topic : Listed(n) => Listed(n)',
           NEW m, m = pass[q].next, Listed(m)',
           UNCHANGED topic, Passed(q, Following(pass[q], found))
    PROVE  PassOf(q)' /\ Following(pass[q], found) \in Pass
  <1>1. PICK p \in Pass : pass[q] = p
    BY DEF TypeOK
  <1>2. DOMAIN topic = 1 .. Len(topic) /\ Len(topic) \in Nat
    BY DEF TypeOK
  <1>3. /\ p.at \in {"check", "lookup", "write"}
        /\ p.from \in Nat /\ p.next \in Nat /\ p.upto \in Nat
        /\ p.from < p.next /\ p.next <= p.upto /\ p.upto <= Len(topic)
        /\ \A n \in p.from + 1 .. p.next - 1 : Listed(n)
    BY <1>1 DEF PassOf, Pass
  <1>4. \A n \in p.from + 1 .. p.next : n \in DOMAIN topic /\ Listed(n)'
    <2> SUFFICES ASSUME NEW n \in p.from + 1 .. p.next PROVE n \in DOMAIN topic /\ Listed(n)'
      OBVIOUS
    <2>1. n \in DOMAIN topic
      BY <1>2, <1>3
    <2>2. CASE n = p.next
      BY <1>1, <2>1, <2>2
    <2>3. CASE n # p.next
      <3>1. n \in p.from + 1 .. p.next - 1
        BY <1>3, <2>3
      <3> QED BY <1>3, <2>1, <3>1
    <2> QED BY <2>2, <2>3
  <1>5. PICK v \in Pass : /\ v = Following(p, found)
                          /\ v.at = IF p.next = p.upto THEN "finish" ELSE "check"
                          /\ v.from = p.from /\ v.upto = p.upto /\ v.next = p.next + 1
    <2>1. PICK k \in Nat, l \in {"finish", "check"} :
             k = p.next + 1 /\ l = IF p.next = p.upto THEN "finish" ELSE "check"
      BY <1>3
    <2>2. [p EXCEPT !.at = l, !.next = k, !.found = found, !.claim = {}] \in Pass
      BY DEF Pass
    <2>3. Following(p, found) = [p EXCEPT !.at = l, !.next = k, !.found = found, !.claim = {}]
      BY <2>1 DEF Following, Pass
    <2> QED BY <2>1, <2>2, <2>3 DEF Pass
  <1>6. pass'[q] = v
    BY <1>1, <1>5 DEF Passed, TypeOK
  <1>7. CASE p.next = p.upto
    <2>1. pass'[q].at = "finish" /\ pass'[q].from = p.from /\ pass'[q].upto = p.next
      BY <1>5, <1>6, <1>7
    <2> QED BY <1>1, <1>4, <1>5, <2>1 DEF PassOf
  <1>8. CASE p.next # p.upto
    <2>1. /\ pass'[q].at = "check" /\ pass'[q].from = p.from /\ pass'[q].upto = p.upto
          /\ pass'[q].next = p.next + 1 /\ p.next + 1 - 1 = p.next
      BY <1>3, <1>5, <1>6, <1>8
    <2>2. p.from < p.next + 1 /\ p.next + 1 <= p.upto
      BY <1>3, <1>8
    <2> QED BY <1>1, <1>3, <1>4, <1>5, <2>1, <2>2 DEF PassOf
  <1> QED BY <1>7, <1>8

LEMMA CheckKeeps ==
    ASSUME IndexIInv, NEW q \in Passes, Check(q)
    PROVE  IndexIInv'
  <1>1. pass[q] \in Pass /\ pass[q].at = "check" /\ PassOf(q)
    BY DEF Check, IndexIInv, TypeOK, PassInv
  <1>2. CASE Used(pass[q].next)
    <2>1. pass[q].next > 0 /\ pass[q].next \in Nat
      BY <1>1 DEF PassOf, Pass
    <2>2. Listed(pass[q].next)
      BY <1>2, <2>1 DEF Used, Listed, InIndex, IndexIInv, ClaimedIsReal
    <2>3. \A n : Listed(n) => Listed(n)'
      BY DEF Check, Listed, InIndex, IsPayment
    <2>4. pass[q].found \in BOOLEAN /\ Passed(q, Following(pass[q], pass[q].found))
      BY <1>1, <1>2 DEF Check, Pass
    <2>5. PassOf(q)' /\ Following(pass[q], pass[q].found) \in Pass
      BY <1>1, <2>1, <2>2, <2>3, <2>4, FollowingKnows DEF Check, IndexIInv
    <2> QED BY <2>4, <2>5, ReadingKeeps DEF Check, IndexIInv, TypeOK
  <1>3. CASE ~Used(pass[q].next)
    <2> DEFINE v == [pass[q] EXCEPT !.at = "lookup"]
    <2>1. v \in Pass /\ v.at = "lookup" /\ v.from = pass[q].from /\ v.next = pass[q].next /\ v.upto = pass[q].upto
      BY <1>1 DEF Pass
    <2>2. Passed(q, v)
      BY <1>3 DEF Check
    <2> HIDE DEF v
    <2>3. pass'[q] = v
      BY <2>2 DEF Passed, IndexIInv, TypeOK
    <2>4. PassOf(q)'
      BY <1>1, <2>1, <2>3 DEF PassOf, Check, Listed, InIndex, IsPayment
    <2> QED BY <2>1, <2>2, <2>4, ReadingKeeps DEF Check, IndexIInv, TypeOK
  <1> QED BY <1>2, <1>3

LEMMA LookupKeeps ==
    ASSUME IndexIInv, NEW q \in Passes, Lookup(q)
    PROVE  IndexIInv'
  <1>1. PICK p \in Pass : pass[q] = p /\ p.at = "lookup" /\ PassOf(q)
    BY DEF Lookup, IndexIInv, TypeOK, PassInv
  <1>2. PICK h \in SUBSET Sends : h = Placeholders(topic[p.next].sender)
    BY DEF Placeholders
  <1>3. \A s \in h : seqOf[s] # NoRow /\ send[s].user = topic[p.next].sender
    BY <1>2 DEF Placeholders, NoRow
  <1>4. p.next \in DOMAIN topic
    BY <1>1 DEF PassOf, Pass, IndexIInv, TypeOK
  <1>5. \A s \in h : IsPayment(p.next)
    <2>1. \A s \in h : send[s].user \in Users
      BY DEF IndexIInv, TypeOK
    <2>2. \A s \in h : topic[p.next].sender # Operator
      BY <1>3, <2>1, NamesAssumption
    <2> QED BY <1>4, <2>2 DEF IsPayment, IndexIInv, TopicInv
  <1> DEFINE v == [p EXCEPT !.at = "write", !.claim = h]
  <1>6. v \in Pass /\ v.at = "write" /\ v.from = p.from /\ v.next = p.next /\ v.upto = p.upto /\ v.claim = h
    BY DEF Pass
  <1>7. Passed(q, v)
    BY <1>1, <1>2 DEF Lookup
  <1> HIDE DEF v
  <1>8. pass'[q] = v
    BY <1>7 DEF Passed, IndexIInv, TypeOK
  <1>9. PassOf(q)'
    BY <1>1, <1>3, <1>5, <1>6, <1>8 DEF PassOf, Lookup, Listed, InIndex, IsPayment
  <1> QED BY <1>6, <1>7, <1>9, ReadingKeeps DEF Lookup, IndexIInv, TypeOK

LEMMA WriteKeeps ==
    ASSUME IndexIInv, NEW q \in Passes, Write(q)
    PROVE  IndexIInv'
  <1>1. PICK p \in Pass : pass[q] = p
    BY DEF IndexIInv, TypeOK
  <1>2. /\ p.at = "write" /\ PassOf(q) /\ p.next \in Nat /\ p.next > 0 /\ p.claim \subseteq Sends
        /\ p.next \in DOMAIN topic
    <2>1. p.at = "write" /\ PassOf(q)
      BY <1>1 DEF Write, IndexIInv, PassInv
    <2>2. p.from \in Nat /\ p.next \in Nat /\ p.upto \in Nat /\ p.claim \subseteq Sends
      BY DEF Pass
    <2>3. p.from < p.next /\ p.next <= p.upto /\ p.upto <= Len(topic)
      BY <1>1, <2>1 DEF PassOf
    <2>4. DOMAIN topic = 1 .. Len(topic) /\ Len(topic) \in Nat
      BY DEF IndexIInv, TypeOK
    <2> QED BY <2>1, <2>2, <2>3, <2>4
  <1>3. CASE Passed(q, NoPass) /\ UNCHANGED <<seqOf, synced>>
    <2>1. NoPass \in Pass /\ NoPass.at = "idle"
      BY DEF NoPass, Pass
    <2>2. pass'[q] = NoPass
      BY <1>3 DEF Passed, IndexIInv, TypeOK
    <2>3. PassOf(q)'
      BY <2>1, <2>2 DEF PassOf
    <2> QED BY <1>3, <2>1, <2>3, ReadingKeeps DEF Write, IndexIInv, TypeOK
  <1>4. CASE /\ Passed(q, Following(p, TRUE))
             /\ \/ p.claim = {} /\ synced' = synced \cup {p.next} /\ UNCHANGED seqOf
                \/ /\ p.claim # {}
                   /\ seqOf' = [s \in Sends |-> IF s \in p.claim THEN p.next ELSE seqOf[s]]
                   /\ UNCHANGED synced
    <2>1. seqOf \in [Sends -> {NoRow} \cup Nat] /\ \A s \in p.claim : seqOf[s] # NoRow
      BY <1>1, <1>2 DEF IndexIInv, TypeOK, PassOf
    <2>2. \A s \in Sends : /\ seqOf[s] > 0 => seqOf'[s] > 0
                           /\ seqOf[s] # NoRow => seqOf'[s] # NoRow
                           /\ seqOf'[s] = seqOf[s] \/ (s \in p.claim /\ seqOf'[s] = p.next)
      <3>1. CASE UNCHANGED seqOf
        BY <3>1
      <3>2. CASE seqOf' = [s \in Sends |-> IF s \in p.claim THEN p.next ELSE seqOf[s]]
        BY <1>2, <3>2 DEF NoRow
      <3> QED BY <1>4, <3>1, <3>2
    <2>3. /\ seqOf' \in [Sends -> {NoRow} \cup Nat] /\ synced \subseteq synced'
          /\ synced' \subseteq Nat /\ synced' \subseteq DOMAIN topic
      BY <1>2, <1>4, <2>1 DEF IndexIInv, TypeOK, BoundsInv
    <2>4. UNCHANGED <<topic, mirrored, lastSeq, lastRead, send, pc, hcs, ack, cursor>>
      BY DEF Write
    <2>5. Listed(p.next)'
      BY <1>1, <1>2, <1>4, <2>4 DEF PassOf, Listed, IsPayment, InIndex
    <2>6. \A n \in DOMAIN topic : Listed(n) => Listed(n)'
      BY <2>2, <2>3, <2>4 DEF Listed, IsPayment, InIndex
    <2>7. PassOf(q)' /\ Following(p, TRUE) \in Pass
      <3>1. TypeOK /\ p.next = pass[q].next /\ pass[q].at = "write" /\ Passed(q, Following(pass[q], TRUE))
        BY <1>1, <1>2, <1>4 DEF IndexIInv
      <3> QED BY <1>1, <1>2, <2>4, <2>5, <2>6, <3>1, FollowingKnows
    <2>8. PassInv' /\ pass' \in [Passes -> Pass]
      BY <1>4, <2>2, <2>3, <2>4, <2>7, PassMoves
    <2>9. TypeOK'
      BY <2>3, <2>4, <2>8 DEF IndexIInv, TypeOK
    <2>10. TopicInv' /\ BoundsInv'
      BY <2>3, <2>4 DEF IndexIInv, TopicInv, BoundsInv
    <2>11. ClaimedIsReal'
      <3>1. \A s \in p.claim : IsPayment(p.next) /\ topic[p.next].sender = send[s].user
        BY <1>1, <1>2 DEF PassOf
      <3> QED BY <1>2, <2>2, <2>4, <3>1 DEF IndexIInv, ClaimedIsReal, IsPayment
    <2>12. SubmissionInv'
      BY <1>2, <2>1, <2>2, <2>4 DEF IndexIInv, SubmissionInv
    <2> QED BY <2>8, <2>9, <2>10, <2>11, <2>12 DEF IndexIInv
  <1> QED BY <1>1, <1>3, <1>4 DEF Write

LEMMA FinishKeeps ==
    ASSUME IndexIInv, NEW q \in Passes, Finish(q)
    PROVE  IndexIInv'
  <1>1. NoPass \in Pass /\ NoPass.at = "idle" /\ Passed(q, NoPass)
    BY DEF NoPass, Pass, Finish
  <1>2. pass'[q] = NoPass
    BY <1>1 DEF Passed, IndexIInv, TypeOK
  <1>3. PassOf(q)'
    BY <1>1, <1>2 DEF PassOf
  <1>4. cursor' \in {Unknown} \cup Nat /\ lastSeq' \in Nat
    BY DEF Finish, IndexIInv, TypeOK, Pass
  <1> QED BY <1>1, <1>3, <1>4, ReadingKeeps DEF Finish

--------------------------------------------------------------------------------

\* Every step of every actor keeps the invariant.
LEMMA IndexKeeps == IndexIInv /\ [Next]_vars => IndexIInv'
  <1> SUFFICES ASSUME IndexIInv, [Next]_vars PROVE IndexIInv'
    OBVIOUS
  <1>1. ASSUME NEW s \in Sends, Send(s) \/ Handler(s) \/ Background(s) PROVE IndexIInv'
    BY <1>1, HandlerKeeps, SubmitKeeps, NumberKeeps DEF Background
  <1>2. ASSUME NEW p \in Posts, NEW u \in Users, PostPayment(p, u) PROVE IndexIInv'
    BY <1>2, PostKeeps
  <1>3. ASSUME NEW q \in Passes, Sync(q) PROVE IndexIInv'
    BY <1>3, StartKeeps, LoadKeeps, FetchKeeps, CheckKeeps, LookupKeeps, WriteKeeps, FinishKeeps DEF Sync
  <1>4. CASE MirrorShows \/ MarkAsRead
    BY <1>4, MirrorKeeps
  <1>5. CASE Crash
    BY <1>5, RestartKeeps DEF Crash
  <1>6. CASE UNCHANGED vars
    BY <1>6 DEF vars, appVars, IndexIInv, TypeOK, TopicInv, SubmissionInv, BoundsInv, ClaimedIsReal, PassInv,
                PassOf, Listed, IsPayment, InIndex
  <1> QED BY <1>1, <1>2, <1>3, <1>4, <1>5, <1>6 DEF Next, Steps

\* The invariant holds in every state of every behaviour.
THEOREM IndexInductive == Spec => []IndexIInv
  BY IndexStarts, IndexKeeps, PTL DEF Spec

LEMMA IndexImplies == IndexIInv => IndexIsTrue
  BY DEF IndexIInv, IndexIsTrue, PassInv, PassOf, BatchIsIndexed, Listed

\* The number of a row is that of its message in the topic, or of a payment of its sender,
\* and a batch that a run of the job leaves behind is in the index but for payments.
THEOREM IndexIsTrueHolds == Spec => []IndexIsTrue
  BY IndexInductive, IndexImplies, PTL

\* A row keeps the number of its message, whatever passes of the job are under way with an
\* older view of the row, but for a payment that took the placeholder.
THEOREM NumberedOnceHolds == Spec => NumberedOnce
  <1> DEFINE Kept == \A s \in Sends : seqOf[s] > 0 /\ seqOf'[s] # seqOf[s]
                                      => IsPayment(seqOf[s]) \/ IsPayment(seqOf[s])'
  <1>1. IndexIInv /\ [Next]_vars => [Kept]_vars
    <2> SUFFICES ASSUME IndexIInv, [Next]_vars, NEW r \in Sends, seqOf[r] > 0, seqOf'[r] # seqOf[r]
                 PROVE  IsPayment(seqOf[r]) \/ IsPayment(seqOf[r])'
      OBVIOUS
    <2>1. seqOf \in [Sends -> {NoRow} \cup Nat] /\ (topic[seqOf[r]].src = r \/ IsPayment(seqOf[r]))
          /\ seqOf[r] \in DOMAIN topic
      BY DEF IndexIInv, TypeOK, ClaimedIsReal
    <2>2. ASSUME NEW s \in Sends, InsertMessage(s) PROVE FALSE
      BY <2>1, <2>2 DEF InsertMessage, IndexIInv, SubmissionInv, NoRow
    <2>3. ASSUME NEW s \in Sends, NumberMessage(s) PROVE IsPayment(seqOf[r])
      <3>1. s = r /\ seqOf'[r] = ack[r]
        BY <2>1, <2>3 DEF NumberMessage
      <3>2. hcs[r] = "acked" /\ ack[r] \in DOMAIN topic /\ topic[ack[r]].src = r
        BY <2>3, <3>1 DEF NumberMessage, IndexIInv, SubmissionInv
      <3> QED BY <2>1, <3>1, <3>2 DEF IndexIInv, TopicInv
    <2>4. ASSUME NEW q \in Passes, Write(q) PROVE IsPayment(seqOf[r])'
      <3>1. r \in pass[q].claim /\ seqOf'[r] = pass[q].next /\ pass[q].at = "write" /\ UNCHANGED topic
        BY <2>1, <2>4 DEF Write
      <3> QED BY <3>1 DEF IndexIInv, PassInv, PassOf, IsPayment
    <2> QED BY <2>2, <2>3, <2>4 DEF Next, Steps, Handler, Background, Sync, Send, SaveConversation, Submit,
               PostPayment, StartPass, LoadConversation, Fetch, Check, Lookup, Finish, MirrorShows,
               MarkAsRead, Crash, appVars, vars
  <1> QED BY <1>1, IndexInductive, PTL DEF Spec, NumberedOnce

--------------------------------------------------------------------------------
(* The form of a profile *)

\* What the requests of the page are made of.
Stored  == [who : Accounts, handle : Typed]
Request == [at : {"idle", "sent", "loaded", "checked", "saved", "failed"}, bio : Bios, handle : Typed, user : Stored,
            awaited : BOOLEAN, refresh : BOOLEAN, clean : BOOLEAN, says : Bios]
Form    == [open : BOOLEAN, bio : Bios, text : Typed, available : {"unknown", "yes", "no"}, hinted : Typed,
            timer : BOOLEAN, saving : BOOLEAN, profile : {"none", "asked", "answered"}]

FormTypeOK == /\ ProfileTypeOK /\ user \in Stored /\ fields \in Form
              /\ update \in [Updates -> Request]

\* A page that is not open has nothing under way; one that is open is of the session's user.
AwaitedInv == \A s \in Updates : update[s].awaited => update[s].user.who = "me" /\ update[s].at # "idle"

PageInv ==
    /\ ~fields.open => fields = NoForm /\ \A k \in Checks : check[k] = NoCheck
    /\ fields.open => session = "me" /\ user.who = "me"
    /\ "session" \in unsure => session # "me"
    /\ UserIsOfSession
    /\ AwaitedInv

\* What is asked, was answered, or will be asked of the username is about the input's text.
HintInv ==
    "hint" \notin unsure =>
        /\ fields.timer \/ fields.available # "unknown" => fields.hinted = fields.text
        /\ \A k \in Checks : check[k].at # "idle" => check[k].text = fields.text

\* A request that nothing has overlapped is alone; refreshes start with the update, and one
\* whose update failed is not clean.
CleanInv ==
    /\ \A s \in Updates : update[s].clean /\ Ongoing(s) => \A x \in Updates \ {s} : ~Ongoing(x)
    /\ \A s \in Updates : update[s].refresh => update[s].at \in {"idle", "checked", "saved", "failed"}
    /\ \A s \in Updates : update[s].refresh /\ update[s].clean => update[s].at # "failed"

\* The bio of the account once s is persisted.
BioAfter(s) == IF update[s].bio = NoText THEN account.bio ELSE update[s].bio

\* A refresh that something has overlapped will put the NFT in doubt when it ends.
Doomed == \E s \in Updates : update[s].refresh /\ ~update[s].clean

\* What the refreshes will say of the account, and what the NFT says before the update of a
\* request whose refresh was the faster one, and when all is done.
NftSaysInv ==
    /\ \A s \in Updates : update[s].clean =>
          /\ update[s].at = "loaded" => update[s].says = account.bio
          /\ update[s].refresh => update[s].says = IF update[s].at = "checked" THEN BioAfter(s) ELSE account.bio
    /\ "nft" \notin unsure /\ ~Doomed =>
          /\ \A s \in Updates : update[s].at = "checked" /\ ~update[s].refresh => nftSays = BioAfter(s)
          /\ (\A s \in Updates : ~update[s].refresh /\ update[s].at # "checked") => nftSays = account.bio

\* The username that the store has once the answer of s has come.
HandleAfter(s) == IF update[s].handle = NoHandle THEN update[s].user.handle ELSE update[s].handle

\* The store has the username of the account, or will have it with an answer that is coming.
StoreInv ==
    "store" \notin unsure =>
        /\ \A s \in Updates : update[s].awaited =>
              /\ update[s].clean /\ update[s].at \in {"sent", "loaded", "checked"} => update[s].user.handle = account.handle
              /\ update[s].at = "saved" => HandleAfter(s) = account.handle
        /\ "session" \notin unsure /\ user.who = "me" =>
              \/ user.handle = account.handle
              \/ \E s \in Updates : update[s].at = "saved" /\ update[s].awaited

FormIInv == FormTypeOK /\ PageInv /\ HintInv /\ CleanInv /\ NftSaysInv /\ StoreInv

LEMMA FormInitial == ProfileInit => FormIInv
  <1> SUFFICES ASSUME ProfileInit PROVE FormIInv
    OBVIOUS
  <1> USE DEF ProfileInit
  <1>1. NoForm \in Form /\ NoSave \in Request /\ TheUser \in Stored /\ NoCheck \in [at : {"idle", "asked", "answered"}, text : Typed, says : BOOLEAN]
    BY DEF NoForm, Form, NoSave, Request, SignedOut, Stored, TheUser, NoCheck, Typed, Bios, NoText, Accounts
  <1>2. FormTypeOK
    BY <1>1 DEF FormTypeOK, ProfileTypeOK, NoForm, NoSave, Typed, Bios, NoText, Accounts, TheUser
  <1>3. PageInv
    BY DEF PageInv, AwaitedInv, NoForm, NoSave, TheUser, UserIsOfSession
  <1>4. HintInv
    BY DEF HintInv, NoForm, NoCheck
  <1>5. CleanInv /\ NftSaysInv
    BY DEF CleanInv, NftSaysInv, Ongoing, NoSave
  <1>6. StoreInv
    BY DEF StoreInv, NoSave, TheUser
  <1> QED BY <1>2, <1>3, <1>4, <1>5, <1>6 DEF FormIInv

\* The records of a request, of the page and of a check, with some of their fields changed.
LEMMA RequestStays ==
    ASSUME NEW v \in Request, NEW a \in {"idle", "sent", "loaded", "checked", "saved", "failed"}, NEW b \in Bios, NEW d \in Bios
    PROVE  /\ [v EXCEPT !.at = a, !.says = d] \in Request
           /\ [v EXCEPT !.at = a, !.refresh = TRUE, !.says = d] \in Request
           /\ [v EXCEPT !.at = a] \in Request
           /\ [v EXCEPT !.at = a, !.bio = b] \in Request
           /\ [v EXCEPT !.at = a, !.clean = FALSE] \in Request
           /\ [v EXCEPT !.refresh = FALSE, !.says = d] \in Request
           /\ [v EXCEPT !.awaited = FALSE, !.user = SignedOut] \in Request
           /\ NoSave \in Request
           /\ [NoSave EXCEPT !.refresh = TRUE, !.says = d, !.clean = v.clean] \in Request
  <1>1. SignedOut \in Stored
    BY DEF SignedOut, Stored, Accounts, Typed
  <1>2. NoSave \in Request
    BY <1>1 DEF NoSave, Request, Bios, NoText, Typed
  <1> QED BY <1>1, <1>2 DEF Request

LEMMA FormStays ==
    ASSUME NEW f \in Form, NEW b \in Bios, NEW t \in Typed, NEW a \in {"unknown", "yes", "no"}, NEW q \in BOOLEAN
    PROVE  /\ [f EXCEPT !.open = TRUE, !.profile = "asked"] \in Form
           /\ [f EXCEPT !.bio = b, !.text = t, !.profile = "answered"] \in Form
           /\ [f EXCEPT !.profile = "answered"] \in Form
           /\ [f EXCEPT !.bio = b] \in Form
           /\ [f EXCEPT !.text = t, !.available = a, !.timer = q, !.hinted = t] \in Form
           /\ [f EXCEPT !.timer = FALSE] \in Form
           /\ [f EXCEPT !.available = a, !.hinted = t] \in Form
           /\ [f EXCEPT !.available = a] \in Form
           /\ [f EXCEPT !.saving = q] \in Form
           /\ NoForm \in Form
  <1>1. /\ [f EXCEPT !.open = TRUE, !.profile = "asked"] \in Form
        /\ [f EXCEPT !.bio = b, !.text = t, !.profile = "answered"] \in Form
        /\ [f EXCEPT !.profile = "answered"] \in Form
    BY DEF Form
  <1>2. /\ [f EXCEPT !.bio = b] \in Form
        /\ [f EXCEPT !.text = t, !.available = a, !.timer = q, !.hinted = t] \in Form
        /\ [f EXCEPT !.timer = FALSE] \in Form
    BY DEF Form
  <1>3. /\ [f EXCEPT !.available = a, !.hinted = t] \in Form
        /\ [f EXCEPT !.available = a] \in Form
        /\ [f EXCEPT !.saving = q] \in Form
    BY DEF Form
  <1>4. NoForm \in Form
    BY DEF Form, NoForm, Bios, NoText, Typed
  <1> QED BY <1>1, <1>2, <1>3, <1>4

Asked == [at : {"idle", "asked", "answered"}, text : Typed, says : BOOLEAN]

LEMMA CheckStays ==
    ASSUME NEW c \in Asked, NEW t \in Typed, NEW q \in BOOLEAN
    PROVE  /\ NoCheck \in Asked
           /\ [NoCheck EXCEPT !.at = "asked", !.text = t] \in Asked
           /\ [c EXCEPT !.at = "answered", !.says = q] \in Asked
  BY DEF Asked, NoCheck, Typed

\* What FormTypeOK says, one variable at a time.
LEMMA FormTypes ==
    FormTypeOK <=> /\ account \in [bio : Bios, handle : Typed] /\ rivalHandle \in Typed /\ nftSays \in Bios
                   /\ update \in [Updates -> Request] /\ check \in [Checks -> Asked] /\ fields \in Form
                   /\ session \in Accounts /\ user \in Stored /\ unsure \subseteq {"nft", "session", "store", "hint"}
  BY DEF FormTypeOK, ProfileTypeOK, Asked, Form, Request, Stored

\* One request is changed, and the others are left alone.
Becomes(s, v) == update' = [update EXCEPT ![s] = v]

LEMMA OneBecomes ==
    ASSUME FormTypeOK, NEW s \in Updates, NEW v \in Request, Becomes(s, v)
    PROVE  /\ update' \in [Updates -> Request] /\ update'[s] = v
           /\ \A x \in Updates \ {s} : update'[x] = update[x]
  BY FormTypes DEF Becomes

\* What each of the requests' steps makes of its request.
LEMMA RequestBecomes ==
    ASSUME FormTypeOK, NEW s \in Updates
    PROVE  LET v == update[s] IN
           /\ LoadUser(s) => Becomes(s, [v EXCEPT !.at = "loaded", !.says = account.bio])
           /\ FindConflict(s) =>
                IF v.handle # NoHandle /\ v.handle = rivalHandle THEN Becomes(s, [v EXCEPT !.at = "failed"])
                ELSE Becomes(s, [v EXCEPT !.at = "checked", !.refresh = TRUE, !.says = IF v.bio = NoText THEN v.says ELSE v.bio])
           /\ Persist(s) => Becomes(s, [v EXCEPT !.at = "saved", !.bio = NoText])
           /\ PersistFails(s) => Becomes(s, [v EXCEPT !.at = "failed", !.clean = FALSE])
           /\ Refreshed(s) => Becomes(s, IF v.at = "idle" THEN NoSave ELSE [v EXCEPT !.refresh = FALSE, !.says = NoText])
           /\ Answered(s) => Becomes(s, IF v.refresh THEN [NoSave EXCEPT !.refresh = TRUE, !.says = v.says, !.clean = v.clean]
                                        ELSE NoSave)
           /\ SaveFails(s) /\ v.at # "failed" => Becomes(s, [v EXCEPT !.awaited = FALSE, !.user = SignedOut])
  <1> DEFINE v == update[s]
  <1>0. update \in [Updates -> Request]
    BY FormTypes
  <1>1. LoadUser(s) => Becomes(s, [v EXCEPT !.at = "loaded", !.says = account.bio])
    BY <1>0 DEF LoadUser, Becomes, Request
  <1>2. FindConflict(s) =>
          IF v.handle # NoHandle /\ v.handle = rivalHandle THEN Becomes(s, [v EXCEPT !.at = "failed"])
          ELSE Becomes(s, [v EXCEPT !.at = "checked", !.refresh = TRUE, !.says = IF v.bio = NoText THEN v.says ELSE v.bio])
    BY <1>0 DEF FindConflict, Becomes, Request
  <1>3. Persist(s) => Becomes(s, [v EXCEPT !.at = "saved", !.bio = NoText])
    BY <1>0 DEF Persist, Becomes, Request
  <1>4. PersistFails(s) => Becomes(s, [v EXCEPT !.at = "failed", !.clean = FALSE])
    BY <1>0 DEF PersistFails, Becomes, Request
  <1>5. Refreshed(s) => Becomes(s, IF v.at = "idle" THEN NoSave ELSE [v EXCEPT !.refresh = FALSE, !.says = NoText])
    BY <1>0 DEF Refreshed, Becomes
  <1>6. Answered(s) => Becomes(s, IF v.refresh THEN [NoSave EXCEPT !.refresh = TRUE, !.says = v.says, !.clean = v.clean] ELSE NoSave)
    BY <1>0 DEF Answered, Becomes
  <1>7. SaveFails(s) /\ v.at # "failed" => Becomes(s, [v EXCEPT !.awaited = FALSE, !.user = SignedOut])
    BY <1>0 DEF SaveFails, Becomes, Request
  <1> QED BY <1>1, <1>2, <1>3, <1>4, <1>5, <1>6, <1>7

\* A save of the page: the request is made, and those that it overlaps are marked.
LEMMA SaveDoes ==
    ASSUME FormTypeOK, NEW s \in Updates, HandleSave(s)
    PROVE  /\ update' \in [Updates -> Request]
           /\ LET v == update'[s] IN
              /\ v.at = "sent" /\ v.bio = fields.bio /\ v.handle = fields.text /\ v.user = user
              /\ v.awaited /\ ~v.refresh /\ v.says = NoText
              /\ v.clean <=> \A x \in Updates \ {s} : ~Ongoing(x)
           /\ \A x \in Updates \ {s} :
              /\ update'[x].at = update[x].at /\ update'[x].bio = update[x].bio /\ update'[x].handle = update[x].handle
              /\ update'[x].user = update[x].user /\ update'[x].awaited = update[x].awaited
              /\ update'[x].refresh = update[x].refresh /\ update'[x].says = update[x].says
              /\ update'[x].clean <=> update[x].clean /\ ~Ongoing(x)
           /\ \A x \in Updates \ {s} : Ongoing(x)' <=> Ongoing(x)
           /\ Ongoing(s)' /\ ~Ongoing(s)
  <1> DEFINE alone == \A x \in Updates \ {s} : ~Ongoing(x)
             new(c) == [NoSave EXCEPT !.at = "sent", !.bio = fields.bio, !.handle = fields.text,
                                      !.user = user, !.awaited = TRUE, !.clean = c]
  <1>0. update \in [Updates -> Request] /\ fields \in Form /\ user \in Stored
    BY FormTypes
  <1>1. ({x \in Updates \ {s} : Ongoing(x)} = {}) <=> alone
    OBVIOUS
  <1>2. \A c \in BOOLEAN : /\ new(c) \in Request
                           /\ new(c).at = "sent" /\ new(c).bio = fields.bio /\ new(c).handle = fields.text
                           /\ new(c).user = user /\ new(c).awaited = TRUE /\ new(c).refresh = FALSE
                           /\ new(c).says = NoText /\ new(c).clean = c
    BY <1>0 DEF NoSave, Request, Form, Bios, NoText
  <1>3. update'[s] = new({x \in Updates \ {s} : Ongoing(x)} = {})
    BY DEF HandleSave
  <1>4. \E c \in BOOLEAN : update'[s] = new(c) /\ (c <=> alone)
    <2>1. CASE alone
      BY <1>1, <1>3, <2>1
    <2>2. CASE ~alone
      BY <1>1, <1>3, <2>2
    <2> QED BY <2>1, <2>2
  <1>5. \A x \in Updates \ {s} :
           /\ Ongoing(x) => update'[x] = [update[x] EXCEPT !.clean = FALSE]
           /\ ~Ongoing(x) => update'[x] = update[x]
    <2> SUFFICES ASSUME NEW x \in Updates \ {s}
                 PROVE  /\ Ongoing(x) => update'[x] = [update[x] EXCEPT !.clean = FALSE]
                        /\ ~Ongoing(x) => update'[x] = update[x]
      OBVIOUS
    <2>1. update'[x] = [update[x] EXCEPT !.clean = @ /\ ~Ongoing(x)]
      BY DEF HandleSave
    <2>2. update[x] \in Request
      BY <1>0
    <2>3. ~Ongoing(x) => (update[x].clean /\ ~Ongoing(x)) = update[x].clean
      <3>1. update[x].clean \in BOOLEAN
        BY <2>2 DEF Request
      <3> QED BY <3>1
    <2>4. Ongoing(x) => (update[x].clean /\ ~Ongoing(x)) = FALSE
      OBVIOUS
    <2>5. [update[x] EXCEPT !.clean = update[x].clean] = update[x]
      BY <2>2 DEF Request
    <2> QED BY <2>1, <2>3, <2>4, <2>5
  <1> HIDE DEF alone, new
  <1>6. \A x \in Updates : update'[x] \in Request
    <2>1. \A w \in Request : [w EXCEPT !.clean = FALSE] \in Request
      BY DEF Request
    <2>2. \A x \in Updates \ {s} : update'[x] \in Request
      BY <1>0, <1>5, <2>1
    <2> QED BY <1>2, <1>4, <2>2
  <1>7. update' = [x \in Updates |-> update'[x]]
    BY DEF HandleSave
  <1>8. update' \in [Updates -> Request]
    BY <1>6, <1>7
  <1>9. /\ update'[s].at = "sent" /\ update'[s].bio = fields.bio /\ update'[s].handle = fields.text /\ update'[s].user = user
        /\ update'[s].awaited /\ ~update'[s].refresh /\ update'[s].says = NoText
        /\ update'[s].clean <=> alone
    BY <1>2, <1>4
  <1>10. \A x \in Updates \ {s} :
              /\ update'[x].at = update[x].at /\ update'[x].bio = update[x].bio /\ update'[x].handle = update[x].handle
              /\ update'[x].user = update[x].user /\ update'[x].awaited = update[x].awaited
              /\ update'[x].refresh = update[x].refresh /\ update'[x].says = update[x].says
              /\ update'[x].clean <=> update[x].clean /\ ~Ongoing(x)
    <2> SUFFICES ASSUME NEW x \in Updates \ {s}
                 PROVE  /\ update'[x].at = update[x].at /\ update'[x].bio = update[x].bio /\ update'[x].handle = update[x].handle
                        /\ update'[x].user = update[x].user /\ update'[x].awaited = update[x].awaited
                        /\ update'[x].refresh = update[x].refresh /\ update'[x].says = update[x].says
                        /\ update'[x].clean <=> update[x].clean /\ ~Ongoing(x)
      OBVIOUS
    <2> DEFINE w == [update[x] EXCEPT !.clean = FALSE]
    <2>1. update[x] \in Request
      BY <1>0
    <2>2. /\ w.at = update[x].at /\ w.bio = update[x].bio /\ w.handle = update[x].handle /\ w.user = update[x].user
          /\ w.awaited = update[x].awaited /\ w.refresh = update[x].refresh /\ w.says = update[x].says /\ w.clean = FALSE
      BY <2>1 DEF Request
    <2>3. Ongoing(x) => update'[x] = w
      BY <1>5
    <2>4. ~Ongoing(x) => update'[x] = update[x]
      BY <1>5
    <2> HIDE DEF w
    <2> QED BY <2>2, <2>3, <2>4
  <1>11. \A x \in Updates \ {s} : Ongoing(x)' <=> Ongoing(x)
    BY <1>10 DEF Ongoing
  <1>12. Ongoing(s)' /\ ~Ongoing(s)
    BY <1>9 DEF HandleSave, Ongoing
  <1> QED BY <1>8, <1>9, <1>10, <1>11, <1>12 DEF alone

LEMMA FormTypeKeeps == FormTypeOK /\ [ProfileNext]_pvars => FormTypeOK'
  <1> SUFFICES ASSUME FormTypeOK, [ProfileNext]_pvars PROVE FormTypeOK'
    OBVIOUS
  <1> DEFINE AccountOK == account' \in [bio : Bios, handle : Typed] /\ rivalHandle' \in Typed /\ nftSays' \in Bios
             StoreOK   == session' \in Accounts /\ user' \in Stored
             UnsureOK  == unsure' \subseteq {"nft", "session", "store", "hint"}
  <1>0. /\ account \in [bio : Bios, handle : Typed] /\ rivalHandle \in Typed /\ nftSays \in Bios
        /\ update \in [Updates -> Request] /\ check \in [Checks -> Asked] /\ fields \in Form
        /\ session \in Accounts /\ user \in Stored /\ unsure \subseteq {"nft", "session", "store", "hint"}
    BY FormTypes
  <1>1. AccountOK /\ update' \in [Updates -> Request] /\ check' \in [Checks -> Asked] /\ fields' \in Form
        /\ StoreOK /\ UnsureOK => FormTypeOK'
    BY DEF FormTypeOK, ProfileTypeOK, Asked, Form, Request, Stored
  <1>2. account.bio \in Bios /\ account.handle \in Typed /\ NoText \in Bios /\ "written" \in Bios /\ NoHandle \in Typed
        /\ \A h \in Handles : h \in Typed
    BY <1>0 DEF Bios, Typed
  <1>3. \A s \in Updates : update[s].bio \in Bios /\ update[s].handle \in Typed /\ update[s].says \in Bios
                           /\ update[s].user \in Stored
    BY <1>0 DEF Request
  <1>4. NoForm \in Form /\ NoCheck \in Asked /\ NoSave \in Request
    BY DEF NoForm, Form, NoCheck, Asked, NoSave, Request, Stored, SignedOut, Accounts, Typed, Bios, NoText
  <1>5. SignedOut \in Stored /\ Other \in Stored /\ TheUser \in Stored
    BY <1>2 DEF SignedOut, Other, TheUser, Stored, Accounts
  <1>6. ASSUME Leave PROVE fields' \in Form /\ check' \in [Checks -> Asked] /\ UnsureOK
    BY <1>0, <1>4, <1>6 DEF Leave
  <1>7. CASE SignOut
    BY <1>0, <1>1, <1>5, <1>6, <1>7 DEF SignOut, Accounts
  <1>8. ASSUME NEW u \in {TheUser, Other}, SignIn(u) PROVE FormTypeOK'
    <2>1. u \in Stored /\ u.who \in Accounts
      BY <1>5 DEF Stored
    <2> QED BY <1>0, <1>1, <1>8, <2>1 DEF SignIn
  <1>9. CASE OpenSettings
    BY <1>0, <1>1, <1>2, <1>4, <1>9, FormStays DEF OpenSettings
  <1>10. CASE LeaveSettings
    BY <1>0, <1>1, <1>4, <1>10 DEF LeaveSettings
  <1>11. CASE ProfileArrives \/ ProfileFails
    <2>1. /\ [fields EXCEPT !.bio = account.bio, !.text = account.handle, !.profile = "answered"] \in Form
          /\ [fields EXCEPT !.profile = "answered"] \in Form
      BY <1>0, <1>2, FormStays
    <2>2. fields' \in Form
      BY <1>11, <2>1 DEF ProfileArrives, ProfileFails
    <2> QED BY <1>0, <1>1, <1>11, <2>2 DEF ProfileArrives, ProfileFails
  <1>12. ASSUME NEW b \in Bios, TypeBio(b) PROVE FormTypeOK'
    <2>1. fields' \in Form
      BY <1>0, <1>12, FormStays, <1>2 DEF TypeBio, Edit
    <2> QED BY <1>0, <1>1, <1>12, <2>1 DEF TypeBio, Edit
  <1>13. ASSUME NEW t \in Typed, HandleUsernameChange(t) PROVE FormTypeOK'
    <2>1. \A q \in BOOLEAN : [fields EXCEPT !.text = t, !.available = "unknown", !.timer = q, !.hinted = t] \in Form
      BY <1>0, <1>2, FormStays
    <2>2. fields' = [fields EXCEPT !.text = t, !.available = "unknown", !.timer = t \in Handles, !.hinted = t]
      BY <1>13 DEF HandleUsernameChange, Edit
    <2>3. (t \in Handles) = TRUE \/ (t \in Handles) = FALSE
      OBVIOUS
    <2>4. fields' \in Form
      BY <2>1, <2>2, <2>3
    <2> QED BY <1>0, <1>1, <1>13, <2>4 DEF HandleUsernameChange, Edit
  <1>14. ASSUME NEW k \in Checks, CheckUsername(k) PROVE FormTypeOK'
    <2>1. fields' \in Form
      BY <1>0, <1>2, <1>14, FormStays DEF CheckUsername
    <2>2. fields.hinted \in Typed
      BY <1>0 DEF Form
    <2>3. [NoCheck EXCEPT !.at = "asked", !.text = fields.hinted] \in Asked
      BY <1>4, <2>2, CheckStays
    <2>4. check' \in [Checks -> Asked]
      BY <1>0, <1>14, <2>3 DEF CheckUsername
    <2> QED BY <1>0, <1>1, <1>14, <2>1, <2>4 DEF CheckUsername
  <1>15. ASSUME NEW k \in Checks, CheckUsernameAvailability(k) PROVE FormTypeOK'
    <2>1. PICK q \in BOOLEAN : q = (check[k].text \in Handles /\ ~InUse(check[k].text))
      OBVIOUS
    <2>2. check[k] \in Asked
      BY <1>0
    <2>3. check' = [check EXCEPT ![k] = [check[k] EXCEPT !.at = "answered", !.says = q]]
      BY <1>0, <1>15, <2>1 DEF CheckUsernameAvailability
    <2>4. [check[k] EXCEPT !.at = "answered", !.says = q] \in Asked
      BY <1>2, <2>2, CheckStays
    <2>5. check' \in [Checks -> Asked]
      BY <1>0, <2>3, <2>4
    <2> QED BY <1>0, <1>1, <1>15, <2>5 DEF CheckUsernameAvailability
  <1>16. ASSUME NEW k \in Checks, CheckArrives(k) \/ CheckFails(k) PROVE FormTypeOK'
    <2>1. check' \in [Checks -> Asked]
      BY <1>0, <1>4, <1>16 DEF CheckArrives, CheckFails
    <2>2. check[k].text \in Typed
      BY <1>0 DEF Asked
    <2>3. /\ [fields EXCEPT !.available = "yes", !.hinted = check[k].text] \in Form
          /\ [fields EXCEPT !.available = "no", !.hinted = check[k].text] \in Form
          /\ [fields EXCEPT !.available = "unknown"] \in Form
      BY <1>0, <1>2, <2>2, FormStays
    <2>4. fields' \in Form
      BY <1>16, <2>3 DEF CheckArrives, CheckFails
    <2> QED BY <1>0, <1>1, <1>16, <2>1, <2>4 DEF CheckArrives, CheckFails
  <1>17. ASSUME NEW s \in Updates, HandleSave(s) PROVE FormTypeOK'
    <2>1. fields' \in Form
      BY <1>0, <1>2, <1>17, FormStays DEF HandleSave
    <2>2. update' \in [Updates -> Request]
      BY <1>17, SaveDoes
    <2> QED BY <1>0, <1>1, <1>17, <2>1, <2>2 DEF HandleSave
  <1>18. ASSUME NEW s \in Updates, NEW v \in Request, Becomes(s, v) PROVE update' \in [Updates -> Request]
    BY <1>18, OneBecomes
  <1>19. ASSUME NEW s \in Updates, LoadUser(s) \/ FindConflict(s) \/ Persist(s) \/ PersistFails(s) PROVE FormTypeOK'
    <2>1. update[s] \in Request
      BY <1>0
    <2>2. update' \in [Updates -> Request]
      <3>1. CASE LoadUser(s)
        <4>1. [update[s] EXCEPT !.at = "loaded", !.says = account.bio] \in Request
          BY <1>2, <2>1, RequestStays
        <4> QED BY <1>18, <3>1, <4>1, RequestBecomes
      <3>2. CASE FindConflict(s)
        <4>1. \A d \in Bios : [update[s] EXCEPT !.at = "checked", !.refresh = TRUE, !.says = d] \in Request
          BY <1>2, <2>1, RequestStays
        <4>2. [update[s] EXCEPT !.at = "failed"] \in Request
          BY <1>2, <2>1, RequestStays
        <4> DEFINE d == IF update[s].bio = NoText THEN update[s].says ELSE update[s].bio
        <4>3. d \in Bios
          BY <1>3
        <4>4. Becomes(s, [update[s] EXCEPT !.at = "failed"])
              \/ Becomes(s, [update[s] EXCEPT !.at = "checked", !.refresh = TRUE, !.says = d])
          BY <3>2, RequestBecomes
        <4> HIDE DEF d
        <4> QED BY <1>18, <4>1, <4>2, <4>3, <4>4
      <3>3. CASE Persist(s)
        <4>1. [update[s] EXCEPT !.at = "saved", !.bio = NoText] \in Request
          BY <1>2, <2>1, RequestStays
        <4> QED BY <1>18, <3>3, <4>1, RequestBecomes
      <3>4. CASE PersistFails(s)
        <4>1. [update[s] EXCEPT !.at = "failed", !.clean = FALSE] \in Request
          BY <1>2, <2>1, RequestStays
        <4> QED BY <1>18, <3>4, <4>1, RequestBecomes
      <3> QED BY <1>19, <3>1, <3>2, <3>3, <3>4
    <2>3. account' \in [bio : Bios, handle : Typed]
      BY <1>0, <1>2, <1>3, <1>19 DEF LoadUser, FindConflict, Persist, PersistFails
    <2> QED BY <1>0, <1>1, <1>19, <2>2, <2>3 DEF LoadUser, FindConflict, Persist, PersistFails
  <1>20. ASSUME NEW s \in Updates, RefreshDidNft(s) \/ RefreshFails(s) PROVE FormTypeOK'
    <2>1. update[s] \in Request
      BY <1>0
    <2>2. update' \in [Updates -> Request]
      BY <1>2, <1>3, <1>18, <1>20, <2>1, RequestBecomes, RequestStays DEF RefreshDidNft, RefreshFails
    <2> QED BY <1>0, <1>1, <1>3, <1>20, <2>2 DEF RefreshDidNft, RefreshFails
  <1>21. ASSUME NEW s \in Updates, Answered(s) PROVE update' \in [Updates -> Request]
    <2>1. update[s] \in Request
      BY <1>0
    <2>2. [NoSave EXCEPT !.refresh = TRUE, !.says = update[s].says, !.clean = update[s].clean] \in Request
      BY <1>2, <1>3, <2>1, RequestStays
    <2>3. Becomes(s, [NoSave EXCEPT !.refresh = TRUE, !.says = update[s].says, !.clean = update[s].clean]) \/ Becomes(s, NoSave)
      BY <1>21, RequestBecomes
    <2> QED BY <1>4, <1>18, <2>2, <2>3
  <1>22. ASSUME NEW s \in Updates, SaveSucceeds(s) \/ SaveFails(s) \/ Unheard(s) PROVE FormTypeOK'
    <2>1. fields' \in Form
      BY <1>0, <1>2, <1>22, FormStays DEF SaveSucceeds, SaveFails, Unheard
    <2>2. update' \in [Updates -> Request]
      <3>1. CASE SaveFails(s) /\ update[s].at # "failed"
        <4>1. update[s] \in Request
          BY <1>0
        <4>2. Becomes(s, [update[s] EXCEPT !.awaited = FALSE, !.user = SignedOut])
          BY <1>0, <3>1, RequestBecomes
        <4>3. [update[s] EXCEPT !.awaited = FALSE, !.user = SignedOut] \in Request
          BY <1>3, <4>1, RequestStays
        <4> QED BY <1>18, <4>2, <4>3
      <3>2. CASE SaveFails(s) /\ update[s].at = "failed"
        BY <1>21, <3>2 DEF SaveFails
      <3> QED BY <1>21, <1>22, <3>1, <3>2 DEF SaveSucceeds, Unheard
    <2>3. user' \in Stored
      <3>1. \A w \in Stored, h \in Typed : [w EXCEPT !.handle = h] \in Stored /\ w.handle \in Typed
        BY DEF Stored
      <3>2. CASE SaveSucceeds(s)
        <4>1. \E h \in Typed : user' = [update[s].user EXCEPT !.handle = h]
          <5>1. user' = [update[s].user EXCEPT !.handle = IF update[s].handle = NoHandle THEN update[s].user.handle
                                                          ELSE update[s].handle]
            BY <3>2 DEF SaveSucceeds
          <5> QED BY <1>3, <3>1, <5>1
        <4> QED BY <1>3, <3>1, <4>1
      <3> QED BY <1>0, <1>22, <3>2 DEF SaveFails, Unheard
    <2>4. UnsureOK
      BY <1>0, <1>22 DEF SaveSucceeds, SaveFails, Unheard
    <2> QED BY <1>0, <1>1, <1>22, <2>1, <2>2, <2>3, <2>4 DEF SaveSucceeds, SaveFails, Unheard
  <1>23. CASE UNCHANGED pvars
    BY <1>0, <1>1, <1>23 DEF pvars
  <1> QED BY <1>7, <1>8, <1>9, <1>10, <1>11, <1>12, <1>13, <1>14, <1>15, <1>16, <1>17, <1>19, <1>20, <1>22, <1>23
          DEF ProfileNext

\* The other requests, and what stays of one request while its handler goes on.
RestStay(s) == \A x \in Updates \ {s} : update'[x] = update[x]
Keeps(s)    == /\ update'[s].handle = update[s].handle /\ update'[s].user = update[s].user
               /\ update'[s].awaited = update[s].awaited /\ update'[s].clean = update[s].clean

LEMMA LoadDoes ==
    ASSUME FormTypeOK, NEW s \in Updates, LoadUser(s)
    PROVE  /\ RestStay(s) /\ Keeps(s) /\ update[s].at = "sent" /\ update'[s].at = "loaded"
           /\ update'[s].bio = update[s].bio /\ update'[s].refresh = update[s].refresh /\ update'[s].says = account.bio
  <1> DEFINE v == [update[s] EXCEPT !.at = "loaded", !.says = account.bio]
  <1>1. update[s] \in Request /\ account.bio \in Bios /\ update[s].at = "sent"
    BY FormTypes DEF LoadUser
  <1>2. v \in Request
    BY <1>1, RequestStays
  <1>3. update'[s] = v /\ RestStay(s)
    BY <1>2, RequestBecomes, OneBecomes DEF RestStay
  <1> QED BY <1>1, <1>3 DEF Keeps, Request

LEMMA ConflictDoes ==
    ASSUME FormTypeOK, NEW s \in Updates, FindConflict(s)
    PROVE  /\ RestStay(s) /\ Keeps(s) /\ update[s].at = "loaded" /\ update'[s].bio = update[s].bio
           /\ \/ update'[s].at = "failed" /\ update'[s].refresh = update[s].refresh /\ update'[s].says = update[s].says
              \/ /\ update'[s].at = "checked" /\ update'[s].refresh
                 /\ update'[s].says = IF update[s].bio = NoText THEN update[s].says ELSE update[s].bio
  <1> DEFINE d == IF update[s].bio = NoText THEN update[s].says ELSE update[s].bio
             v == [update[s] EXCEPT !.at = "failed"]
             w == [update[s] EXCEPT !.at = "checked", !.refresh = TRUE, !.says = d]
  <1>1. update[s] \in Request /\ update[s].at = "loaded"
    BY FormTypes DEF FindConflict
  <1>2. d \in Bios
    BY <1>1 DEF Request
  <1>3. Becomes(s, v) \/ Becomes(s, w)
    BY RequestBecomes
  <1>4. v.at = "failed" /\ v.refresh = update[s].refresh /\ v.says = update[s].says /\ v.bio = update[s].bio
        /\ v.handle = update[s].handle /\ v.user = update[s].user /\ v.awaited = update[s].awaited /\ v.clean = update[s].clean
    BY <1>1 DEF Request
  <1>5. w.at = "checked" /\ w.refresh = TRUE /\ w.says = d /\ w.bio = update[s].bio
        /\ w.handle = update[s].handle /\ w.user = update[s].user /\ w.awaited = update[s].awaited /\ w.clean = update[s].clean
    BY <1>1 DEF Request
  <1> HIDE DEF d
  <1>6. v \in Request /\ w \in Request
    BY <1>1, <1>2, RequestStays, "written" \in Bios DEF Bios
  <1> HIDE DEF v, w
  <1>7. RestStay(s) /\ (update'[s] = v \/ update'[s] = w)
    BY <1>3, <1>6, OneBecomes DEF RestStay
  <1> QED BY <1>1, <1>4, <1>5, <1>7 DEF Keeps, d

LEMMA PersistDoes ==
    ASSUME FormTypeOK, NEW s \in Updates, Persist(s)
    PROVE  /\ RestStay(s) /\ Keeps(s) /\ update[s].at = "checked" /\ update'[s].at = "saved"
           /\ update'[s].refresh = update[s].refresh /\ update'[s].says = update[s].says
           /\ account'.bio = BioAfter(s)
           /\ account'.handle = IF update[s].handle = NoHandle THEN account.handle ELSE update[s].handle
  <1> DEFINE v == [update[s] EXCEPT !.at = "saved", !.bio = NoText]
  <1>1. update[s] \in Request /\ update[s].at = "checked" /\ NoText \in Bios
    BY FormTypes DEF Persist, Bios
  <1>2. v \in Request
    BY <1>1, RequestStays
  <1>3. update'[s] = v /\ RestStay(s)
    BY <1>2, RequestBecomes, OneBecomes DEF RestStay
  <1>4. /\ account'.bio = BioAfter(s)
        /\ account'.handle = IF update[s].handle = NoHandle THEN account.handle ELSE update[s].handle
    BY DEF Persist, BioAfter
  <1> QED BY <1>1, <1>3, <1>4 DEF Keeps, Request

LEMMA PersistFailsDoes ==
    ASSUME FormTypeOK, NEW s \in Updates, PersistFails(s)
    PROVE  /\ RestStay(s) /\ update[s].at = "checked" /\ update'[s].at = "failed"
           /\ update'[s].user = update[s].user /\ update'[s].awaited = update[s].awaited
           /\ ~update'[s].clean /\ update'[s].refresh = update[s].refresh
  <1> DEFINE v == [update[s] EXCEPT !.at = "failed", !.clean = FALSE]
  <1>1. update[s] \in Request /\ update[s].at = "checked" /\ NoText \in Bios
    BY FormTypes DEF PersistFails, Bios
  <1>2. v \in Request
    BY <1>1, RequestStays
  <1>3. update'[s] = v /\ RestStay(s)
    BY <1>2, RequestBecomes, OneBecomes DEF RestStay
  <1> QED BY <1>1, <1>3 DEF Request

LEMMA RefreshedDoes ==
    ASSUME FormTypeOK, NEW s \in Updates, Refreshed(s)
    PROVE  /\ RestStay(s) /\ ~update'[s].refresh /\ update'[s].at = update[s].at
           /\ update[s].at # "idle" => update'[s].bio = update[s].bio /\ Keeps(s)
           /\ update[s].at = "idle" => update'[s] = NoSave
  <1> DEFINE v == [update[s] EXCEPT !.refresh = FALSE, !.says = NoText]
  <1>1. update[s] \in Request /\ NoText \in Bios
    BY FormTypes DEF Bios
  <1>2. v \in Request /\ NoSave \in Request
    BY <1>1, RequestStays
  <1>3. Becomes(s, IF update[s].at = "idle" THEN NoSave ELSE v)
    BY RequestBecomes
  <1>4. CASE update[s].at = "idle"
    <2>1. update'[s] = NoSave /\ RestStay(s)
      BY <1>2, <1>3, <1>4, OneBecomes DEF RestStay
    <2> QED BY <1>4, <2>1 DEF NoSave
  <1>5. CASE update[s].at # "idle"
    <2>1. update'[s] = v /\ RestStay(s)
      BY <1>2, <1>3, <1>5, OneBecomes DEF RestStay
    <2> QED BY <1>1, <1>5, <2>1 DEF Keeps, Request
  <1> QED BY <1>4, <1>5

LEMMA AnsweredDoes ==
    ASSUME FormTypeOK, NEW s \in Updates, Answered(s)
    PROVE  /\ RestStay(s) /\ update'[s].at = "idle" /\ ~update'[s].awaited /\ update'[s].refresh = update[s].refresh
           /\ update[s].refresh => update'[s].says = update[s].says /\ update'[s].clean = update[s].clean
  <1> DEFINE v == [NoSave EXCEPT !.refresh = TRUE, !.says = update[s].says, !.clean = update[s].clean]
  <1>1. update[s] \in Request /\ NoText \in Bios
    BY FormTypes DEF Bios
  <1>2. update[s].says \in Bios /\ update[s].refresh \in BOOLEAN
    BY <1>1 DEF Request
  <1>3. v \in Request /\ NoSave \in Request
    BY <1>1, <1>2, RequestStays
  <1>4. Becomes(s, IF update[s].refresh THEN v ELSE NoSave)
    BY RequestBecomes
  <1>5. CASE update[s].refresh = TRUE
    <2>1. update'[s] = v /\ RestStay(s)
      BY <1>3, <1>4, <1>5, OneBecomes DEF RestStay
    <2> QED BY <1>5, <2>1 DEF NoSave
  <1>6. CASE update[s].refresh = FALSE
    <2>1. update'[s] = NoSave /\ RestStay(s)
      BY <1>3, <1>4, <1>6, OneBecomes DEF RestStay
    <2>2. NoSave.at = "idle" /\ NoSave.awaited = FALSE /\ NoSave.refresh = FALSE
      BY DEF NoSave
    <2>3. update'[s].refresh = update[s].refresh /\ ~update'[s].awaited
      BY <1>6, <2>1, <2>2
    <2> QED BY <1>6, <2>1, <2>2, <2>3
  <1> QED BY <1>2, <1>5, <1>6

LEMMA GiveUpDoes ==
    ASSUME FormTypeOK, NEW s \in Updates, SaveFails(s), update[s].at # "failed"
    PROVE  /\ RestStay(s) /\ update'[s].at = update[s].at /\ ~update'[s].awaited /\ update'[s].bio = update[s].bio
           /\ update'[s].refresh = update[s].refresh /\ update'[s].says = update[s].says /\ update'[s].clean = update[s].clean
  <1> DEFINE v == [update[s] EXCEPT !.awaited = FALSE, !.user = SignedOut]
  <1>1. update[s] \in Request /\ NoText \in Bios
    BY FormTypes DEF Bios
  <1>2. v \in Request
    BY <1>1, RequestStays
  <1>3. update'[s] = v /\ RestStay(s)
    BY <1>2, RequestBecomes, OneBecomes DEF RestStay
  <1> QED BY <1>1, <1>3 DEF Request

\* What is under way, with what becomes of one request.
LEMMA OngoingStays ==
    ASSUME NEW s \in Updates, RestStay(s)
    PROVE  \A x \in Updates \ {s} : Ongoing(x)' = Ongoing(x)
  BY DEF RestStay, Ongoing

LEMMA CleanKeeps == FormIInv /\ [ProfileNext]_pvars => CleanInv'
  <1> SUFFICES ASSUME FormIInv, [ProfileNext]_pvars PROVE CleanInv'
    OBVIOUS
  <1>0. FormTypeOK
    BY DEF FormIInv
  <1>1. CASE UNCHANGED update
    BY <1>1 DEF FormIInv, CleanInv, Ongoing
  <1>2. ASSUME NEW s \in Updates, RestStay(s),
               Ongoing(s)' => Ongoing(s),
               update'[s].clean /\ Ongoing(s)' => update[s].clean,
               update'[s].refresh => update'[s].at \in {"idle", "checked", "saved", "failed"},
               update'[s].refresh /\ update'[s].clean => update'[s].at # "failed"
        PROVE  CleanInv'
    <2>1. \A x \in Updates \ {s} : Ongoing(x)' = Ongoing(x)
      BY <1>2, OngoingStays
    <2>2. \A x \in Updates : Ongoing(x)' => Ongoing(x)
      BY <1>2, <2>1
    <2>3. \A x \in Updates : update'[x].clean /\ Ongoing(x)' => update[x].clean /\ Ongoing(x)
      BY <1>2, <2>2 DEF RestStay
    <2>4. \A x \in Updates : update'[x].clean /\ Ongoing(x)' => \A y \in Updates \ {x} : ~Ongoing(y)'
      BY <2>2, <2>3 DEF FormIInv, CleanInv
    <2>5. \A x \in Updates : /\ update'[x].refresh => update'[x].at \in {"idle", "checked", "saved", "failed"}
                             /\ update'[x].refresh /\ update'[x].clean => update'[x].at # "failed"
      BY <1>2 DEF FormIInv, CleanInv, RestStay
    <2> QED BY <2>4, <2>5 DEF CleanInv
  <1>3. ASSUME NEW s \in Updates, HandleSave(s) PROVE CleanInv'
    <2>1. /\ ~update'[s].refresh /\ (update'[s].clean <=> \A x \in Updates \ {s} : ~Ongoing(x))
          /\ \A x \in Updates \ {s} : /\ update'[x].at = update[x].at /\ update'[x].refresh = update[x].refresh
                                      /\ update'[x].clean <=> update[x].clean /\ ~Ongoing(x)
                                      /\ Ongoing(x)' <=> Ongoing(x)
      BY <1>0, <1>3, SaveDoes
    <2>2. \A x \in Updates : update'[x].clean /\ Ongoing(x)' => x = s
      BY <2>1
    <2>3. update'[s].clean => \A y \in Updates \ {s} : ~Ongoing(y)'
      BY <2>1
    <2>4. \A x \in Updates : /\ update'[x].refresh => update'[x].at \in {"idle", "checked", "saved", "failed"}
                             /\ update'[x].refresh /\ update'[x].clean => update'[x].at # "failed"
      BY <2>1 DEF FormIInv, CleanInv
    <2> QED BY <2>2, <2>3, <2>4 DEF CleanInv
  <1>4. ASSUME NEW s \in Updates, LoadUser(s) PROVE CleanInv'
    <2>1. /\ RestStay(s) /\ update[s].at = "sent" /\ update'[s].at = "loaded"
          /\ update'[s].clean = update[s].clean /\ update'[s].refresh = update[s].refresh
      BY <1>0, <1>4, LoadDoes DEF Keeps
    <2>2. ~update[s].refresh /\ Ongoing(s)
      BY <2>1 DEF FormIInv, CleanInv, Ongoing
    <2> QED BY <1>2, <2>1, <2>2
  <1>5. ASSUME NEW s \in Updates, FindConflict(s) PROVE CleanInv'
    <2>1. /\ RestStay(s) /\ update[s].at = "loaded" /\ update'[s].clean = update[s].clean
          /\ update'[s].at = "checked" \/ (update'[s].at = "failed" /\ update'[s].refresh = update[s].refresh)
      BY <1>0, <1>5, ConflictDoes DEF Keeps
    <2>2. ~update[s].refresh /\ Ongoing(s)
      BY <2>1 DEF FormIInv, CleanInv, Ongoing
    <2> QED BY <1>2, <2>1, <2>2
  <1>6. ASSUME NEW s \in Updates, Persist(s) PROVE CleanInv'
    <2>1. /\ RestStay(s) /\ update[s].at = "checked" /\ update'[s].clean = update[s].clean /\ update'[s].at = "saved"
      BY <1>0, <1>6, PersistDoes DEF Keeps
    <2>2. Ongoing(s)
      BY <2>1 DEF Ongoing
    <2> QED BY <1>2, <2>1, <2>2
  <1>7. ASSUME NEW s \in Updates, PersistFails(s) PROVE CleanInv'
    <2>1. /\ RestStay(s) /\ update[s].at = "checked" /\ ~update'[s].clean /\ update'[s].at = "failed"
      BY <1>0, <1>7, PersistFailsDoes
    <2>2. Ongoing(s)
      BY <2>1 DEF Ongoing
    <2> QED BY <1>2, <2>1, <2>2
  <1>8. ASSUME NEW s \in Updates, RefreshDidNft(s) \/ RefreshFails(s) PROVE CleanInv'
    <2>1. /\ update[s].refresh /\ RestStay(s) /\ ~update'[s].refresh /\ update'[s].at = update[s].at
          /\ update[s].at # "idle" => update'[s].clean = update[s].clean
      BY <1>0, <1>8, RefreshedDoes DEF Keeps, RefreshDidNft, RefreshFails
    <2>2. Ongoing(s) /\ (Ongoing(s)' => update'[s].at # "idle")
      BY <2>1 DEF Ongoing
    <2> QED BY <1>2, <2>1, <2>2
  <1>9. ASSUME NEW s \in Updates, Answered(s) PROVE CleanInv'
    <2>1. /\ RestStay(s) /\ update'[s].at = "idle" /\ update'[s].refresh = update[s].refresh
          /\ update[s].refresh => update'[s].clean = update[s].clean
      BY <1>0, <1>9, AnsweredDoes
    <2>2. (Ongoing(s)' => Ongoing(s)) /\ (Ongoing(s)' => update[s].refresh)
      BY <2>1 DEF Ongoing
    <2> QED BY <1>2, <2>1, <2>2
  <1>10. ASSUME NEW s \in Updates, SaveFails(s), update[s].at # "failed" PROVE CleanInv'
    <2>1. /\ RestStay(s) /\ update'[s].at = update[s].at /\ update'[s].refresh = update[s].refresh
          /\ update'[s].clean = update[s].clean
      BY <1>0, <1>10, GiveUpDoes
    <2>2. Ongoing(s)' => Ongoing(s)
      BY <2>1 DEF Ongoing
    <2> QED BY <1>2, <2>1, <2>2 DEF FormIInv, CleanInv
  <1>11. ASSUME NEW s \in Updates, SaveSucceeds(s) \/ SaveFails(s) \/ Unheard(s) PROVE CleanInv'
    BY <1>9, <1>10, <1>11 DEF SaveSucceeds, SaveFails, Unheard
  <1>12. CASE SignOut \/ SignIn(TheUser) \/ SignIn(Other) \/ OpenSettings \/ LeaveSettings \/ ProfileArrives \/ ProfileFails
    BY <1>1, <1>12 DEF SignOut, SignIn, OpenSettings, LeaveSettings, ProfileArrives, ProfileFails
  <1>13. ASSUME \/ \E b \in Bios : TypeBio(b)
                \/ \E t \in Typed : HandleUsernameChange(t)
                \/ \E k \in Checks : CheckUsername(k) \/ CheckUsernameAvailability(k) \/ CheckArrives(k) \/ CheckFails(k)
         PROVE CleanInv'
    BY <1>1, <1>13 DEF TypeBio, HandleUsernameChange, Edit, CheckUsername, CheckUsernameAvailability, CheckArrives, CheckFails
  <1>14. CASE UNCHANGED pvars
    BY <1>1, <1>14 DEF pvars
  <1> QED BY <1>3, <1>4, <1>5, <1>6, <1>7, <1>8, <1>11, <1>12, <1>13, <1>14 DEF ProfileNext

\* A step of one request that puts nothing right or in doubt for the others: what is left to
\* show of it is about that request.
LEMMA NftSaysBut ==
    ASSUME FormIInv, NEW s \in Updates, RestStay(s), UNCHANGED <<account, nftSays>>,
           "nft" \notin unsure' => "nft" \notin unsure,
           update'[s].clean /\ update'[s].at = "loaded" => update'[s].says = account.bio,
           update'[s].clean /\ update'[s].refresh
              => update'[s].says = IF update'[s].at = "checked" THEN BioAfter(s)' ELSE account.bio,
           update[s].refresh /\ ~update[s].clean => update'[s].refresh /\ ~update'[s].clean,
           update'[s].at = "checked" /\ ~update'[s].refresh
              => update[s].at = "checked" /\ ~update[s].refresh /\ update'[s].bio = update[s].bio,
           ~update'[s].refresh /\ update'[s].at # "checked" => ~update[s].refresh /\ update[s].at # "checked"
    PROVE  NftSaysInv'
  <1>1. \A x \in Updates \ {s} : update'[x] = update[x] /\ BioAfter(x)' = BioAfter(x)
    BY DEF RestStay, BioAfter
  <1>2. ~Doomed' => ~Doomed
    BY <1>1 DEF Doomed
  <1>3. \A x \in Updates : update'[x].clean =>
           /\ update'[x].at = "loaded" => update'[x].says = account.bio
           /\ update'[x].refresh => update'[x].says = IF update'[x].at = "checked" THEN BioAfter(x)' ELSE account.bio
    <2>1. \A x \in Updates \ {s} : update'[x].clean =>
             /\ update'[x].at = "loaded" => update'[x].says = account.bio
             /\ update'[x].refresh => update'[x].says = IF update'[x].at = "checked" THEN BioAfter(x)' ELSE account.bio
      BY <1>1 DEF FormIInv, NftSaysInv
    <2> QED BY <2>1
  <1>4. ASSUME "nft" \notin unsure', ~Doomed', NEW x \in Updates, update'[x].at = "checked", ~update'[x].refresh
        PROVE  nftSays = BioAfter(x)'
    <2>1. nftSays = BioAfter(x)
      BY <1>1, <1>2, <1>4 DEF FormIInv, NftSaysInv
    <2>2. BioAfter(x)' = BioAfter(x)
      BY <1>1, <1>4 DEF BioAfter
    <2> QED BY <2>1, <2>2
  <1>5. ASSUME "nft" \notin unsure', ~Doomed', \A x \in Updates : ~update'[x].refresh /\ update'[x].at # "checked"
        PROVE  nftSays = account.bio
    <2>1. \A x \in Updates : ~update[x].refresh /\ update[x].at # "checked"
      BY <1>1, <1>5
    <2> QED BY <1>2, <1>5, <2>1 DEF FormIInv, NftSaysInv
  <1> QED BY <1>3, <1>4, <1>5 DEF NftSaysInv

LEMMA NftSaysKeeps == FormIInv /\ [ProfileNext]_pvars => NftSaysInv'
  <1> SUFFICES ASSUME FormIInv, [ProfileNext]_pvars PROVE NftSaysInv'
    OBVIOUS
  <1>0. FormTypeOK /\ CleanInv
    BY DEF FormIInv
  <1>1. CASE UNCHANGED <<update, account, nftSays>> /\ ("nft" \notin unsure' => "nft" \notin unsure)
    BY <1>1 DEF FormIInv, NftSaysInv, Doomed, BioAfter
  <1>2. ASSUME NEW s \in Updates, HandleSave(s) PROVE NftSaysInv'
    <2>1. /\ ~update'[s].refresh /\ update'[s].at = "sent" /\ ~Ongoing(s)
          /\ \A x \in Updates \ {s} : /\ update'[x].at = update[x].at /\ update'[x].refresh = update[x].refresh
                                      /\ update'[x].bio = update[x].bio /\ update'[x].says = update[x].says
                                      /\ update'[x].clean => update[x].clean
      BY <1>0, <1>2, SaveDoes
    <2>2. UNCHANGED <<account, nftSays, unsure>> /\ ~update[s].refresh /\ update[s].at = "idle"
      BY <1>2, <2>1 DEF HandleSave, Ongoing
    <2>3. \A x \in Updates \ {s} : BioAfter(x)' = BioAfter(x)
      BY <2>1, <2>2 DEF BioAfter
    <2>4. ~Doomed' => ~Doomed
      BY <2>1, <2>2 DEF Doomed
    <2>5. \A x \in Updates : update'[x].clean =>
           /\ update'[x].at = "loaded" => update'[x].says = account'.bio
           /\ update'[x].refresh => update'[x].says = IF update'[x].at = "checked" THEN BioAfter(x)' ELSE account'.bio
      <3>1. \A x \in Updates \ {s} : update[x].clean =>
             /\ update[x].at = "loaded" => update[x].says = account.bio
             /\ update[x].refresh => update[x].says = IF update[x].at = "checked" THEN BioAfter(x) ELSE account.bio
        BY DEF FormIInv, NftSaysInv
      <3> QED BY <2>1, <2>2, <2>3, <3>1
    <2>6. ASSUME "nft" \notin unsure', ~Doomed'
          PROVE  /\ \A x \in Updates : update'[x].at = "checked" /\ ~update'[x].refresh => nftSays' = BioAfter(x)'
                 /\ (\A x \in Updates : ~update'[x].refresh /\ update'[x].at # "checked") => nftSays' = account'.bio
      BY <2>1, <2>2, <2>3, <2>4, <2>6 DEF FormIInv, NftSaysInv
    <2> QED BY <2>5, <2>6 DEF NftSaysInv
  <1>3. ASSUME NEW s \in Updates, LoadUser(s) PROVE NftSaysInv'
    <2>1. /\ RestStay(s) /\ update[s].at = "sent" /\ update'[s].at = "loaded"
          /\ update'[s].refresh = update[s].refresh /\ update'[s].says = account.bio
      BY <1>0, <1>3, LoadDoes
    <2>2. ~update[s].refresh /\ UNCHANGED <<account, nftSays, unsure>>
      BY <1>0, <1>3, <2>1 DEF CleanInv, LoadUser
    <2> QED BY <2>1, <2>2, NftSaysBut
  <1>4. ASSUME NEW s \in Updates, FindConflict(s) PROVE NftSaysInv'
    <2>1. UNCHANGED <<account, nftSays, unsure>>
      BY <1>4 DEF FindConflict
    <2>2. /\ RestStay(s) /\ update[s].at = "loaded" /\ update'[s].bio = update[s].bio /\ update'[s].clean = update[s].clean
          /\ \/ update'[s].at = "failed" /\ update'[s].refresh = update[s].refresh
             \/ /\ update'[s].at = "checked" /\ update'[s].refresh
                /\ update'[s].says = IF update[s].bio = NoText THEN update[s].says ELSE update[s].bio
      BY <1>0, <1>4, ConflictDoes DEF Keeps
    <2>3. ~update[s].refresh
      BY <1>0, <2>2 DEF CleanInv
    <2>4. CASE update'[s].at = "failed" /\ update'[s].refresh = update[s].refresh
      BY <2>1, <2>2, <2>3, <2>4, NftSaysBut
    <2>5. CASE /\ update'[s].at = "checked" /\ update'[s].refresh
               /\ update'[s].says = IF update[s].bio = NoText THEN update[s].says ELSE update[s].bio
      <3>1. update[s].clean => update'[s].says = BioAfter(s)'
        BY <2>1, <2>2, <2>5 DEF FormIInv, NftSaysInv, BioAfter
      <3> QED BY <2>1, <2>2, <2>3, <2>5, <3>1, NftSaysBut
    <2> QED BY <2>2, <2>4, <2>5
  <1>5. ASSUME NEW s \in Updates, Persist(s) PROVE NftSaysInv'
    <2>1. /\ RestStay(s) /\ update[s].at = "checked" /\ update'[s].at = "saved" /\ update'[s].clean = update[s].clean
          /\ update'[s].refresh = update[s].refresh /\ update'[s].says = update[s].says /\ account'.bio = BioAfter(s)
      BY <1>0, <1>5, PersistDoes DEF Keeps
    <2>2. UNCHANGED nftSays /\ ("nft" \notin unsure' => "nft" \notin unsure)
      BY <1>5 DEF Persist
    <2>3. Ongoing(s) /\ \A x \in Updates \ {s} : update'[x] = update[x]
      BY <2>1 DEF Ongoing, RestStay
    <2>4. \A x \in Updates \ {s} : Ongoing(x) => ~update[x].clean /\ ~update[s].clean
      BY <1>0, <2>3 DEF CleanInv
    <2>5. ~Doomed' => ~Doomed
      BY <2>1, <2>3 DEF Doomed
    <2>6. \A x \in Updates : update'[x].clean =>
           /\ update'[x].at = "loaded" => update'[x].says = account'.bio
           /\ update'[x].refresh => update'[x].says = IF update'[x].at = "checked" THEN BioAfter(x)' ELSE account'.bio
      <3>1. \A x \in Updates \ {s} : update'[x].clean => update[x].at # "loaded" /\ ~update[x].refresh
        BY <2>3, <2>4 DEF Ongoing
      <3>2. update'[s].clean /\ update'[s].refresh => update'[s].says = account'.bio
        BY <2>1 DEF FormIInv, NftSaysInv
      <3> QED BY <2>1, <2>3, <3>1, <3>2
    <2>7. ASSUME "nft" \notin unsure', ~Doomed', NEW x \in Updates, update'[x].at = "checked", ~update'[x].refresh
          PROVE  nftSays = BioAfter(x)'
      <3>1. x # s /\ Ongoing(x) /\ update'[x] = update[x]
        BY <2>1, <2>3, <2>7 DEF Ongoing
      <3>2. ~update[s].refresh
        BY <2>4, <2>5, <2>7, <3>1 DEF Doomed
      <3>3. nftSays = BioAfter(s) /\ nftSays = BioAfter(x)
        BY <2>1, <2>2, <2>5, <2>7, <3>1, <3>2 DEF FormIInv, NftSaysInv
      <3> QED BY <2>1, <3>1, <3>3 DEF BioAfter
    <2>8. ASSUME "nft" \notin unsure', ~Doomed', ~update'[s].refresh PROVE nftSays = account'.bio
      BY <2>1, <2>2, <2>5, <2>8 DEF FormIInv, NftSaysInv
    <2> QED BY <2>2, <2>6, <2>7, <2>8 DEF NftSaysInv
  <1>6. ASSUME NEW s \in Updates, PersistFails(s) \/ RefreshFails(s) PROVE NftSaysInv'
    <2>1. "nft" \in unsure' /\ UNCHANGED account
      BY <1>6 DEF PersistFails, RefreshFails
    <2>2. RestStay(s) /\ (update'[s].clean => update'[s].at # "loaded" /\ ~update'[s].refresh)
      <3>1. CASE PersistFails(s)
        BY <1>0, <3>1, PersistFailsDoes
      <3>2. CASE RefreshFails(s)
        <4>1. RestStay(s) /\ ~update'[s].refresh /\ update'[s].at = update[s].at /\ update[s].refresh
          BY <1>0, <3>2, RefreshedDoes DEF RefreshFails
        <4> QED BY <1>0, <4>1 DEF CleanInv
      <3> QED BY <1>6, <3>1, <3>2
    <2>3. \A x \in Updates \ {s} : update'[x] = update[x] /\ BioAfter(x)' = BioAfter(x)
      BY <2>1, <2>2 DEF RestStay, BioAfter
    <2> QED BY <2>1, <2>2, <2>3 DEF FormIInv, NftSaysInv
  <1>7. ASSUME NEW s \in Updates, RefreshDidNft(s) PROVE NftSaysInv'
    <2>1. /\ RestStay(s) /\ ~update'[s].refresh /\ update'[s].at = update[s].at /\ update[s].refresh
          /\ update[s].at # "idle" => update'[s].bio = update[s].bio
      BY <1>0, <1>7, RefreshedDoes DEF RefreshDidNft
    <2>2. UNCHANGED account /\ nftSays' = update[s].says /\ ("nft" \notin unsure' => update[s].clean)
      BY <1>7 DEF RefreshDidNft
    <2>3. update[s].at \in {"idle", "checked", "saved", "failed"} /\ Ongoing(s)
      BY <1>0, <2>1 DEF CleanInv, Ongoing
    <2>4. \A x \in Updates \ {s} : update'[x] = update[x] /\ BioAfter(x)' = BioAfter(x)
      BY <2>1, <2>2 DEF RestStay, BioAfter
    <2>5. \A x \in Updates : update'[x].clean =>
           /\ update'[x].at = "loaded" => update'[x].says = account'.bio
           /\ update'[x].refresh => update'[x].says = IF update'[x].at = "checked" THEN BioAfter(x)' ELSE account'.bio
      BY <2>1, <2>2, <2>3, <2>4 DEF FormIInv, NftSaysInv
    <2>6. ASSUME "nft" \notin unsure'
          PROVE  /\ \A x \in Updates : update'[x].at = "checked" /\ ~update'[x].refresh => nftSays' = BioAfter(x)'
                 /\ (\A x \in Updates : ~update'[x].refresh /\ update'[x].at # "checked") => nftSays' = account'.bio
      <3>1. \A x \in Updates \ {s} : update'[x].at # "checked"
        BY <1>0, <2>2, <2>3, <2>4, <2>6 DEF CleanInv, Ongoing
      <3>2. update[s].says = IF update[s].at = "checked" THEN BioAfter(s) ELSE account.bio
        BY <2>1, <2>2, <2>6 DEF FormIInv, NftSaysInv
      <3>3. update[s].at = "checked" => BioAfter(s)' = BioAfter(s)
        BY <2>1, <2>2 DEF BioAfter
      <3> QED BY <2>1, <2>2, <3>1, <3>2, <3>3
    <2> QED BY <2>5, <2>6 DEF NftSaysInv
  <1>8. ASSUME NEW s \in Updates, Answered(s), update[s].at \in {"saved", "failed"}, UNCHANGED <<account, nftSays>>,
               "nft" \notin unsure' => "nft" \notin unsure
        PROVE  NftSaysInv'
    <2>1. /\ RestStay(s) /\ update'[s].at = "idle" /\ update'[s].refresh = update[s].refresh
          /\ update[s].refresh => update'[s].says = update[s].says /\ update'[s].clean = update[s].clean
      BY <1>0, <1>8, AnsweredDoes
    <2>2. update'[s].clean /\ update'[s].refresh => update'[s].says = account.bio
      BY <1>8, <2>1 DEF FormIInv, NftSaysInv
    <2> QED BY <1>8, <2>1, <2>2, NftSaysBut
  <1>9. ASSUME NEW s \in Updates, SaveFails(s), update[s].at # "failed" PROVE NftSaysInv'
    <2>1. /\ RestStay(s) /\ update'[s].at = update[s].at /\ update'[s].bio = update[s].bio
          /\ update'[s].refresh = update[s].refresh /\ update'[s].says = update[s].says /\ update'[s].clean = update[s].clean
      BY <1>0, <1>9, GiveUpDoes
    <2>2. UNCHANGED <<account, nftSays>> /\ ("nft" \notin unsure' => "nft" \notin unsure)
      BY <1>9 DEF SaveFails
    <2>3. BioAfter(s)' = BioAfter(s)
      BY <2>1, <2>2 DEF BioAfter
    <2>4. update[s].clean =>
            /\ update[s].at = "loaded" => update[s].says = account.bio
            /\ update[s].refresh => update[s].says = IF update[s].at = "checked" THEN BioAfter(s) ELSE account.bio
      BY DEF FormIInv, NftSaysInv
    <2> QED BY <2>1, <2>2, <2>3, <2>4, NftSaysBut
  <1>10. ASSUME NEW s \in Updates, SaveSucceeds(s) \/ SaveFails(s) \/ Unheard(s) PROVE NftSaysInv'
    <2>1. CASE SaveSucceeds(s) \/ Unheard(s)
      BY <1>8, <2>1 DEF SaveSucceeds, Unheard
    <2>2. CASE SaveFails(s) /\ update[s].at = "failed"
      BY <1>8, <2>2 DEF SaveFails
    <2> QED BY <1>9, <1>10, <2>1, <2>2
  <1>11. CASE SignOut \/ SignIn(TheUser) \/ SignIn(Other) \/ OpenSettings \/ LeaveSettings \/ ProfileArrives \/ ProfileFails
    <2>1. UNCHANGED <<update, account, nftSays>>
      BY <1>11 DEF SignOut, SignIn, OpenSettings, LeaveSettings, ProfileArrives, ProfileFails
    <2>2. "nft" \notin unsure' => "nft" \notin unsure
      BY <1>11 DEF SignOut, Leave, SignIn, OpenSettings, LeaveSettings, ProfileArrives, ProfileFails
    <2> QED BY <1>1, <2>1, <2>2
  <1>12. ASSUME \/ \E b \in Bios : TypeBio(b)
                \/ \E t \in Typed : HandleUsernameChange(t)
                \/ \E k \in Checks : CheckUsername(k) \/ CheckUsernameAvailability(k) \/ CheckArrives(k) \/ CheckFails(k)
         PROVE NftSaysInv'
    <2>1. UNCHANGED <<update, account, nftSays>>
      BY <1>12 DEF TypeBio, HandleUsernameChange, Edit, CheckUsername, CheckUsernameAvailability, CheckArrives, CheckFails
    <2>2. "nft" \notin unsure' => "nft" \notin unsure
      BY <1>12 DEF TypeBio, HandleUsernameChange, Edit, CheckUsername, CheckUsernameAvailability, CheckArrives, CheckFails
    <2> QED BY <1>1, <2>1, <2>2
  <1>13. CASE UNCHANGED pvars
    BY <1>1, <1>13 DEF pvars
  <1> QED BY <1>2, <1>3, <1>4, <1>5, <1>6, <1>7, <1>10, <1>11, <1>12, <1>13 DEF ProfileNext

\* A request that is awaited is of the user, whatever step is taken; a page that is not open
\* has nothing to save.
LEMMA AwaitedKeeps ==
    ASSUME FormIInv, [ProfileNext]_pvars
    PROVE  AwaitedInv'
  <1> DEFINE Mine(x) == update[x].awaited => update[x].user.who = "me" /\ update[x].at # "idle"
  <1>0. FormTypeOK /\ CleanInv /\ \A x \in Updates : Mine(x)
    BY DEF FormIInv, PageInv, AwaitedInv
  <1>1. ASSUME UNCHANGED update PROVE AwaitedInv'
    BY <1>0, <1>1 DEF AwaitedInv
  <1>2. ASSUME NEW s \in Updates, RestStay(s), Mine(s)' PROVE AwaitedInv'
    BY <1>0, <1>2 DEF RestStay, AwaitedInv
  <1>3. ASSUME NEW s \in Updates, HandleSave(s) PROVE AwaitedInv'
    <2>1. /\ update'[s].at = "sent" /\ update'[s].user = user
          /\ \A x \in Updates \ {s} : /\ update'[x].at = update[x].at /\ update'[x].user = update[x].user
                                      /\ update'[x].awaited = update[x].awaited
      BY <1>0, <1>3, SaveDoes
    <2>2. user.who = "me"
      BY <1>3 DEF HandleSave, FormIInv, PageInv
    <2> QED BY <1>0, <2>1, <2>2 DEF AwaitedInv
  <1>4. ASSUME NEW s \in Updates, LoadUser(s) PROVE AwaitedInv'
    <2>1. RestStay(s) /\ Mine(s)'
      BY <1>0, <1>4, LoadDoes DEF Keeps
    <2> QED BY <1>2, <2>1
  <1>5. ASSUME NEW s \in Updates, FindConflict(s) PROVE AwaitedInv'
    <2>1. RestStay(s) /\ Mine(s)'
      BY <1>0, <1>5, ConflictDoes DEF Keeps
    <2> QED BY <1>2, <2>1
  <1>6. ASSUME NEW s \in Updates, Persist(s) PROVE AwaitedInv'
    <2>1. RestStay(s) /\ Mine(s)'
      BY <1>0, <1>6, PersistDoes DEF Keeps
    <2> QED BY <1>2, <2>1
  <1>7. ASSUME NEW s \in Updates, PersistFails(s) PROVE AwaitedInv'
    <2>1. RestStay(s) /\ Mine(s)'
      BY <1>0, <1>7, PersistFailsDoes
    <2> QED BY <1>2, <2>1
  <1>8. ASSUME NEW s \in Updates, RefreshDidNft(s) \/ RefreshFails(s) PROVE AwaitedInv'
    <2>1. RestStay(s) /\ update'[s].at = update[s].at /\ (update[s].at # "idle" => Keeps(s))
          /\ (update[s].at = "idle" => update'[s] = NoSave)
      BY <1>0, <1>8, RefreshedDoes DEF RefreshDidNft, RefreshFails
    <2>2. ~NoSave.awaited
      BY DEF NoSave
    <2>3. Mine(s)'
      BY <1>0, <2>1, <2>2 DEF Keeps
    <2> QED BY <1>2, <2>1, <2>3
  <1>9. ASSUME NEW s \in Updates, SaveSucceeds(s) \/ SaveFails(s) \/ Unheard(s) PROVE AwaitedInv'
    <2>1. CASE Answered(s)
      <3>1. RestStay(s) /\ ~update'[s].awaited
        BY <1>0, <2>1, AnsweredDoes
      <3> QED BY <1>2, <3>1
    <2>2. CASE SaveFails(s) /\ update[s].at # "failed"
      <3>1. RestStay(s) /\ ~update'[s].awaited
        BY <1>0, <2>2, GiveUpDoes
      <3> QED BY <1>2, <3>1
    <2> QED BY <1>9, <2>1, <2>2 DEF SaveSucceeds, SaveFails, Unheard
  <1>10. ASSUME SignOut \/ SignIn(TheUser) \/ SignIn(Other) \/ OpenSettings \/ LeaveSettings \/ ProfileArrives \/ ProfileFails
         PROVE  AwaitedInv'
    BY <1>1, <1>10 DEF SignOut, SignIn, OpenSettings, LeaveSettings, ProfileArrives, ProfileFails
  <1>11. ASSUME \/ \E b \in Bios : TypeBio(b)
                \/ \E t \in Typed : HandleUsernameChange(t)
                \/ \E k \in Checks : CheckUsername(k) \/ CheckUsernameAvailability(k) \/ CheckArrives(k) \/ CheckFails(k)
         PROVE AwaitedInv'
    BY <1>1, <1>11 DEF TypeBio, HandleUsernameChange, Edit, CheckUsername, CheckUsernameAvailability, CheckArrives, CheckFails
  <1>12. ASSUME UNCHANGED pvars PROVE AwaitedInv'
    BY <1>1, <1>12 DEF pvars
  <1> QED
    BY <1>3, <1>4, <1>5, <1>6, <1>7, <1>8, <1>9, <1>10, <1>11, <1>12 DEF ProfileNext

\* The end of a save leaves a page that saves nothing as it is.
LEMMA SavingIsNothing ==
    ASSUME NEW f \in Form, f.saving = FALSE
    PROVE  [f EXCEPT !.saving = FALSE] = f
  BY DEF Form

\* What a step on the page, or the end of a save, makes of the page.
LEMMA PageKeeps == FormIInv /\ [ProfileNext]_pvars => PageInv'
  <1> SUFFICES ASSUME FormIInv, [ProfileNext]_pvars PROVE PageInv'
    OBVIOUS
  <1> DEFINE Checked == \A k \in Checks : check[k] = NoCheck
             Closed  == ~fields.open => fields = NoForm /\ Checked
             Opened  == fields.open => session = "me" /\ user.who = "me"
             Stale   == "session" \in unsure => session # "me"
  <1>0. /\ fields \in Form /\ check \in [Checks -> Asked] /\ user \in Stored
        /\ Closed /\ Opened /\ Stale /\ UserIsOfSession
        /\ \A s \in Updates : update[s].awaited => update[s].user.who = "me"
    BY FormTypes DEF FormIInv, PageInv, AwaitedInv
  <1>1. Closed' /\ Opened' /\ Stale' /\ UserIsOfSession' => PageInv'
    BY AwaitedKeeps DEF PageInv
  <1>2. NoForm.open = FALSE /\ NoForm.profile = "none" /\ NoForm.timer = FALSE /\ NoForm \in Form
    BY DEF NoForm, Form, Typed, Bios, NoText
  <1>3. ASSUME UNCHANGED <<session, user, unsure>>, fields'.open = fields.open, Closed' PROVE PageInv'
    BY <1>0, <1>1, <1>3 DEF UserIsOfSession
  <1>4. CASE SignOut
    <2>1. /\ fields' = NoForm /\ check' = [k \in Checks |-> NoCheck] /\ session' = "nobody" /\ user' = SignedOut
          /\ "session" \notin unsure'
      BY <1>4 DEF SignOut, Leave
    <2> QED BY <1>1, <1>2, <2>1 DEF UserIsOfSession, SignedOut
  <1>5. ASSUME NEW u \in {TheUser, Other}, SignIn(u) PROVE PageInv'
    <2>1. /\ session = "nobody" /\ session' = u.who /\ user' = u /\ UNCHANGED <<fields, check>> /\ "session" \notin unsure'
      BY <1>5 DEF SignIn
    <2> QED BY <1>0, <1>1, <2>1 DEF UserIsOfSession
  <1>6. CASE OpenSettings
    <2>1. /\ session = "me" /\ user.who = "me" /\ UNCHANGED <<session, user>> /\ fields' = [NoForm EXCEPT !.open = TRUE, !.profile = "asked"]
          /\ unsure' = unsure \ {"hint"}
      BY <1>6 DEF OpenSettings
    <2>2. fields'.open
      BY <2>1 DEF NoForm
    <2> QED BY <1>0, <1>1, <2>1, <2>2 DEF UserIsOfSession
  <1>7. CASE LeaveSettings
    <2>1. fields' = NoForm /\ check' = [k \in Checks |-> NoCheck] /\ UNCHANGED <<session, user, unsure>>
      BY <1>7 DEF LeaveSettings
    <2> QED BY <1>0, <1>1, <1>2, <2>1 DEF UserIsOfSession
  <1>8. CASE ProfileArrives \/ ProfileFails
    <2>1. /\ fields.profile = "asked" /\ UNCHANGED <<session, user, check>>
          /\ \/ fields' = [fields EXCEPT !.bio = account.bio, !.text = account.handle, !.profile = "answered"]
             \/ fields' = [fields EXCEPT !.profile = "answered"]
          /\ "session" \in unsure' <=> "session" \in unsure
      BY <1>8 DEF ProfileArrives, ProfileFails
    <2>2. fields.open /\ fields'.open = fields.open
      BY <1>0, <1>2, <2>1 DEF Form
    <2> QED BY <1>0, <1>1, <2>1, <2>2 DEF UserIsOfSession
  <1>9. ASSUME \/ \E b \in Bios : TypeBio(b)
               \/ \E t \in Typed : HandleUsernameChange(t)
        PROVE  PageInv'
    <2>1. UNCHANGED <<session, user, check>> /\ ("session" \in unsure' <=> "session" \in unsure) /\ fields.open
      BY <1>9 DEF TypeBio, HandleUsernameChange, Edit
    <2>2. fields'.open = fields.open
      BY <1>0, <1>9 DEF TypeBio, HandleUsernameChange, Edit, Form
    <2> QED BY <1>0, <1>1, <2>1, <2>2 DEF UserIsOfSession
  <1>10. ASSUME NEW k \in Checks, CheckUsername(k) PROVE PageInv'
    <2>1. UNCHANGED <<session, user, unsure>> /\ fields.timer /\ fields' = [fields EXCEPT !.timer = FALSE]
      BY <1>10 DEF CheckUsername
    <2>2. fields.open /\ fields'.open = fields.open
      BY <1>0, <1>2, <2>1 DEF Form
    <2> QED BY <1>3, <2>1, <2>2
  <1>11. ASSUME NEW k \in Checks, CheckUsernameAvailability(k) PROVE PageInv'
    <2>1. UNCHANGED <<session, user, unsure, fields>> /\ check[k] # NoCheck
      BY <1>11 DEF CheckUsernameAvailability, NoCheck
    <2> QED BY <1>0, <1>3, <2>1
  <1>12. ASSUME NEW k \in Checks, CheckArrives(k) \/ CheckFails(k) PROVE PageInv'
    <2>1. UNCHANGED <<session, user, unsure>> /\ check[k] # NoCheck
      BY <1>12 DEF CheckArrives, CheckFails, NoCheck
    <2>2. fields'.open = fields.open
      BY <1>0, <1>12 DEF CheckArrives, CheckFails, Form
    <2> QED BY <1>0, <1>3, <2>1, <2>2
  <1>13. ASSUME NEW s \in Updates, HandleSave(s) PROVE PageInv'
    <2>1. UNCHANGED <<session, user, unsure>> /\ fields.open /\ fields' = [fields EXCEPT !.saving = TRUE]
      BY <1>13 DEF HandleSave
    <2>2. fields'.open = fields.open
      BY <1>0, <2>1 DEF Form
    <2> QED BY <1>3, <2>1, <2>2
  <1>14. ASSUME UNCHANGED <<session, user, fields, check>>, "session" \in unsure' <=> "session" \in unsure PROVE PageInv'
    BY <1>0, <1>1, <1>14 DEF UserIsOfSession
  <1>15. ASSUME NEW s \in Updates, LoadUser(s) \/ FindConflict(s) \/ Persist(s) \/ PersistFails(s) PROVE PageInv'
    <2>1. UNCHANGED <<session, user, fields, check>>
      BY <1>15 DEF LoadUser, FindConflict, Persist, PersistFails
    <2>2. "session" \in unsure' <=> "session" \in unsure
      BY <1>15 DEF LoadUser, FindConflict, Persist, PersistFails
    <2> QED BY <1>14, <2>1, <2>2
  <1>16. ASSUME NEW s \in Updates, RefreshDidNft(s) \/ RefreshFails(s) \/ Unheard(s) PROVE PageInv'
    <2>1. UNCHANGED <<session, user, fields, check>>
      BY <1>16 DEF RefreshDidNft, RefreshFails, Unheard
    <2>2. "session" \in unsure' <=> "session" \in unsure
      BY <1>16 DEF RefreshDidNft, RefreshFails, Unheard
    <2> QED BY <1>14, <2>1, <2>2
  <1>17. ASSUME NEW s \in Updates, SaveSucceeds(s) \/ SaveFails(s) PROVE PageInv'
    <2>1. UNCHANGED <<session, check>> /\ fields' = [fields EXCEPT !.saving = FALSE]
      BY <1>17 DEF SaveSucceeds, SaveFails
    <2>0. NoForm.saving = FALSE
      BY DEF NoForm
    <2>2. fields'.open = fields.open /\ Closed'
      BY <1>0, <1>2, <2>0, <2>1, SavingIsNothing DEF Form
    <2>3. CASE SaveSucceeds(s)
      <3>1. user'.who = update[s].user.who /\ update[s].awaited
        <4>1. update[s].user \in Stored
          BY FormTypes DEF FormIInv, Request
        <4> QED BY <2>3, <4>1 DEF SaveSucceeds, Stored
      <3>2. user'.who = "me"
        BY <1>0, <3>1
      <3>3. unsure' = IF session # "me" THEN unsure \cup {"session"} ELSE unsure
        BY <2>3 DEF SaveSucceeds
      <3> QED BY <1>0, <1>1, <2>1, <2>2, <3>2, <3>3 DEF UserIsOfSession
    <2>4. CASE SaveFails(s)
      <3>1. UNCHANGED user /\ ("session" \in unsure' <=> "session" \in unsure)
        BY <2>4 DEF SaveFails
      <3> QED BY <1>0, <1>1, <2>1, <2>2, <3>1 DEF UserIsOfSession
    <2> QED BY <1>17, <2>3, <2>4
  <1>18. CASE UNCHANGED pvars
    BY <1>14, <1>18 DEF pvars
  <1> QED BY <1>4, <1>5, <1>6, <1>7, <1>8, <1>9, <1>10, <1>11, <1>12, <1>13, <1>15, <1>16, <1>17, <1>18 DEF ProfileNext

LEMMA HintKeeps == FormIInv /\ [ProfileNext]_pvars => HintInv'
  <1> SUFFICES ASSUME FormIInv, [ProfileNext]_pvars PROVE HintInv'
    OBVIOUS
  <1>0. /\ fields \in Form /\ check \in [Checks -> Asked] /\ HintInv
        /\ ~fields.open => \A k \in Checks : check[k] = NoCheck
    BY FormTypes DEF FormIInv, PageInv
  <1>1. NoCheck.at = "idle" /\ NoForm.available = "unknown" /\ NoForm.timer = FALSE
    BY DEF NoCheck, NoForm
  <1>2. ASSUME fields' = NoForm, check' = [k \in Checks |-> NoCheck] PROVE HintInv'
    BY <1>1, <1>2 DEF HintInv
  <1>3. ASSUME "hint" \notin unsure' => "hint" \notin unsure, UNCHANGED check,
               fields'.text = fields.text, fields'.hinted = fields.hinted,
               fields'.timer => fields.timer, fields'.available = fields.available
        PROVE HintInv'
    BY <1>0, <1>3 DEF HintInv
  <1>4. CASE SignOut
    BY <1>2, <1>4 DEF SignOut, Leave
  <1>5. ASSUME NEW u \in {TheUser, Other}, SignIn(u) PROVE HintInv'
    <2>1. UNCHANGED <<fields, check>>
      BY <1>5 DEF SignIn
    <2>2. "hint" \notin unsure' => "hint" \notin unsure
      BY <1>5 DEF SignIn
    <2> QED BY <1>3, <2>1, <2>2
  <1>6. CASE OpenSettings
    <2>1. fields' = [NoForm EXCEPT !.open = TRUE, !.profile = "asked"] /\ UNCHANGED check
      BY <1>6 DEF OpenSettings
    <2>2. ~fields'.timer /\ fields'.available = "unknown"
      BY <2>1 DEF NoForm
    <2>3. \A k \in Checks : check[k] = NoCheck
      BY <1>0, <1>6 DEF OpenSettings
    <2> QED BY <1>1, <2>1, <2>2, <2>3 DEF HintInv
  <1>7. CASE LeaveSettings
    BY <1>2, <1>7 DEF LeaveSettings
  <1>8. CASE ProfileArrives
    <2>1. /\ fields' = [fields EXCEPT !.bio = account.bio, !.text = account.handle, !.profile = "answered"]
          /\ unsure' = IF fields.text # account.handle THEN unsure \cup {"hint"} ELSE unsure
          /\ UNCHANGED check
      BY <1>8 DEF ProfileArrives
    <2>2. fields'.text = account.handle /\ fields'.hinted = fields.hinted /\ fields'.timer = fields.timer
          /\ fields'.available = fields.available
      BY <1>0, <2>1 DEF Form
    <2>3. "hint" \notin unsure' => "hint" \notin unsure /\ fields'.text = fields.text
      BY <2>1, <2>2
    <2> QED BY <1>0, <2>1, <2>2, <2>3 DEF HintInv
  <1>9. ASSUME ProfileFails \/ \E b \in Bios : TypeBio(b) PROVE HintInv'
    <2>1. UNCHANGED <<unsure, check>>
      BY <1>9 DEF ProfileFails, TypeBio, Edit
    <2>2. fields'.text = fields.text /\ fields'.hinted = fields.hinted /\ fields'.timer = fields.timer
          /\ fields'.available = fields.available
      BY <1>0, <1>9 DEF ProfileFails, TypeBio, Edit, Form
    <2> QED BY <1>3, <2>1, <2>2
  <1>10. ASSUME NEW t \in Typed, HandleUsernameChange(t) PROVE HintInv'
    <2>1. fields'.text = t /\ fields'.hinted = t /\ fields'.available = "unknown"
      BY <1>0, <1>10 DEF HandleUsernameChange, Edit, Form
    <2>2. "hint" \notin unsure' => ~InFlight
      BY <1>10 DEF HandleUsernameChange
    <2>3. UNCHANGED check
      BY <1>10 DEF HandleUsernameChange, Edit
    <2> QED BY <1>1, <2>1, <2>2, <2>3 DEF HintInv, InFlight
  <1>11. ASSUME NEW k \in Checks, CheckUsername(k) PROVE HintInv'
    <2>1. /\ fields.timer /\ fields' = [fields EXCEPT !.timer = FALSE] /\ UNCHANGED unsure
          /\ check' = [check EXCEPT ![k] = [NoCheck EXCEPT !.at = "asked", !.text = fields.hinted]]
      BY <1>11 DEF CheckUsername
    <2>2. fields'.text = fields.text /\ fields'.hinted = fields.hinted /\ fields'.available = fields.available /\ ~fields'.timer
      BY <1>0, <2>1 DEF Form
    <2>3. check'[k].text = fields.hinted /\ \A j \in Checks \ {k} : check'[j] = check[j]
      BY <1>0, <2>1 DEF NoCheck
    <2> QED BY <1>0, <2>1, <2>2, <2>3 DEF HintInv
  <1>12. ASSUME NEW k \in Checks, CheckUsernameAvailability(k) PROVE HintInv'
    <2>1. /\ check[k].at = "asked" /\ UNCHANGED <<fields, unsure>>
          /\ check' = [check EXCEPT ![k].at = "answered",
                                    ![k].says = check[k].text \in Handles /\ ~InUse(check[k].text)]
      BY <1>12 DEF CheckUsernameAvailability
    <2>2. check'[k].text = check[k].text /\ \A j \in Checks \ {k} : check'[j] = check[j]
      BY <1>0, <2>1 DEF Asked
    <2> QED BY <1>0, <2>1, <2>2 DEF HintInv
  <1>13. ASSUME NEW k \in Checks, CheckArrives(k) \/ CheckFails(k) PROVE HintInv'
    <2>1. /\ check[k] # NoCheck /\ check' = [check EXCEPT ![k] = NoCheck] /\ UNCHANGED unsure
      BY <1>13 DEF CheckArrives, CheckFails, NoCheck
    <2>2. \A j \in Checks : check'[j].at # "idle" => check'[j] = check[j] /\ check[j].at # "idle"
      BY <1>0, <1>1, <2>1
    <2>3. CASE CheckArrives(k)
      <3>1. fields'.text = fields.text /\ fields'.hinted = check[k].text /\ fields'.timer = fields.timer
        BY <1>0, <2>3 DEF CheckArrives, Form
      <3>2. check[k].at = "answered"
        BY <2>3 DEF CheckArrives
      <3> QED BY <1>0, <2>1, <2>2, <3>1, <3>2 DEF HintInv
    <2>4. CASE CheckFails(k)
      <3>1. fields'.text = fields.text /\ fields'.hinted = fields.hinted /\ fields'.timer = fields.timer
            /\ fields'.available = "unknown"
        BY <1>0, <2>4 DEF CheckFails, Form
      <3> QED BY <1>0, <2>1, <2>2, <3>1 DEF HintInv
    <2> QED BY <1>13, <2>3, <2>4
  <1>14. ASSUME NEW s \in Updates, HandleSave(s) \/ SaveSucceeds(s) \/ SaveFails(s) PROVE HintInv'
    <2>1. fields' = [fields EXCEPT !.saving = TRUE] \/ fields' = [fields EXCEPT !.saving = FALSE]
      BY <1>14 DEF HandleSave, SaveSucceeds, SaveFails
    <2>2. fields'.text = fields.text /\ fields'.hinted = fields.hinted /\ fields'.timer = fields.timer
          /\ fields'.available = fields.available
      BY <1>0, <2>1 DEF Form
    <2>3. UNCHANGED check /\ ("hint" \notin unsure' => "hint" \notin unsure)
      BY <1>14 DEF HandleSave, SaveSucceeds, SaveFails
    <2> QED BY <1>3, <2>2, <2>3
  <1>15. ASSUME NEW s \in Updates, \/ LoadUser(s) \/ FindConflict(s) \/ Persist(s) \/ PersistFails(s)
                                   \/ RefreshDidNft(s) \/ RefreshFails(s) \/ Unheard(s)
         PROVE  HintInv'
    <2>1. UNCHANGED <<fields, check>>
      BY <1>15 DEF LoadUser, FindConflict, Persist, PersistFails, RefreshDidNft, RefreshFails, Unheard
    <2>2. "hint" \notin unsure' => "hint" \notin unsure
      BY <1>15 DEF LoadUser, FindConflict, Persist, PersistFails, RefreshDidNft, RefreshFails, Unheard
    <2> QED BY <1>3, <2>1, <2>2
  <1>16. CASE UNCHANGED pvars
    BY <1>3, <1>16 DEF pvars
  <1> QED BY <1>4, <1>5, <1>6, <1>7, <1>8, <1>9, <1>10, <1>11, <1>12, <1>13, <1>14, <1>15, <1>16 DEF ProfileNext

\* What the store needs of one request.
StoreOf(s) ==
    update[s].awaited =>
        /\ update[s].clean /\ update[s].at \in {"sent", "loaded", "checked"} => update[s].user.handle = account.handle
        /\ update[s].at = "saved" => HandleAfter(s) = account.handle

Awaiting(s) == update[s].at = "saved" /\ update[s].awaited

\* A step of one request that changes neither the store nor the username of the account.
LEMMA StoreBut ==
    ASSUME FormIInv, NEW s \in Updates, RestStay(s), UNCHANGED <<account, user>>,
           "store" \notin unsure' => "store" \notin unsure,
           "session" \notin unsure' => "session" \notin unsure,
           "store" \notin unsure' => StoreOf(s)' /\ (Awaiting(s) => Awaiting(s)')
    PROVE  StoreInv'
  <1>1. \A x \in Updates \ {s} : (StoreOf(x)' <=> StoreOf(x)) /\ (Awaiting(x)' <=> Awaiting(x))
    BY DEF RestStay, StoreOf, HandleAfter, Awaiting
  <1>2. "store" \notin unsure' => \A x \in Updates : StoreOf(x)' /\ (Awaiting(x) => Awaiting(x)')
    BY <1>1 DEF FormIInv, StoreInv, StoreOf
  <1> QED BY <1>2 DEF FormIInv, StoreInv, StoreOf, Awaiting

LEMMA StoreKeeps == FormIInv /\ [ProfileNext]_pvars => StoreInv'
  <1> SUFFICES ASSUME FormIInv, [ProfileNext]_pvars PROVE StoreInv'
    OBVIOUS
  <1>0. /\ FormTypeOK /\ CleanInv /\ PageInv /\ StoreInv
        /\ "store" \notin unsure => \A x \in Updates : StoreOf(x)
    BY DEF FormIInv, StoreInv, StoreOf
  <1>1. CASE UNCHANGED <<update, account, user>> /\ unsure' \cap {"store", "session"} = unsure \cap {"store", "session"}
    <2>1. ("store" \in unsure' <=> "store" \in unsure) /\ ("session" \in unsure' <=> "session" \in unsure)
      BY <1>1
    <2> QED BY <1>0, <1>1, <2>1 DEF StoreInv, HandleAfter
  <1>2. CASE SignOut
    <2>1. /\ UNCHANGED <<update, account>> /\ user' = SignedOut
          /\ unsure' = (unsure \cup {"store" : s \in {x \in Updates : update[x].awaited}}) \ {"hint", "session"}
      BY <1>2 DEF SignOut, Leave
    <2>2. "store" \notin unsure' => \A x \in Updates : ~update[x].awaited
      BY <2>1
    <2>3. user'.who # "me"
      BY <2>1 DEF SignedOut
    <2> QED BY <2>1, <2>2, <2>3 DEF StoreInv
  <1>3. ASSUME NEW u \in {TheUser, Other}, SignIn(u) PROVE StoreInv'
    <2>1. /\ UNCHANGED <<update, account>> /\ user' = u
          /\ unsure' = (IF \E s \in Updates : update[s].at # "idle" THEN unsure ELSE unsure \ {"store"}) \ {"session"}
      BY <1>3 DEF SignIn
    <2>2. user'.who = "me" => user'.handle = account.handle
      BY <2>1 DEF TheUser, Other, SignedOut
    <2>3. "store" \notin unsure' => \A x \in Updates : StoreOf(x)
      <3>1. CASE \E s \in Updates : update[s].at # "idle"
        BY <1>0, <2>1, <3>1
      <3>2. CASE \A s \in Updates : update[s].at = "idle"
        BY <3>2 DEF StoreOf
      <3> QED BY <3>1, <3>2
    <2> QED BY <2>1, <2>2, <2>3 DEF StoreInv, StoreOf, HandleAfter
  <1>4. ASSUME NEW s \in Updates, HandleSave(s) PROVE StoreInv'
    <2>1. /\ UNCHANGED <<account, user, unsure>> /\ fields.open
      BY <1>4 DEF HandleSave
    <2>2. /\ update'[s].at = "sent" /\ update'[s].user = user /\ ~Ongoing(s)
          /\ update'[s].clean <=> \A x \in Updates \ {s} : ~Ongoing(x)
          /\ \A x \in Updates \ {s} :
               /\ update'[x].at = update[x].at /\ update'[x].handle = update[x].handle
               /\ update'[x].user = update[x].user /\ update'[x].awaited = update[x].awaited
               /\ update'[x].clean => update[x].clean
      BY <1>0, <1>4, SaveDoes
    <2>3. user.who = "me" /\ "session" \notin unsure
      BY <1>0, <2>1 DEF PageInv
    <2>4. update[s].at = "idle" /\ \A x \in Updates \ {s} : Awaiting(x) => Ongoing(x)
      BY <2>2 DEF Ongoing, Awaiting
    <2>5. ASSUME "store" \notin unsure PROVE StoreOf(s)'
      <3>1. update'[s].clean => user.handle = account.handle
        BY <1>0, <2>2, <2>3, <2>4, <2>5 DEF StoreInv, Awaiting
      <3> QED BY <2>1, <2>2, <3>1 DEF StoreOf
    <2>6. ASSUME "store" \notin unsure, NEW x \in Updates \ {s} PROVE StoreOf(x)'
      BY <1>0, <2>1, <2>2, <2>6 DEF StoreOf, HandleAfter
    <2>7. \A x \in Updates : Awaiting(x) => Awaiting(x)'
      BY <2>2, <2>4 DEF Awaiting
    <2> QED BY <1>0, <2>1, <2>5, <2>6, <2>7 DEF StoreInv, StoreOf, Awaiting
  <1>5. ASSUME NEW s \in Updates, LoadUser(s) PROVE StoreInv'
    <2>1. /\ RestStay(s) /\ Keeps(s) /\ update[s].at = "sent" /\ update'[s].at = "loaded"
      BY <1>0, <1>5, LoadDoes
    <2>2. UNCHANGED <<account, user, unsure>>
      BY <1>5 DEF LoadUser
    <2>3. "store" \notin unsure => StoreOf(s)' /\ ~Awaiting(s)
      BY <1>0, <2>1, <2>2 DEF StoreOf, Keeps, Awaiting
    <2> QED BY <2>1, <2>2, <2>3, StoreBut
  <1>6. ASSUME NEW s \in Updates, FindConflict(s) PROVE StoreInv'
    <2>1. /\ RestStay(s) /\ Keeps(s) /\ update[s].at = "loaded" /\ update'[s].at \in {"checked", "failed"}
      BY <1>0, <1>6, ConflictDoes
    <2>2. UNCHANGED <<account, user, unsure>>
      BY <1>6 DEF FindConflict
    <2>3. "store" \notin unsure => StoreOf(s)' /\ ~Awaiting(s)
      BY <1>0, <2>1, <2>2 DEF StoreOf, Keeps, Awaiting
    <2> QED BY <2>1, <2>2, <2>3, StoreBut
  <1>7. ASSUME NEW s \in Updates, Persist(s) PROVE StoreInv'
    <2>1. /\ RestStay(s) /\ Keeps(s) /\ update[s].at = "checked" /\ update'[s].at = "saved"
          /\ account'.handle = IF update[s].handle = NoHandle THEN account.handle ELSE update[s].handle
      BY <1>0, <1>7, PersistDoes
    <2>2. UNCHANGED user /\ unsure' = IF update[s].awaited /\ update[s].clean THEN unsure ELSE unsure \cup {"store"}
      BY <1>7 DEF Persist
    <2>3. ASSUME "store" \notin unsure' PROVE (\A x \in Updates : StoreOf(x)') /\ Awaiting(s)'
      <3>1. "store" \notin unsure /\ update[s].awaited /\ update[s].clean
        BY <2>2, <2>3
      <3>2. \A x \in Updates \ {s} : update'[x] = update[x] /\ ~Ongoing(x)
        BY <1>0, <2>1, <3>1 DEF CleanInv, RestStay, Ongoing
      <3>3. \A x \in Updates \ {s} : StoreOf(x)'
        BY <3>2 DEF StoreOf, Ongoing
      <3>4. update[s].user.handle = account.handle
        BY <1>0, <2>1, <3>1 DEF StoreOf
      <3>5. StoreOf(s)' /\ Awaiting(s)'
        BY <2>1, <3>1, <3>4 DEF StoreOf, HandleAfter, Keeps, Awaiting
      <3> QED BY <3>3, <3>5
    <2> QED BY <2>3 DEF StoreInv, StoreOf, Awaiting
  <1>8. ASSUME NEW s \in Updates, PersistFails(s) PROVE StoreInv'
    <2>1. /\ RestStay(s) /\ update[s].at = "checked" /\ update'[s].at = "failed"
      BY <1>0, <1>8, PersistFailsDoes
    <2>2. UNCHANGED <<account, user>> /\ unsure' = unsure \cup {"nft"}
      BY <1>8 DEF PersistFails
    <2>3. StoreOf(s)' /\ ~Awaiting(s)
      BY <2>1 DEF StoreOf, Awaiting
    <2> QED BY <2>1, <2>2, <2>3, StoreBut
  <1>9. ASSUME NEW s \in Updates, RefreshDidNft(s) \/ RefreshFails(s) PROVE StoreInv'
    <2>1. /\ RestStay(s) /\ update'[s].at = update[s].at /\ (update[s].at # "idle" => Keeps(s))
      BY <1>0, <1>9, RefreshedDoes DEF RefreshDidNft, RefreshFails
    <2>2. UNCHANGED <<account, user>>
      BY <1>9 DEF RefreshDidNft, RefreshFails
    <2>3. ("store" \notin unsure' => "store" \notin unsure) /\ ("session" \notin unsure' => "session" \notin unsure)
      BY <1>9 DEF RefreshDidNft, RefreshFails
    <2>4. "store" \notin unsure => StoreOf(s)' /\ (Awaiting(s) => Awaiting(s)')
      BY <1>0, <2>1, <2>2 DEF StoreOf, HandleAfter, Keeps, Awaiting
    <2> QED BY <2>1, <2>2, <2>3, <2>4, StoreBut
  <1>10. ASSUME NEW s \in Updates, SaveSucceeds(s) PROVE StoreInv'
    <2>1. /\ RestStay(s) /\ update'[s].at = "idle" /\ update[s].at = "saved" /\ update[s].awaited
      BY <1>0, <1>10, AnsweredDoes DEF SaveSucceeds
    <2>2. UNCHANGED account /\ ("store" \notin unsure' => "store" \notin unsure)
      BY <1>10 DEF SaveSucceeds
    <2>3. user'.handle = HandleAfter(s)
      <3>1. update[s].user \in Stored
        BY <1>0, FormTypes DEF Request
      <3> QED BY <1>10, <3>1 DEF SaveSucceeds, HandleAfter, Stored
    <2>4. "store" \notin unsure' => user'.handle = account.handle
      BY <1>0, <2>1, <2>2, <2>3 DEF StoreOf
    <2>5. "store" \notin unsure' => \A x \in Updates : StoreOf(x)'
      <3>1. StoreOf(s)'
        BY <2>1 DEF StoreOf
      <3>2. \A x \in Updates \ {s} : StoreOf(x)' <=> StoreOf(x)
        BY <2>1, <2>2 DEF StoreOf, HandleAfter, RestStay
      <3> QED BY <1>0, <2>2, <3>1, <3>2
    <2> QED BY <2>2, <2>4, <2>5 DEF StoreInv, StoreOf
  <1>11. ASSUME NEW s \in Updates, SaveFails(s), update[s].at = "failed" PROVE StoreInv'
    <2>1. /\ RestStay(s) /\ update'[s].at = "idle"
      BY <1>0, <1>11, AnsweredDoes DEF SaveFails
    <2>2. UNCHANGED <<account, user, unsure>>
      BY <1>11 DEF SaveFails
    <2>3. StoreOf(s)' /\ ~Awaiting(s)
      BY <1>11, <2>1 DEF StoreOf, Awaiting
    <2> QED BY <2>1, <2>2, <2>3, StoreBut
  <1>12. ASSUME NEW s \in Updates, SaveFails(s), update[s].at # "failed" PROVE StoreInv'
    <2>1. /\ RestStay(s) /\ ~update'[s].awaited
      BY <1>0, <1>12, GiveUpDoes
    <2>2. UNCHANGED <<account, user>> /\ unsure' = IF update[s].at = "saved" THEN unsure \cup {"store"} ELSE unsure
      BY <1>12 DEF SaveFails
    <2>3. StoreOf(s)' /\ ("store" \notin unsure' => ~Awaiting(s))
      BY <2>1, <2>2 DEF StoreOf, Awaiting
    <2> QED BY <2>1, <2>2, <2>3, StoreBut
  <1>13. ASSUME NEW s \in Updates, Unheard(s) PROVE StoreInv'
    <2>1. /\ RestStay(s) /\ update'[s].at = "idle" /\ ~update[s].awaited
      BY <1>0, <1>13, AnsweredDoes DEF Unheard
    <2>2. UNCHANGED <<account, user, unsure>>
      BY <1>13 DEF Unheard
    <2>3. StoreOf(s)' /\ ~Awaiting(s)
      BY <2>1 DEF StoreOf, Awaiting
    <2> QED BY <2>1, <2>2, <2>3, StoreBut
  <1>14. CASE OpenSettings \/ LeaveSettings \/ ProfileArrives \/ ProfileFails
    <2>1. UNCHANGED <<update, account, user>>
      BY <1>14 DEF OpenSettings, LeaveSettings, ProfileArrives, ProfileFails
    <2>2. unsure' \cap {"store", "session"} = unsure \cap {"store", "session"}
      BY <1>14 DEF OpenSettings, LeaveSettings, ProfileArrives, ProfileFails
    <2> QED BY <1>1, <2>1, <2>2
  <1>15. ASSUME \/ \E b \in Bios : TypeBio(b)
                \/ \E t \in Typed : HandleUsernameChange(t)
                \/ \E k \in Checks : CheckUsername(k) \/ CheckUsernameAvailability(k) \/ CheckArrives(k) \/ CheckFails(k)
         PROVE StoreInv'
    <2>1. UNCHANGED <<update, account, user>>
      BY <1>15 DEF TypeBio, HandleUsernameChange, Edit, CheckUsername, CheckUsernameAvailability, CheckArrives, CheckFails
    <2>2. unsure' \cap {"store", "session"} = unsure \cap {"store", "session"}
      BY <1>15 DEF TypeBio, HandleUsernameChange, Edit, CheckUsername, CheckUsernameAvailability, CheckArrives, CheckFails
    <2> QED BY <1>1, <2>1, <2>2
  <1>16. CASE UNCHANGED pvars
    BY <1>1, <1>16 DEF pvars
  <1> QED BY <1>2, <1>3, <1>4, <1>5, <1>6, <1>7, <1>8, <1>9, <1>10, <1>11, <1>12, <1>13, <1>14, <1>15, <1>16 DEF ProfileNext

LEMMA FormKeeps == FormIInv /\ [ProfileNext]_pvars => FormIInv'
  BY FormTypeKeeps, PageKeeps, HintKeeps, CleanKeeps, NftSaysKeeps, StoreKeeps DEF FormIInv

\* The inductive invariant says what the form promises.
LEMMA FormIs == FormIInv => ProfileFormInv
  <1> SUFFICES ASSUME FormIInv PROVE ProfileFormInv
    OBVIOUS
  <1>1. ProfileTypeOK /\ HintIsOfText /\ UserIsOfSession
    BY DEF FormIInv, FormTypeOK, HintInv, HintIsOfText, PageInv
  <1>2. NftMatchesProfile
    BY DEF FormIInv, NftSaysInv, Doomed, NftMatchesProfile, Quiet, Ongoing
  <1>3. StoreMatchesRow
    <2> SUFFICES ASSUME Quiet, user.who = "me", unsure \cap {"store", "session"} = {} PROVE user = TheUser
      BY DEF StoreMatchesRow
    <2>1. user.handle = account.handle
      BY DEF FormIInv, StoreInv, Quiet, Ongoing
    <2>2. user \in Stored
      BY FormTypes DEF FormIInv
    <2> QED BY <2>1, <2>2 DEF Stored, TheUser
  <1> QED BY <1>1, <1>2, <1>3 DEF ProfileFormInv

\* What the page says of a username, what the DID NFT says of the account and what the store
\* says of its user, for every number of saves and checks that overlap (handleSave,
\* updateProfile, refreshDidNft, checkUsernameAvailability).
THEOREM ProfileFormInvHolds == ProfileSpec => []ProfileFormInv
  <1> QED BY FormInitial, FormKeeps, FormIs, PTL DEF ProfileSpec

--------------------------------------------------------------------------------
(* The page of a conversation *)

\* The records of what the page and the API keep.
Kept      == [known : BOOLEAN, rows : SUBSET Entry]
Call      == [at : {"idle", "asked", "answered"}, rows : SUBSET Entry, overlapped : BOOLEAN]
Reading   == [at : {"idle", "asked", "answered"}, topic : Pages, rows : SUBSET Entry, overlapped : BOOLEAN]
VisitType == [sent : SUBSET MyTexts, seen : SUBSET Entry, atRisk : SUBSET MyTexts,
              loaded : BOOLEAN, strayed : BOOLEAN, overtaken : BOOLEAN]

ScreenTypes ==
    /\ indexed \in [Chats -> Seq(TextsWritten)] /\ unnumbered \in [Chats -> SUBSET TextsWritten]
    /\ written \subseteq TextsWritten /\ openChat \in Pages /\ messages \subseteq Entry
    /\ cached \in [Chats -> Kept] /\ query \in [Chats -> Call] /\ reading \in [EventReads -> Reading]
    /\ \A f \in EventReads : reading[f].at # "idle" => reading[f].topic \in Chats
    /\ sending \in [MyTexts -> [at : {"no", "asked", "saved"}, topic : Pages]]
    /\ receipt \in [Chats -> 0 .. MaxTexts] /\ visit \in VisitType

\* A text is in a topic once, and one that is on its way is in none.
PlacesInv ==
    /\ \A t \in Chats : \A i, j \in DOMAIN indexed[t] : indexed[t][i] = indexed[t][j] => i = j
    /\ \A t \in Chats : \A i \in DOMAIN indexed[t] : indexed[t][i] \in written \ unnumbered[t]
    /\ \A t \in Chats : unnumbered[t] \subseteq written
    /\ \A n \in MyTexts : sending[n].at = "asked" =>
           /\ n \in written /\ sending[n].topic \in Chats
           /\ \A t \in Chats : n \notin unnumbered[t] /\ \A i \in DOMAIN indexed[t] : indexed[t][i] # n

\* A message that has a number is the row of the index.
Real(e) == e.number > 0 => /\ ~e.own /\ e.number \in DOMAIN indexed[e.topic]
                           /\ e.text = indexed[e.topic][e.number]
RealInv ==
    /\ \A e \in messages \cup visit.seen : Real(e)
    /\ \A t \in Chats : \A e \in cached[t].rows \cup query[t].rows : Real(e) /\ e.topic = t
    /\ \A f \in EventReads : \A e \in reading[f].rows : Real(e) /\ e.topic = reading[f].topic

\* What was sent without risk is in the store, and no query is under way that takes it away.
OwnEntry(n) == [own |-> TRUE, number |-> 0, topic |-> openChat, text |-> n]
KeepInv == \A n \in visit.sent \ visit.atRisk :
               OwnEntry(n) \in messages /\ \A t \in Chats : query[t].at = "idle"

PlaceInv == visit.loaded /\ ~visit.strayed => openChat \in Chats /\ \A e \in messages : e.topic = openChat

\* An answer that no other has overlapped has all that the page may be showing, but for what
\* newer messages have left behind.
Covers(rows, t) == \A e \in messages \cup cached[t].rows :
    e.number > 0 /\ e.topic = t /\ Recent(t, e.number) => e \in rows
FreshInv ==
    /\ \A t \in Chats : query[t].at = "answered" /\ ~query[t].overlapped => Covers(query[t].rows, t)
    /\ \A f \in EventReads : reading[f].at = "answered" /\ ~reading[f].overlapped =>
           Covers(reading[f].rows, reading[f].topic)

SeenInv ==
    /\ \A e \in visit.seen : e.number > 0 /\ e.topic = openChat /\ openChat \in Chats
    /\ openChat \in Chats /\ ~visit.strayed /\ ~visit.overtaken =>
           \A e \in visit.seen : Recent(openChat, e.number) => e \in messages \cup cached[openChat].rows

\* An answer has the page of rows that ends with a number, and a receipt is for what was in
\* one.
UpTo(rows, m) == /\ \A k \in 1 .. m : k + PageLimit > m => \E e \in rows : e.number = k
                 /\ \A e \in rows : e.number <= m
ReceiptInv ==
    /\ \A t \in Chats : receipt[t] <= Len(indexed[t])
    /\ \A t \in Chats : query[t].at = "answered" => /\ query[t].rows = {} => receipt[t] = 0
                                                    /\ \E m \in 0 .. MaxTexts : UpTo(query[t].rows, m)
    /\ ReceiptIsOfRead

ScreenIInv == /\ ScreenTypes /\ PlacesInv /\ RealInv /\ KeepInv /\ PlaceInv /\ FreshInv /\ SeenInv
              /\ ReceiptInv

LEMMA MaxTextsIsNat == MaxTexts \in Nat
  BY TextsAssumption, FS_CardinalityType DEF MaxTexts, TextsWritten

\* A topic that has every text at most once is not longer than there are texts.
LEMMA IndexFits ==
    ASSUME NEW s \in Seq(TextsWritten), \A i, j \in DOMAIN s : s[i] = s[j] => i = j
    PROVE  Len(s) <= MaxTexts
  <1>1. Len(s) \in Nat /\ DOMAIN s = 1 .. Len(s) /\ s \in [1 .. Len(s) -> TextsWritten]
    OBVIOUS
  <1>2. IsFiniteSet(1 .. Len(s)) /\ Cardinality(1 .. Len(s)) = Len(s)
    <2>1. /\ IsFiniteSet(1 .. Len(s))
          /\ Cardinality(1 .. Len(s)) = IF 1 > Len(s) THEN 0 ELSE Len(s) - 1 + 1
      BY <1>1, FS_Interval
    <2> QED BY <1>1, <2>1
  <1>3. s \in Injection(1 .. Len(s), TextsWritten)
    BY <1>1 DEF Injection, IsInjective
  <1>4. IsFiniteSet(TextsWritten)
    BY TextsAssumption DEF TextsWritten
  <1>5. Cardinality(1 .. Len(s)) <= Cardinality(TextsWritten)
    BY <1>3, <1>4, FS_Injection
  <1> QED BY <1>2, <1>5 DEF MaxTexts

\* getConversationMessages gives the newest rows of the topic, as the index has them.
LEMMA ApiRows ==
    ASSUME ScreenTypes, PlacesInv, NEW t \in Chats
    PROVE  LET rows == GetConversationMessages(t) IN
           /\ rows \subseteq Entry
           /\ \A e \in rows : Real(e) /\ e.topic = t /\ ~e.own
           /\ \A k \in DOMAIN indexed[t] : Recent(t, k) =>
                  [own |-> FALSE, number |-> k, topic |-> t, text |-> indexed[t][k]] \in rows
           /\ UpTo(rows, Len(indexed[t])) /\ Len(indexed[t]) \in 0 .. MaxTexts
  <1> DEFINE rows == GetConversationMessages(t)
  <1>1. indexed[t] \in Seq(TextsWritten) /\ unnumbered[t] \subseteq TextsWritten
    BY DEF ScreenTypes
  <1>2. Len(indexed[t]) \in 0 .. MaxTexts /\ DOMAIN indexed[t] = 1 .. Len(indexed[t])
    BY <1>1, IndexFits, MaxTextsIsNat DEF PlacesInv
  <1>3. ASSUME NEW e \in rows
        PROVE  \/ \E k \in DOMAIN indexed[t] :
                      e = [own |-> FALSE, number |-> k, topic |-> t, text |-> indexed[t][k]]
               \/ \E n \in unnumbered[t] : e = [own |-> FALSE, number |-> 0, topic |-> t, text |-> n]
    BY <1>3 DEF GetConversationMessages, GetMessages
  <1>4. \A k \in DOMAIN indexed[t] : Recent(t, k) =>
            [own |-> FALSE, number |-> k, topic |-> t, text |-> indexed[t][k]] \in rows
    <2> TAKE k \in DOMAIN indexed[t]
    <2> HAVE Recent(t, k)
    <2>1. [number |-> k, text |-> indexed[t][k]] \in GetMessages(t)
      BY DEF GetMessages
    <2> DEFINE r == [number |-> k, text |-> indexed[t][k]]
    <2>2. r \in GetMessages(t) /\ r.number = k /\ r.text = indexed[t][k]
      BY <2>1
    <2> HIDE DEF r
    <2>3. [own |-> FALSE, number |-> r.number, topic |-> t, text |-> r.text] \in rows
      BY <2>2 DEF GetConversationMessages
    <2> QED BY <2>2, <2>3
  <1> HIDE DEF rows
  <1>5. \A k \in DOMAIN indexed[t] : indexed[t][k] \in TextsWritten /\ k \in Nat /\ k \in 0 .. MaxTexts /\ k > 0
    BY <1>1, <1>2, MaxTextsIsNat
  <1>6. ASSUME NEW e \in rows
        PROVE  e \in Entry /\ Real(e) /\ e.topic = t /\ ~e.own /\ e.number <= Len(indexed[t])
    <2>1. CASE \E k \in DOMAIN indexed[t] :
                   e = [own |-> FALSE, number |-> k, topic |-> t, text |-> indexed[t][k]]
      <3>1. PICK k \in DOMAIN indexed[t] : e = [own |-> FALSE, number |-> k, topic |-> t, text |-> indexed[t][k]]
        BY <2>1
      <3>2. e \in Entry
        BY <1>5, <3>1 DEF Entry
      <3>3. e.topic = t /\ ~e.own /\ e.number = k /\ e.text = indexed[t][k]
        BY <3>1
      <3> QED BY <1>2, <3>2, <3>3 DEF Real
    <2>2. CASE \E n \in unnumbered[t] : e = [own |-> FALSE, number |-> 0, topic |-> t, text |-> n]
      <3>1. PICK n \in unnumbered[t] : e = [own |-> FALSE, number |-> 0, topic |-> t, text |-> n]
        BY <2>2
      <3>2. e \in Entry
        BY <1>1, <3>1, MaxTextsIsNat DEF Entry
      <3>3. e.topic = t /\ ~e.own /\ e.number = 0
        BY <3>1
      <3> QED BY <1>2, <3>2, <3>3 DEF Real
    <2> QED BY <1>3, <1>6, <2>1, <2>2
  <1>7. UpTo(rows, Len(indexed[t]))
    <2> SUFFICES ASSUME NEW k \in 1 .. Len(indexed[t]), k + PageLimit > Len(indexed[t])
                 PROVE  \E e \in rows : e.number = k
      BY <1>6 DEF UpTo
    <2> DEFINE e == [own |-> FALSE, number |-> k, topic |-> t, text |-> indexed[t][k]]
    <2>1. e \in rows /\ e.number = k
      BY <1>2, <1>4 DEF Recent
    <2> QED BY <2>1
  <1>8. rows = GetConversationMessages(t)
    BY DEF rows
  <1> HIDE DEF UpTo, Real, GetConversationMessages
  <1> QED BY <1>2, <1>4, <1>6, <1>7, <1>8

\* What the helpers of the steps do to the visit, the queries and the fetches.
LEMMA SeeingDoes ==
    ASSUME NEW v \in VisitType, visit' = Seeing(v), messages' \subseteq Entry,
           cached' \in [Chats -> Kept], openChat' \in Pages
    PROVE  /\ visit' \in VisitType
           /\ visit'.sent = v.sent /\ visit'.atRisk = v.atRisk /\ visit'.loaded = v.loaded
           /\ visit'.strayed = v.strayed /\ visit'.overtaken = v.overtaken
           /\ \A e \in visit'.seen :
                  \/ e \in v.seen
                  \/ /\ e.number > 0 /\ e.topic = openChat' /\ openChat' \in Chats
                     /\ e \in messages' \cup cached'[openChat'].rows
  <1> DEFINE new == {e \in Numbered(Display)' : e.topic = openChat'}
  <1>1. \A e \in new : /\ e.number > 0 /\ e.topic = openChat' /\ openChat' \in Chats
                       /\ e \in messages' \cup cached'[openChat'].rows
    BY DEF Numbered, Display, Pages
  <1>2. \A t \in Chats : cached'[t].rows \subseteq Entry
    BY DEF Kept
  <1>3. new \subseteq Entry
    BY <1>1, <1>2
  <1> HIDE DEF new
  <1>4. visit' = [v EXCEPT !.seen = v.seen \cup new]
    BY DEF Seeing, new
  <1>5. v.seen \cup new \in SUBSET Entry
    BY <1>3 DEF VisitType
  <1>6. visit' \in VisitType /\ visit'.seen = v.seen \cup new
    BY <1>4, <1>5 DEF VisitType
  <1>7. /\ visit'.sent = v.sent /\ visit'.atRisk = v.atRisk /\ visit'.loaded = v.loaded
        /\ visit'.strayed = v.strayed /\ visit'.overtaken = v.overtaken
    BY <1>4 DEF VisitType
  <1> QED BY <1>1, <1>6, <1>7

LEMMA StrayedStays ==
    ASSUME NEW v \in VisitType, NEW a \in BOOLEAN
    PROVE  LET w == [v EXCEPT !.strayed = a] IN
           /\ w \in VisitType /\ w.strayed = a /\ w.overtaken = v.overtaken
           /\ w.sent = v.sent /\ w.atRisk = v.atRisk /\ w.loaded = v.loaded /\ w.seen = v.seen
  BY DEF VisitType

LEMMA OvertakenStays ==
    ASSUME NEW v \in VisitType, NEW b \in BOOLEAN
    PROVE  LET w == [v EXCEPT !.overtaken = b] IN
           /\ w \in VisitType /\ w.strayed = v.strayed /\ w.overtaken = b
           /\ w.sent = v.sent /\ w.atRisk = v.atRisk /\ w.loaded = v.loaded /\ w.seen = v.seen
  BY DEF VisitType

LEMMA LoadedStays ==
    ASSUME NEW v \in VisitType, NEW b \in BOOLEAN
    PROVE  LET w == [v EXCEPT !.loaded = b] IN
           /\ w \in VisitType /\ w.strayed = v.strayed /\ w.overtaken = v.overtaken
           /\ w.sent = v.sent /\ w.atRisk = v.atRisk /\ w.loaded = b /\ w.seen = v.seen
  BY DEF VisitType

LEMMA TakenDoes ==
    ASSUME visit \in VisitType, NEW t \in Pages, NEW o \in BOOLEAN
    PROVE  /\ Taken(t, o) \in VisitType
           /\ Taken(t, o).sent = visit.sent /\ Taken(t, o).atRisk = visit.atRisk
           /\ Taken(t, o).loaded = visit.loaded /\ Taken(t, o).seen = visit.seen
           /\ Taken(t, o).strayed <=> visit.strayed \/ t # openChat
           /\ Taken(t, o).overtaken <=> visit.overtaken \/ (o /\ t = openChat)
  <1> DEFINE a == visit.strayed \/ t # openChat
             b == visit.overtaken \/ (o /\ t = openChat)
             u == [visit EXCEPT !.strayed = a]
             w == [u EXCEPT !.overtaken = b]
  <1>1. a \in BOOLEAN /\ b \in BOOLEAN
    BY DEF VisitType
  <1>2. Taken(t, o) = w
    BY DEF Taken
  <1> HIDE DEF a, b
  <1>3. /\ u \in VisitType /\ u.strayed = a
        /\ u.sent = visit.sent /\ u.atRisk = visit.atRisk /\ u.loaded = visit.loaded /\ u.seen = visit.seen
    BY <1>1, StrayedStays
  <1> HIDE DEF u
  <1>4. /\ w \in VisitType /\ w.strayed = u.strayed /\ w.overtaken = b
        /\ w.sent = u.sent /\ w.atRisk = u.atRisk /\ w.loaded = u.loaded /\ w.seen = u.seen
    BY <1>1, <1>3, OvertakenStays
  <1> HIDE DEF w
  <1> QED BY <1>1, <1>2, <1>3, <1>4 DEF a, b

\* The calls of a step that reads nothing new: their answers are as they were, or gone.
Rests == \A t \in Chats :
    /\ query'[t].rows \subseteq query[t].rows
    /\ query'[t].at = "answered" => /\ query[t].at = "answered" /\ query'[t].rows = query[t].rows
                                    /\ query[t].overlapped => query'[t].overlapped
ReadsRest == \A f \in EventReads :
    /\ reading'[f].rows \subseteq reading[f].rows
    /\ reading'[f].rows # {} => reading'[f].topic = reading[f].topic
    /\ reading'[f].at = "answered" =>
           /\ reading[f].at = "answered" /\ reading'[f].rows = reading[f].rows
           /\ reading'[f].topic = reading[f].topic
           /\ reading[f].overlapped => reading'[f].overlapped

LEMMA NotReadType == NotRead \in Call /\ NotRead.at = "idle" /\ NotRead.rows = {} /\ ~NotRead.overlapped
  BY DEF NotRead, Call
LEMMA NotFetchedType == NotFetched \in Reading /\ NotFetched.at = "idle" /\ NotFetched.rows = {}
  BY DEF NotFetched, Reading, Pages

\* A query that ends, or starts, and the others stay.
LEMMA EndDoes ==
    ASSUME query \in [Chats -> Call], NEW t \in Chats, query' = [query EXCEPT ![t] = NotRead]
    PROVE  query' \in [Chats -> Call] /\ Rests /\ query'[t] = NotRead
           /\ \A u \in Chats \ {t} : query'[u] = query[u]
  BY NotReadType DEF Rests

LEMMA StartDoes ==
    ASSUME query \in [Chats -> Call], NEW t \in Chats, StartQuery(t)
    PROVE  query' \in [Chats -> Call] /\ Rests
  <1> DEFINE asked == [NotRead EXCEPT !.at = "asked"]
  <1>1. asked \in Call /\ asked.at = "asked" /\ asked.rows = {}
    BY DEF NotRead, Call
  <1> HIDE DEF asked
  <1>2. query' = query \/ query' = [query EXCEPT ![t] = asked]
    BY DEF StartQuery, asked
  <1> QED BY <1>1, <1>2 DEF Rests

\* What was read before an answer for t is taken is overlapped.
LEMMA CallStays ==
    ASSUME NEW c \in Call, NEW b \in BOOLEAN
    PROVE  LET d == [c EXCEPT !.overlapped = b] IN
           d \in Call /\ d.at = c.at /\ d.rows = c.rows /\ d.overlapped = b
  BY DEF Call

LEMMA OverlapQueryDoes ==
    ASSUME query \in [Chats -> Call], NEW t \in Chats, query' = OverlapQuery(t)
    PROVE  /\ query' \in [Chats -> Call] /\ Rests
           /\ \A u \in Chats : query'[u].at = query[u].at
           /\ query[t].at = "answered" => query'[t].overlapped
  <1> DEFINE b == query[t].overlapped \/ query[t].at = "answered"
             d == [query[t] EXCEPT !.overlapped = b]
  <1>1. b \in BOOLEAN /\ query[t] \in Call
    BY DEF Call
  <1>2. query' = [query EXCEPT ![t] = d]
    BY DEF OverlapQuery
  <1>3. d \in Call /\ d.at = query[t].at /\ d.rows = query[t].rows /\ d.overlapped = b
    <2> HIDE DEF b
    <2> QED BY <1>1, CallStays
  <1> HIDE DEF d
  <1>4. query' \in [Chats -> Call] /\ query'[t] = d /\ \A u \in Chats \ {t} : query'[u] = query[u]
    BY <1>2, <1>3
  <1> QED BY <1>3, <1>4 DEF Rests

LEMMA OverlapReadsDoes ==
    ASSUME reading \in [EventReads -> Reading], NEW t \in Chats, NEW f \in EventReads \cup {NoChat}
    PROVE  LET next == OverlapReads(t, f) IN
           /\ next \in [EventReads -> Reading]
           /\ \A g \in EventReads :
                  /\ next[g].at = reading[g].at /\ next[g].rows = reading[g].rows
                  /\ next[g].topic = reading[g].topic
                  /\ reading[g].overlapped => next[g].overlapped
                  /\ g # f /\ reading[g].at = "answered" /\ reading[g].topic = t => next[g].overlapped
  <1> DEFINE next == OverlapReads(t, f)
             Said(g) == [reading[g] EXCEPT !.overlapped = TRUE]
  <1>1. \A g \in EventReads : /\ Said(g) \in Reading /\ Said(g).at = reading[g].at /\ Said(g).rows = reading[g].rows
                              /\ Said(g).topic = reading[g].topic /\ Said(g).overlapped
    BY DEF Reading
  <1>2. next = [g \in EventReads |-> IF g # f /\ reading[g].at = "answered" /\ reading[g].topic = t
                                     THEN Said(g) ELSE reading[g]]
    BY DEF OverlapReads
  <1> HIDE DEF next, Said
  <1>3. \A g \in EventReads : reading[g] \in Reading
    OBVIOUS
  <1>4. next \in [EventReads -> Reading]
    BY <1>1, <1>2, <1>3
  <1>5. ASSUME NEW g \in EventReads
        PROVE  /\ next[g].at = reading[g].at /\ next[g].rows = reading[g].rows
               /\ next[g].topic = reading[g].topic
               /\ reading[g].overlapped => next[g].overlapped
               /\ g # f /\ reading[g].at = "answered" /\ reading[g].topic = t => next[g].overlapped
    BY <1>1, <1>2
  <1> QED BY <1>4, <1>5 DEF next

\* The receipt is for the last message of the answer.
LEMMA HighestIs ==
    ASSUME NEW rows \in SUBSET Entry, rows # {}, NEW m \in 0 .. MaxTexts, UpTo(rows, m)
    PROVE  Highest(rows) = m
  <1> DEFINE Is(k) == (\E e \in rows : e.number = k) /\ \A e \in rows : e.number <= k
  <1>1. \A e \in rows : e.number \in 0 .. MaxTexts
    BY DEF Entry
  <1>2. Is(m)
    <2>1. CASE m > 0
      BY <2>1, MaxTextsIsNat, LimitAssumption DEF UpTo
    <2>2. CASE m = 0
      <3>1. \A e \in rows : e.number = 0
        BY <1>1, <2>2, MaxTextsIsNat, LimitAssumption DEF UpTo
      <3> QED BY <2>2, <3>1 DEF UpTo
    <2> QED BY <2>1, <2>2, MaxTextsIsNat
  <1>3. \A k \in 0 .. MaxTexts : Is(k) => k = m
    <2> SUFFICES ASSUME NEW k \in 0 .. MaxTexts, Is(k) PROVE k = m
      OBVIOUS
    <2>1. k <= m /\ m <= k
      BY <1>2
    <2> QED BY <2>1, MaxTextsIsNat
  <1> HIDE DEF Is
  <1>4. Highest(rows) = CHOOSE k \in 0 .. MaxTexts : Is(k)
    BY DEF Highest, Is
  <1> QED BY <1>2, <1>3, <1>4

\* Taking the answer of a query.
LEMMA TakeQueryDoes ==
    ASSUME ScreenTypes, NEW t \in Chats, TakeQuery(t)
    PROVE  /\ query[t].at = "answered" /\ query[t].rows \subseteq Entry /\ messages' = query[t].rows
           /\ cached' \in [Chats -> Kept] /\ cached'[t].rows = query[t].rows
           /\ \A u \in Chats \ {t} : cached'[u] = cached[u]
           /\ query' \in [Chats -> Call] /\ Rests /\ query'[t].at = "idle"
           /\ reading' \in [EventReads -> Reading] /\ ReadsRest
           /\ \A g \in EventReads : /\ reading'[g].at = reading[g].at /\ reading'[g].topic = reading[g].topic
                                    /\ reading[g].at = "answered" /\ reading[g].topic = t => reading'[g].overlapped
           /\ visit' \in VisitType /\ visit'.sent = visit.sent /\ visit'.atRisk = visit.atRisk
           /\ visit'.loaded <=> visit.loaded \/ t = openChat
           /\ visit'.strayed <=> visit.strayed \/ t # openChat
           /\ visit'.overtaken <=> visit.overtaken \/ (query[t].overlapped /\ t = openChat)
           /\ \A e \in visit'.seen :
                  \/ e \in visit.seen
                  \/ e.number > 0 /\ e.topic = openChat /\ openChat \in Chats /\ e \in messages' \cup cached'[openChat].rows
  <1> DEFINE rows == query[t].rows
             kept == [known |-> TRUE, rows |-> rows]
  <1>0. query[t] \in Call /\ query[t].at = "answered" /\ query[t].overlapped \in BOOLEAN /\ rows \in SUBSET Entry
        /\ messages' = rows /\ openChat' = openChat
    BY DEF ScreenTypes, TakeQuery, Call
  <1>1. cached' \in [Chats -> Kept] /\ cached'[t].rows = rows /\ \A u \in Chats \ {t} : cached'[u] = cached[u]
    <2>1. kept \in Kept /\ kept.rows = rows
      BY <1>0 DEF Kept
    <2>2. cached' = [cached EXCEPT ![t] = kept]
      BY DEF TakeQuery
    <2> HIDE DEF kept, rows
    <2> QED BY <2>1, <2>2 DEF ScreenTypes
  <1>2. query' \in [Chats -> Call] /\ Rests /\ query'[t].at = "idle"
    BY EndDoes, NotReadType DEF TakeQuery, ScreenTypes
  <1>3. /\ reading' \in [EventReads -> Reading] /\ ReadsRest
        /\ \A g \in EventReads : /\ reading'[g].at = reading[g].at /\ reading'[g].topic = reading[g].topic
                                 /\ reading[g].at = "answered" /\ reading[g].topic = t => reading'[g].overlapped
    <2>1. reading' = OverlapReads(t, NoChat)
      BY DEF TakeQuery
    <2>2. reading \in [EventReads -> Reading] /\ NoChat \in EventReads \cup {NoChat} /\ NoChat \notin EventReads
      BY NoChatAssumption DEF ScreenTypes
    <2>3. /\ reading' \in [EventReads -> Reading]
          /\ \A g \in EventReads :
                 /\ reading'[g].at = reading[g].at /\ reading'[g].rows = reading[g].rows
                 /\ reading'[g].topic = reading[g].topic
                 /\ reading[g].overlapped => reading'[g].overlapped
                 /\ reading[g].at = "answered" /\ reading[g].topic = t => reading'[g].overlapped
      BY <2>1, <2>2, OverlapReadsDoes
    <2> QED BY <2>3 DEF ReadsRest
  <1> DEFINE took == Taken(t, query[t].overlapped)
             l    == visit.loaded \/ t = openChat
             v    == [took EXCEPT !.loaded = l]
  <1>4. /\ took \in VisitType /\ took.loaded = visit.loaded
        /\ took.sent = visit.sent /\ took.atRisk = visit.atRisk /\ took.seen = visit.seen
        /\ took.strayed <=> visit.strayed \/ t # openChat
        /\ took.overtaken <=> visit.overtaken \/ (query[t].overlapped /\ t = openChat)
    BY <1>0, TakenDoes DEF ScreenTypes, Pages
  <1>5. visit' = Seeing(v) /\ l \in BOOLEAN
    <2>1. visit' = Seeing([took EXCEPT !.loaded = took.loaded \/ t = openChat])
      BY DEF TakeQuery
    <2>2. l \in BOOLEAN
      BY DEF ScreenTypes, VisitType
    <2> HIDE DEF took
    <2> QED BY <1>4, <2>1, <2>2
  <1> HIDE DEF took, l
  <1>6. /\ v \in VisitType /\ v.strayed = took.strayed /\ v.overtaken = took.overtaken
        /\ v.sent = took.sent /\ v.atRisk = took.atRisk /\ v.loaded = l /\ v.seen = took.seen
    BY <1>4, <1>5, LoadedStays
  <1> HIDE DEF v, rows
  <1>7. /\ visit' \in VisitType
        /\ visit'.sent = v.sent /\ visit'.atRisk = v.atRisk /\ visit'.loaded = v.loaded
        /\ visit'.strayed = v.strayed /\ visit'.overtaken = v.overtaken
        /\ \A e \in visit'.seen :
               \/ e \in v.seen
               \/ e.number > 0 /\ e.topic = openChat /\ openChat \in Chats /\ e \in messages' \cup cached'[openChat].rows
    BY <1>0, <1>1, <1>5, <1>6, SeeingDoes DEF ScreenTypes
  <1>8. /\ visit'.loaded <=> visit.loaded \/ t = openChat
        /\ visit'.strayed <=> visit.strayed \/ t # openChat
        /\ visit'.overtaken <=> visit.overtaken \/ (query[t].overlapped /\ t = openChat)
    BY <1>4, <1>6, <1>7 DEF l
  <1>9. visit' \in VisitType /\ visit'.sent = visit.sent /\ visit'.atRisk = visit.atRisk
    BY <1>4, <1>6, <1>7
  <1>10. \A e \in visit'.seen :
            \/ e \in visit.seen
            \/ e.number > 0 /\ e.topic = openChat /\ openChat \in Chats /\ e \in messages' \cup cached'[openChat].rows
    BY <1>4, <1>6, <1>7
  <1> QED BY <1>0, <1>1, <1>2, <1>3, <1>8, <1>9, <1>10 DEF rows

\* Taking what an event made useConversation read.
LEMMA TakeReadDoes ==
    ASSUME ScreenTypes, NEW f \in EventReads, TakeRead(f)
    PROVE  LET t == reading[f].topic IN
           /\ t \in Chats /\ reading[f].at = "answered" /\ reading[f].rows \subseteq Entry
           /\ messages' = reading[f].rows \cup {e \in messages : e.own} /\ UNCHANGED cached
           /\ query' \in [Chats -> Call] /\ Rests
           /\ \A u \in Chats : query'[u].at = query[u].at
           /\ query[t].at = "answered" => query'[t].overlapped
           /\ reading' \in [EventReads -> Reading] /\ ReadsRest
           /\ \A g \in EventReads :
                  /\ reading'[g].at # "idle" => reading'[g].topic = reading[g].topic /\ reading[g].at # "idle"
                  /\ reading'[g].at = "answered" /\ reading'[g].topic = t => reading'[g].overlapped
           /\ visit' \in VisitType /\ visit'.sent = visit.sent /\ visit'.atRisk = visit.atRisk
           /\ visit'.loaded = visit.loaded
           /\ visit'.strayed <=> visit.strayed \/ t # openChat
           /\ visit'.overtaken <=> visit.overtaken \/ (reading[f].overlapped /\ t = openChat)
           /\ \A e \in visit'.seen :
                  \/ e \in visit.seen
                  \/ e.number > 0 /\ e.topic = openChat /\ openChat \in Chats /\ e \in messages' \cup cached[openChat].rows
  <1> DEFINE t    == reading[f].topic
             next == OverlapReads(t, f)
             took == Taken(t, reading[f].overlapped)
  <1>0. /\ reading[f] \in Reading /\ reading[f].at = "answered" /\ reading[f].overlapped \in BOOLEAN
        /\ reading[f].rows \in SUBSET Entry /\ t \in Chats
        /\ messages' = reading[f].rows \cup {e \in messages : e.own}
        /\ openChat' = openChat /\ cached' = cached
    BY DEF ScreenTypes, TakeRead, Put, Reading
  <1>a. query' = OverlapQuery(t) /\ reading' = [next EXCEPT ![f] = NotFetched] /\ visit' = Seeing(took)
    BY DEF TakeRead, Put
  <1> HIDE DEF t, took
  <1>1. /\ query' \in [Chats -> Call] /\ Rests
        /\ \A u \in Chats : query'[u].at = query[u].at
        /\ query[t].at = "answered" => query'[t].overlapped
    BY <1>0, <1>a, OverlapQueryDoes DEF ScreenTypes
  <1>2. /\ next \in [EventReads -> Reading]
        /\ \A g \in EventReads :
               /\ next[g].at = reading[g].at /\ next[g].rows = reading[g].rows
               /\ next[g].topic = reading[g].topic
               /\ reading[g].overlapped => next[g].overlapped
               /\ g # f /\ reading[g].at = "answered" /\ reading[g].topic = t => next[g].overlapped
    BY <1>0, OverlapReadsDoes DEF ScreenTypes
  <1> HIDE DEF next
  <1>3. /\ reading' \in [EventReads -> Reading] /\ reading'[f] = NotFetched
        /\ \A g \in EventReads \ {f} : reading'[g] = next[g]
    BY <1>2, <1>a, NotFetchedType
  <1>4. /\ ReadsRest
        /\ \A g \in EventReads :
               /\ reading'[g].at # "idle" => reading'[g].topic = reading[g].topic /\ reading[g].at # "idle"
               /\ reading'[g].at = "answered" /\ reading'[g].topic = t => reading'[g].overlapped
    BY <1>2, <1>3, NotFetchedType DEF ReadsRest
  <1>5. /\ took \in VisitType /\ took.loaded = visit.loaded
        /\ took.sent = visit.sent /\ took.atRisk = visit.atRisk /\ took.seen = visit.seen
        /\ took.strayed <=> visit.strayed \/ t # openChat
        /\ took.overtaken <=> visit.overtaken \/ (reading[f].overlapped /\ t = openChat)
    BY <1>0, TakenDoes DEF took, ScreenTypes, Pages
  <1>6. messages' \subseteq Entry
    BY <1>0 DEF ScreenTypes
  <1>7. /\ visit' \in VisitType
        /\ visit'.sent = took.sent /\ visit'.atRisk = took.atRisk /\ visit'.loaded = took.loaded
        /\ visit'.strayed = took.strayed /\ visit'.overtaken = took.overtaken
        /\ \A e \in visit'.seen :
               \/ e \in took.seen
               \/ e.number > 0 /\ e.topic = openChat /\ openChat \in Chats /\ e \in messages' \cup cached[openChat].rows
    BY <1>0, <1>a, <1>5, <1>6, SeeingDoes DEF ScreenTypes
  <1>8. /\ visit' \in VisitType /\ visit'.sent = visit.sent /\ visit'.atRisk = visit.atRisk
        /\ visit'.loaded = visit.loaded
        /\ visit'.strayed <=> visit.strayed \/ t # openChat
        /\ visit'.overtaken <=> visit.overtaken \/ (reading[f].overlapped /\ t = openChat)
        /\ \A e \in visit'.seen :
               \/ e \in visit.seen
               \/ e.number > 0 /\ e.topic = openChat /\ openChat \in Chats /\ e \in messages' \cup cached[openChat].rows
    BY <1>5, <1>7
  <1> QED BY <1>0, <1>1, <1>3, <1>4, <1>8 DEF t

\* The other steps of the queries and the fetches.
LEMMA AnswerQueryDoes ==
    ASSUME ScreenTypes, PlacesInv, NEW t \in Chats, AnswerQuery(t)
    PROVE  /\ query' \in [Chats -> Call] /\ query[t].at = "asked"
           /\ query'[t].at = "answered" /\ query'[t].rows = GetConversationMessages(t)
           /\ \A u \in Chats \ {t} : query'[u] = query[u]
  <1> DEFINE rows == GetConversationMessages(t)
             c    == [[query[t] EXCEPT !.at = "answered"] EXCEPT !.rows = rows]
  <1>1. rows \in SUBSET Entry
    BY ApiRows
  <1>2. query' = [query EXCEPT ![t] = c] /\ query[t] \in Call /\ query[t].at = "asked"
    BY DEF AnswerQuery, ScreenTypes
  <1> HIDE DEF rows
  <1>3. c \in Call /\ c.at = "answered" /\ c.rows = rows
    BY <1>1, <1>2 DEF Call
  <1> HIDE DEF c
  <1> QED BY <1>2, <1>3 DEF ScreenTypes, rows

LEMMA AnswerReadDoes ==
    ASSUME ScreenTypes, PlacesInv, NEW f \in EventReads, AnswerRead(f)
    PROVE  /\ reading' \in [EventReads -> Reading] /\ reading[f].topic \in Chats
           /\ reading'[f].at = "answered" /\ reading'[f].topic = reading[f].topic
           /\ reading'[f].rows = GetConversationMessages(reading[f].topic)
           /\ \A g \in EventReads \ {f} : reading'[g] = reading[g]
  <1> DEFINE rows == GetConversationMessages(reading[f].topic)
             c    == [[reading[f] EXCEPT !.at = "answered"] EXCEPT !.rows = rows]
  <1>1. reading[f].topic \in Chats
    BY DEF AnswerRead, ScreenTypes
  <1>2. rows \in SUBSET Entry
    BY <1>1, ApiRows
  <1>3. reading' = [reading EXCEPT ![f] = c] /\ reading[f] \in Reading
    BY DEF AnswerRead, ScreenTypes
  <1> HIDE DEF rows
  <1>4. c \in Reading /\ c.at = "answered" /\ c.rows = rows /\ c.topic = reading[f].topic
    BY <1>2, <1>3 DEF Reading
  <1> HIDE DEF c
  <1> QED BY <1>1, <1>3, <1>4 DEF ScreenTypes, rows

LEMMA ReadFailsDoes ==
    ASSUME ScreenTypes, NEW f \in EventReads, ReadFails(f)
    PROVE  /\ reading' \in [EventReads -> Reading] /\ ReadsRest
           /\ \A g \in EventReads : reading'[g].at # "idle" => reading'[g] = reading[g]
  BY NotFetchedType DEF ReadFails, ScreenTypes, ReadsRest

LEMMA NumberAndTellDoes ==
    ASSUME ScreenTypes, NEW t \in Chats, NEW n \in TextsWritten, NEW f \in EventReads, NumberAndTell(t, n, f)
    PROVE  /\ reading' \in [EventReads -> Reading] /\ ReadsRest
           /\ \A g \in EventReads : reading'[g].at # "idle" => reading'[g].topic \in Chats
  <1> DEFINE asked == [NotFetched EXCEPT !.at = "asked", !.topic = t]
  <1>1. asked \in Reading /\ asked.at = "asked" /\ asked.rows = {} /\ asked.topic = t
    BY DEF NotFetched, Reading, Pages
  <1>2. reading' = [reading EXCEPT ![f] = asked]
    BY DEF NumberAndTell
  <1> HIDE DEF asked
  <1> QED BY <1>1, <1>2 DEF ScreenTypes, ReadsRest

LEMMA GiveDoes ==
    ASSUME ScreenTypes, NEW t \in Chats, NEW n \in TextsWritten, Give(t, n)
    PROVE  /\ indexed' \in [Chats -> Seq(TextsWritten)] /\ indexed'[t] = Append(indexed[t], n)
           /\ \A u \in Chats \ {t} : indexed'[u] = indexed[u]
           /\ unnumbered' \in [Chats -> SUBSET TextsWritten] /\ unnumbered'[t] = unnumbered[t] \ {n}
           /\ \A u \in Chats \ {t} : unnumbered'[u] = unnumbered[u]
           /\ n \in unnumbered[t]
  BY DEF Give, ScreenTypes

\* Opening a page, reconnecting and sending.
LEMMA OpenChatDoes ==
    ASSUME ScreenTypes, NEW t \in Pages, OpenChat(t)
    PROVE  /\ query' \in [Chats -> Call] /\ Rests
           /\ visit' \in VisitType /\ visit'.sent = {} /\ ~visit'.loaded
           /\ \A e \in visit'.seen : /\ e.number > 0 /\ e.topic = openChat' /\ openChat' \in Chats
                                     /\ e \in messages \cup cached[openChat'].rows
  <1>1. query' \in [Chats -> Call] /\ Rests
    <2>1. CASE UNCHANGED query
      BY <2>1 DEF ScreenTypes, Rests
    <2>2. CASE t # NoChat /\ StartQuery(t)
      BY <2>2, StartDoes DEF ScreenTypes, Pages
    <2> QED BY <2>1, <2>2 DEF OpenChat
  <1>2. NewVisit \in VisitType /\ NewVisit.sent = {} /\ NewVisit.seen = {} /\ ~NewVisit.loaded
    BY DEF NewVisit, VisitType
  <1>3. /\ visit' = Seeing(NewVisit) /\ messages' = messages /\ cached' = cached /\ openChat' = t
        /\ messages' \subseteq Entry /\ cached' \in [Chats -> Kept] /\ openChat' \in Pages
    BY DEF OpenChat, ScreenTypes
  <1> HIDE DEF NewVisit
  <1>4. /\ visit' \in VisitType /\ visit'.sent = NewVisit.sent /\ visit'.loaded = NewVisit.loaded
        /\ \A e \in visit'.seen :
               \/ e \in NewVisit.seen
               \/ /\ e.number > 0 /\ e.topic = openChat' /\ openChat' \in Chats
                  /\ e \in messages' \cup cached'[openChat'].rows
    BY <1>2, <1>3, SeeingDoes
  <1> QED BY <1>1, <1>2, <1>3, <1>4

LEMMA ReconnectDoes ==
    ASSUME ScreenTypes, Reconnect
    PROVE  /\ query' \in [Chats -> Call] /\ Rests
           /\ visit' \in VisitType /\ visit'.sent = visit.sent /\ visit.sent \subseteq visit'.atRisk
           /\ visit'.loaded = visit.loaded /\ visit'.strayed = visit.strayed
           /\ visit'.overtaken = visit.overtaken /\ visit'.seen = visit.seen
  <1>1. query' \in [Chats -> Call] /\ Rests
    BY StartDoes DEF Reconnect, ScreenTypes, Pages
  <1> DEFINE risk == visit.atRisk \cup visit.sent
  <1>2. visit' = [visit EXCEPT !.atRisk = risk] /\ visit \in VisitType /\ risk \subseteq MyTexts
    BY DEF Reconnect, ScreenTypes, VisitType
  <1>3. visit.sent \subseteq risk
    OBVIOUS
  <1> HIDE DEF risk
  <1>4. /\ visit' \in VisitType /\ visit'.sent = visit.sent /\ visit'.atRisk = risk
        /\ visit'.loaded = visit.loaded /\ visit'.strayed = visit.strayed
        /\ visit'.overtaken = visit.overtaken /\ visit'.seen = visit.seen
    BY <1>2 DEF VisitType
  <1> QED BY <1>1, <1>3, <1>4

LEMMA SendTextDoes ==
    ASSUME ScreenTypes, NEW n \in MyTexts, SendText(n)
    PROVE  /\ openChat \in Chats /\ OwnEntry(n) \in Entry
           /\ messages' = messages \cup {OwnEntry(n)}
           /\ sending' \in [MyTexts -> [at : {"no", "asked", "saved"}, topic : Pages]]
           /\ sending'[n].topic = openChat /\ \A m \in MyTexts \ {n} : sending'[m] = sending[m]
           /\ visit' \in VisitType /\ visit'.sent = visit.sent \cup {n} /\ visit.atRisk \subseteq visit'.atRisk
           /\ n \notin visit'.atRisk => \A t \in Chats : query[t].at = "idle"
           /\ visit'.loaded = visit.loaded /\ visit'.strayed = visit.strayed
           /\ visit'.overtaken = visit.overtaken /\ visit'.seen = visit.seen
  <1> DEFINE risk == IF \E t \in Chats : query[t].at # "idle" THEN visit.atRisk \cup {n} ELSE visit.atRisk
             asks == [at |-> "asked", topic |-> openChat]
             v    == [visit EXCEPT !.sent = visit.sent \cup {n}]
  <1>1. openChat \in Chats
    BY DEF SendText, ScreenTypes, Pages
  <1>2. OwnEntry(n) \in Entry /\ messages' = messages \cup {OwnEntry(n)}
    BY <1>1, MaxTextsIsNat DEF SendText, OwnEntry, Entry, TextsWritten
  <1>3. asks \in [at : {"no", "asked", "saved"}, topic : Pages] /\ asks.topic = openChat
    BY <1>1 DEF Pages
  <1>4. sending' = [sending EXCEPT ![n] = asks]
    BY DEF SendText
  <1> HIDE DEF asks
  <1>5. /\ sending' \in [MyTexts -> [at : {"no", "asked", "saved"}, topic : Pages]]
        /\ sending'[n].topic = openChat /\ \A m \in MyTexts \ {n} : sending'[m] = sending[m]
    BY <1>3, <1>4 DEF ScreenTypes
  <1>6. /\ risk \subseteq MyTexts /\ visit.atRisk \subseteq risk
        /\ n \notin risk => \A t \in Chats : query[t].at = "idle"
    BY DEF ScreenTypes, VisitType
  <1>7. visit' = [v EXCEPT !.atRisk = risk]
    BY DEF SendText
  <1> HIDE DEF risk
  <1>8. /\ v \in VisitType /\ v.sent = visit.sent \cup {n} /\ v.atRisk = visit.atRisk
        /\ v.loaded = visit.loaded /\ v.strayed = visit.strayed /\ v.overtaken = visit.overtaken /\ v.seen = visit.seen
    BY DEF ScreenTypes, VisitType
  <1> HIDE DEF v
  <1>9. /\ visit' \in VisitType /\ visit'.sent = v.sent /\ visit'.atRisk = risk
        /\ visit'.loaded = v.loaded /\ visit'.strayed = v.strayed /\ visit'.overtaken = v.overtaken /\ visit'.seen = v.seen
    BY <1>6, <1>7, <1>8 DEF VisitType
  <1> QED BY <1>1, <1>2, <1>5, <1>6, <1>8, <1>9

LEMMA ScreenInitial == ScreenInit => ScreenIInv
  <1> SUFFICES ASSUME ScreenInit PROVE ScreenIInv
    OBVIOUS
  <1> USE DEF ScreenInit
  <1>1. NotCached \in Kept /\ NotSending \in [at : {"no", "asked", "saved"}, topic : Pages] /\ NewVisit \in VisitType
    BY DEF NotCached, Kept, NotSending, Pages, NewVisit, VisitType
  <1>2. ScreenTypes
    <2>1. << >> \in Seq(TextsWritten) /\ 0 \in 0 .. MaxTexts
      BY MaxTextsIsNat
    <2> QED BY <1>1, <2>1, NotReadType, NotFetchedType DEF ScreenTypes, Pages
  <1>3. PlacesInv
    BY DEF PlacesInv, NotSending
  <1>4. RealInv
    BY NotReadType, NotFetchedType DEF RealInv, NotCached, NewVisit
  <1>5. KeepInv /\ PlaceInv /\ SeenInv
    BY DEF KeepInv, PlaceInv, SeenInv, NewVisit
  <1>6. FreshInv
    BY NotReadType, NotFetchedType DEF FreshInv
  <1>7. ReceiptInv
    BY NotReadType DEF ReceiptInv, ReceiptIsOfRead
  <1> QED BY <1>2, <1>3, <1>4, <1>5, <1>6, <1>7 DEF ScreenIInv

LEMMA ScreenTypesKeep == ScreenIInv /\ [ScreenNext]_screenVars => ScreenTypes'
  <1> SUFFICES ASSUME ScreenIInv, [ScreenNext]_screenVars PROVE ScreenTypes'
    OBVIOUS
  <1>0. ScreenTypes /\ PlacesInv /\ ReceiptInv
    BY DEF ScreenIInv
  <1>1. CASE Reconnect
    BY <1>0, <1>1, ReconnectDoes DEF Reconnect, ScreenTypes
  <1>2. ASSUME NEW t \in Pages, OpenChat(t) PROVE ScreenTypes'
    BY <1>0, <1>2, OpenChatDoes DEF OpenChat, ScreenTypes
  <1>3. ASSUME NEW t \in Chats, AnswerQuery(t) PROVE ScreenTypes'
    BY <1>0, <1>3, AnswerQueryDoes DEF AnswerQuery, ScreenTypes
  <1>4. ASSUME NEW t \in Chats, TakeQuery(t) PROVE ScreenTypes'
    <2>1. receipt' \in [Chats -> 0 .. MaxTexts]
      <3>1. CASE query[t].rows = {}
        BY <1>0, <1>4, <3>1 DEF TakeQuery, ScreenTypes
      <3>2. CASE query[t].rows # {}
        <4>1. PICK m \in 0 .. MaxTexts : UpTo(query[t].rows, m)
          BY <1>0, <1>4 DEF TakeQuery, ReceiptInv
        <4>2. Highest(query[t].rows) = m
          BY <1>0, <1>4, <3>2, <4>1, TakeQueryDoes, HighestIs
        <4> QED BY <1>0, <1>4, <3>2, <4>2 DEF TakeQuery, ScreenTypes
      <3> QED BY <3>1, <3>2
    <2>2. /\ messages' \subseteq Entry /\ cached' \in [Chats -> Kept] /\ query' \in [Chats -> Call]
          /\ reading' \in [EventReads -> Reading] /\ visit' \in VisitType
          /\ \A f \in EventReads : reading'[f].at = reading[f].at /\ reading'[f].topic = reading[f].topic
      BY <1>0, <1>4, TakeQueryDoes
    <2>3. \A f \in EventReads : reading'[f].at # "idle" => reading'[f].topic \in Chats
      BY <1>0, <2>2 DEF ScreenTypes
    <2> QED BY <1>0, <1>4, <2>1, <2>2, <2>3 DEF TakeQuery, ScreenTypes
  <1>5. ASSUME NEW t \in Chats, QueryFails(t) PROVE ScreenTypes'
    <2>1. query' \in [Chats -> Call]
      BY <1>0, <1>5, EndDoes DEF QueryFails, ScreenTypes
    <2> QED BY <1>0, <1>5, <2>1 DEF QueryFails, ScreenTypes
  <1>6. ASSUME NEW t \in Chats, NEW n \in TheirTexts, OtherSends(n, t) PROVE ScreenTypes'
    BY <1>0, <1>6 DEF OtherSends, ScreenTypes, TextsWritten
  <1>7. ASSUME NEW t \in Chats, NEW n \in TextsWritten, Number(t, n) PROVE ScreenTypes'
    <2>1. indexed' \in [Chats -> Seq(TextsWritten)] /\ unnumbered' \in [Chats -> SUBSET TextsWritten]
      BY <1>0, <1>7, GiveDoes DEF Number
    <2> QED BY <1>0, <1>7, <2>1 DEF Number, Give, ScreenTypes
  <1>8. ASSUME NEW t \in Chats, NEW n \in TextsWritten, NEW f \in EventReads, NumberAndTell(t, n, f)
        PROVE ScreenTypes'
    <2>1. indexed' \in [Chats -> Seq(TextsWritten)] /\ unnumbered' \in [Chats -> SUBSET TextsWritten]
      BY <1>0, <1>8, GiveDoes DEF NumberAndTell
    <2>2. /\ reading' \in [EventReads -> Reading]
          /\ \A g \in EventReads : reading'[g].at # "idle" => reading'[g].topic \in Chats
      BY <1>0, <1>8, NumberAndTellDoes
    <2> QED BY <1>0, <1>8, <2>1, <2>2 DEF NumberAndTell, Give, ScreenTypes
  <1>9. ASSUME NEW f \in EventReads, AnswerRead(f) PROVE ScreenTypes'
    <2>1. /\ reading' \in [EventReads -> Reading]
          /\ \A g \in EventReads : reading'[g].at # "idle" => reading'[g].topic \in Chats
      BY <1>0, <1>9, AnswerReadDoes DEF ScreenTypes
    <2> QED BY <1>0, <1>9, <2>1 DEF AnswerRead, ScreenTypes
  <1>10. ASSUME NEW f \in EventReads, TakeRead(f) PROVE ScreenTypes'
    <2>1. /\ messages' \subseteq Entry /\ query' \in [Chats -> Call]
          /\ reading' \in [EventReads -> Reading] /\ visit' \in VisitType
          /\ \A g \in EventReads : reading'[g].at # "idle" => reading'[g].topic \in Chats
      BY <1>0, <1>10, TakeReadDoes DEF ScreenTypes
    <2> QED BY <1>0, <1>10, <2>1 DEF TakeRead, Put, ScreenTypes
  <1>11. ASSUME NEW f \in EventReads, ReadFails(f) PROVE ScreenTypes'
    <2>1. /\ reading' \in [EventReads -> Reading]
          /\ \A g \in EventReads : reading'[g].at # "idle" => reading'[g].topic \in Chats
      BY <1>0, <1>11, ReadFailsDoes DEF ScreenTypes
    <2> QED BY <1>0, <1>11, <2>1 DEF ReadFails, ScreenTypes
  <1>12. ASSUME NEW n \in MyTexts, SendText(n) PROVE ScreenTypes'
    <2>1. written' \subseteq TextsWritten
      BY <1>0, <1>12 DEF SendText, ScreenTypes, TextsWritten
    <2>2. messages' \subseteq Entry
      BY <1>0, <1>12, SendTextDoes DEF ScreenTypes
    <2>3. sending' \in [MyTexts -> [at : {"no", "asked", "saved"}, topic : Pages]] /\ visit' \in VisitType
      BY <1>0, <1>12, SendTextDoes
    <2> QED BY <1>0, <1>12, <2>1, <2>2, <2>3 DEF SendText, ScreenTypes
  <1>13. ASSUME NEW n \in MyTexts, ServerSaves(n) PROVE ScreenTypes'
    <2>1. sending' \in [MyTexts -> [at : {"no", "asked", "saved"}, topic : Pages]]
      BY <1>0, <1>13 DEF ServerSaves, ScreenTypes
    <2>2. unnumbered' \in [Chats -> SUBSET TextsWritten]
      BY <1>0, <1>13 DEF ServerSaves, ScreenTypes, PlacesInv, TextsWritten
    <2> QED BY <1>0, <1>13, <2>1, <2>2 DEF ServerSaves, ScreenTypes
  <1>14. ASSUME NEW n \in MyTexts, Settle(n) PROVE ScreenTypes'
    <2>1. NotSending \in [at : {"no", "asked", "saved"}, topic : Pages]
      BY DEF NotSending, Pages
    <2> QED BY <1>0, <1>14, <2>1 DEF Settle, ScreenTypes
  <1>15. CASE UNCHANGED screenVars
    BY <1>0, <1>15 DEF screenVars, ScreenTypes
  <1> QED BY <1>1, <1>2, <1>3, <1>4, <1>5, <1>6, <1>7, <1>8, <1>9, <1>10, <1>11, <1>12, <1>13, <1>14, <1>15
          DEF ScreenNext, SendSucceeds, SendFails

LEMMA PlacesKeep == ScreenIInv /\ [ScreenNext]_screenVars => PlacesInv'
  <1> SUFFICES ASSUME ScreenIInv, [ScreenNext]_screenVars PROVE PlacesInv'
    OBVIOUS
  <1>0. ScreenTypes /\ PlacesInv
    BY DEF ScreenIInv
  <1>1. ASSUME UNCHANGED <<indexed, unnumbered, written, sending>> PROVE PlacesInv'
    BY <1>0, <1>1 DEF PlacesInv
  <1>2. ASSUME NEW t \in Chats, NEW n \in TheirTexts, OtherSends(n, t) PROVE PlacesInv'
    <2>1. /\ unnumbered'[t] = unnumbered[t] \cup {n} /\ \A u \in Chats \ {t} : unnumbered'[u] = unnumbered[u]
          /\ n \notin written /\ written' = written \cup {n} /\ UNCHANGED <<indexed, sending>>
      BY <1>0, <1>2 DEF OtherSends, ScreenTypes
    <2> QED BY <1>0, <2>1 DEF PlacesInv
  <1>3. ASSUME NEW t \in Chats, NEW n \in TextsWritten, Give(t, n) PROVE PlacesInv'
    <2>0. /\ indexed'[t] = Append(indexed[t], n) /\ \A u \in Chats \ {t} : indexed'[u] = indexed[u]
          /\ unnumbered'[t] = unnumbered[t] \ {n} /\ \A u \in Chats \ {t} : unnumbered'[u] = unnumbered[u]
          /\ n \in unnumbered[t] /\ UNCHANGED <<written, sending>>
      BY <1>0, <1>3, GiveDoes DEF Give
    <2>1. /\ indexed[t] \in Seq(TextsWritten)
          /\ DOMAIN indexed'[t] = DOMAIN indexed[t] \cup {Len(indexed[t]) + 1}
          /\ \A i \in DOMAIN indexed[t] : indexed'[t][i] = indexed[t][i]
          /\ indexed'[t][Len(indexed[t]) + 1] = n
      BY <1>0, <2>0 DEF ScreenTypes
    <2>2. n \in written /\ \A i \in DOMAIN indexed[t] : indexed[t][i] # n
      BY <1>0, <2>0 DEF PlacesInv
    <2>3. \A i, j \in DOMAIN indexed'[t] : indexed'[t][i] = indexed'[t][j] => i = j
      BY <1>0, <2>1, <2>2 DEF PlacesInv
    <2>4. \A i \in DOMAIN indexed'[t] : indexed'[t][i] \in written \ unnumbered'[t]
      BY <1>0, <2>0, <2>1, <2>2 DEF PlacesInv
    <2>5. ASSUME NEW m \in MyTexts, sending[m].at = "asked"
          PROVE  m \notin unnumbered'[t] /\ \A i \in DOMAIN indexed'[t] : indexed'[t][i] # m
      BY <1>0, <2>0, <2>1, <2>5 DEF PlacesInv
    <2>6. \A u \in Chats : unnumbered'[u] \subseteq written
      BY <1>0, <2>0 DEF PlacesInv
    <2>7. \A u \in Chats : \A i, j \in DOMAIN indexed'[u] : indexed'[u][i] = indexed'[u][j] => i = j
      BY <1>0, <2>0, <2>3 DEF PlacesInv
    <2>8. \A u \in Chats : \A i \in DOMAIN indexed'[u] : indexed'[u][i] \in written \ unnumbered'[u]
      BY <1>0, <2>0, <2>4 DEF PlacesInv
    <2>9. ASSUME NEW m \in MyTexts, sending[m].at = "asked"
          PROVE  /\ m \in written /\ sending[m].topic \in Chats
                 /\ \A u \in Chats : m \notin unnumbered'[u] /\ \A i \in DOMAIN indexed'[u] : indexed'[u][i] # m
      BY <1>0, <2>0, <2>5, <2>9 DEF PlacesInv
    <2> QED BY <2>0, <2>6, <2>7, <2>8, <2>9 DEF PlacesInv
  <1>4. ASSUME NEW n \in MyTexts, SendText(n) PROVE PlacesInv'
    <2>1. /\ n \notin written /\ written' = written \cup {n} /\ UNCHANGED <<indexed, unnumbered>>
          /\ openChat \in Chats /\ sending'[n].topic = openChat
          /\ \A m \in MyTexts \ {n} : sending'[m] = sending[m]
      BY <1>0, <1>4, SendTextDoes DEF SendText
    <2>2. \A t \in Chats : n \notin unnumbered[t] /\ \A i \in DOMAIN indexed[t] : indexed[t][i] # n
      BY <1>0, <2>1 DEF PlacesInv
    <2> QED BY <1>0, <2>1, <2>2 DEF PlacesInv
  <1>5. ASSUME NEW n \in MyTexts, ServerSaves(n) PROVE PlacesInv'
    <2> DEFINE t == sending[n].topic
    <2>1. t \in Chats /\ n \in written /\ \A i \in DOMAIN indexed[t] : indexed[t][i] # n
      BY <1>0, <1>5 DEF ServerSaves, PlacesInv
    <2>2. /\ unnumbered'[t] = unnumbered[t] \cup {n} /\ \A u \in Chats \ {t} : unnumbered'[u] = unnumbered[u]
          /\ UNCHANGED <<indexed, written>>
          /\ sending'[n].at = "saved" /\ \A m \in MyTexts \ {n} : sending'[m] = sending[m]
      BY <1>0, <1>5, <2>1 DEF ServerSaves, ScreenTypes
    <2> HIDE DEF t
    <2> QED BY <1>0, <2>1, <2>2 DEF PlacesInv
  <1>6. ASSUME NEW n \in MyTexts, Settle(n) PROVE PlacesInv'
    <2>1. /\ UNCHANGED <<indexed, unnumbered, written>>
          /\ sending'[n].at = "no" /\ \A m \in MyTexts \ {n} : sending'[m] = sending[m]
      BY <1>0, <1>6 DEF Settle, ScreenTypes, NotSending
    <2> QED BY <1>0, <2>1 DEF PlacesInv
  <1>7. ASSUME Reconnect \/ \E t \in Pages : OpenChat(t) PROVE PlacesInv'
    BY <1>1, <1>7 DEF Reconnect, OpenChat
  <1>8. ASSUME NEW t \in Chats, AnswerQuery(t) \/ TakeQuery(t) \/ QueryFails(t) PROVE PlacesInv'
    BY <1>1, <1>8 DEF AnswerQuery, TakeQuery, QueryFails
  <1>9. ASSUME NEW f \in EventReads, AnswerRead(f) \/ TakeRead(f) \/ ReadFails(f) PROVE PlacesInv'
    BY <1>1, <1>9 DEF AnswerRead, TakeRead, Put, ReadFails
  <1>10. CASE UNCHANGED screenVars
    BY <1>1, <1>10 DEF screenVars
  <1> QED BY <1>2, <1>3, <1>4, <1>5, <1>6, <1>7, <1>8, <1>9, <1>10
          DEF ScreenNext, SendSucceeds, SendFails, Number, NumberAndTell

\* A number that a text has in a topic stays.
Grows == \A t \in Chats : /\ Len(indexed[t]) <= Len(indexed'[t])
                          /\ \A k \in DOMAIN indexed[t] : k \in DOMAIN indexed'[t] /\ indexed'[t][k] = indexed[t][k]

LEMMA GiveGrows ==
    ASSUME ScreenTypes, NEW t \in Chats, NEW n \in TextsWritten, Give(t, n)
    PROVE  Grows
  <1>1. /\ indexed'[t] = Append(indexed[t], n) /\ \A u \in Chats \ {t} : indexed'[u] = indexed[u]
        /\ \A u \in Chats : indexed[u] \in Seq(TextsWritten)
    BY GiveDoes DEF ScreenTypes
  <1>2. \A u \in Chats : Len(indexed[u]) <= Len(indexed[u])
    BY <1>1
  <1> QED BY <1>1, <1>2 DEF Grows

LEMMA IndexGrows == ScreenTypes /\ [ScreenNext]_screenVars => Grows
  <1> SUFFICES ASSUME ScreenTypes, [ScreenNext]_screenVars PROVE Grows
    OBVIOUS
  <1>1. ASSUME UNCHANGED indexed PROVE Grows
    <2>1. \A t \in Chats : Len(indexed[t]) <= Len(indexed[t])
      BY DEF ScreenTypes
    <2> QED BY <1>1, <2>1 DEF Grows
  <1>2. ASSUME NEW t \in Chats, NEW n \in TextsWritten, Give(t, n) PROVE Grows
    BY <1>2, GiveGrows
  <1>3. ASSUME Reconnect \/ \E t \in Pages : OpenChat(t) PROVE Grows
    BY <1>1, <1>3 DEF Reconnect, OpenChat
  <1>4. ASSUME NEW t \in Chats, AnswerQuery(t) \/ TakeQuery(t) \/ QueryFails(t) \/ \E n \in TheirTexts : OtherSends(n, t)
        PROVE  Grows
    BY <1>1, <1>4 DEF AnswerQuery, TakeQuery, QueryFails, OtherSends
  <1>5. ASSUME NEW f \in EventReads, AnswerRead(f) \/ TakeRead(f) \/ ReadFails(f) PROVE Grows
    BY <1>1, <1>5 DEF AnswerRead, TakeRead, Put, ReadFails
  <1>6. ASSUME NEW n \in MyTexts, SendText(n) \/ ServerSaves(n) \/ Settle(n) PROVE Grows
    BY <1>1, <1>6 DEF SendText, ServerSaves, Settle
  <1>7. CASE UNCHANGED screenVars
    BY <1>1, <1>7 DEF screenVars
  <1> QED BY <1>2, <1>3, <1>4, <1>5, <1>6, <1>7 DEF ScreenNext, SendSucceeds, SendFails, Number, NumberAndTell

\* What is among the newest rows after a step was so before.
LEMMA RecentBefore ==
    ASSUME ScreenTypes, ScreenTypes', Grows, NEW t \in Chats, NEW k \in 0 .. MaxTexts, Recent(t, k)'
    PROVE  Recent(t, k)
  <1>1. Len(indexed[t]) \in Nat /\ Len(indexed'[t]) \in Nat /\ Len(indexed[t]) <= Len(indexed'[t])
    BY DEF ScreenTypes, Grows
  <1> QED BY <1>1, MaxTextsIsNat, LimitAssumption DEF Recent

LEMMA RecentStep ==
    ASSUME ScreenIInv, [ScreenNext]_screenVars
    PROVE  /\ \A t \in Chats, k \in 0 .. MaxTexts : Recent(t, k)' => Recent(t, k)
           /\ \A t \in Chats : \A e \in messages \cup messages' \cup cached[t].rows \cup cached'[t].rows :
                  e.number \in 0 .. MaxTexts
  <1>1. ScreenTypes /\ ScreenTypes' /\ Grows
    BY ScreenTypesKeep, IndexGrows DEF ScreenIInv
  <1>2. \A t \in Chats : \A e \in messages \cup messages' \cup cached[t].rows \cup cached'[t].rows : e \in Entry
    BY <1>1 DEF ScreenTypes, Kept
  <1>3. \A e \in Entry : e.number \in 0 .. MaxTexts
    BY DEF Entry
  <1> QED BY <1>1, <1>2, <1>3, RecentBefore

\* What was a row of the index is one after the step.
LEMMA RealBut ==
    ASSUME ScreenTypes', Grows,
           \A e \in messages' \cup visit'.seen : Real(e),
           \A t \in Chats : \A e \in cached'[t].rows \cup query'[t].rows : Real(e) /\ e.topic = t,
           \A f \in EventReads : \A e \in reading'[f].rows : Real(e) /\ e.topic = reading'[f].topic
    PROVE  RealInv'
  <1>1. \A e \in Entry : Real(e) => Real(e)'
    <2> SUFFICES ASSUME NEW e \in Entry, Real(e), e.number > 0
                 PROVE  ~e.own /\ e.number \in DOMAIN indexed'[e.topic] /\ e.text = indexed'[e.topic][e.number]
      BY DEF Real
    <2>1. e.topic \in Chats
      BY DEF Entry
    <2> QED BY <2>1 DEF Real, Grows
  <1>2. messages' \cup visit'.seen \subseteq Entry
    BY DEF ScreenTypes, VisitType
  <1>3. \A t \in Chats : cached'[t].rows \subseteq Entry /\ query'[t].rows \subseteq Entry
    BY DEF ScreenTypes, Kept, Call
  <1>4. \A f \in EventReads : reading'[f].rows \subseteq Entry
    BY DEF ScreenTypes, Reading
  <1>5. \A e \in messages' \cup visit'.seen : Real(e)'
    BY <1>1, <1>2
  <1>6. \A t \in Chats : \A e \in cached'[t].rows \cup query'[t].rows : Real(e)' /\ e.topic = t
    BY <1>1, <1>3
  <1>7. \A f \in EventReads : \A e \in reading'[f].rows : Real(e)' /\ e.topic = reading'[f].topic
    BY <1>1, <1>4
  <1> QED BY <1>5, <1>6, <1>7 DEF RealInv

LEMMA RealKeeps == ScreenIInv /\ [ScreenNext]_screenVars => RealInv'
  <1> SUFFICES ASSUME ScreenIInv, [ScreenNext]_screenVars PROVE RealInv'
    OBVIOUS
  <1> DEFINE Shown == \A e \in messages' \cup visit'.seen : Real(e)
             Calls == \A t \in Chats : \A e \in cached'[t].rows \cup query'[t].rows : Real(e) /\ e.topic = t
             Reads == \A f \in EventReads : \A e \in reading'[f].rows : Real(e) /\ e.topic = reading'[f].topic
  <1>0. ScreenTypes /\ PlacesInv /\ RealInv /\ ScreenTypes' /\ Grows
    BY ScreenTypesKeep, IndexGrows DEF ScreenIInv
  <1>1. Shown /\ Calls /\ Reads => RealInv'
    BY <1>0, RealBut
  <1>2. ASSUME UNCHANGED <<messages, visit>> PROVE Shown
    BY <1>0, <1>2 DEF RealInv
  <1>3. ASSUME UNCHANGED cached, Rests PROVE Calls
    BY <1>0, <1>3 DEF RealInv, Rests
  <1>4. ASSUME ReadsRest PROVE Reads
    BY <1>0, <1>4 DEF RealInv, ReadsRest
  <1>5. UNCHANGED query => Rests
    BY DEF Rests
  <1>6. UNCHANGED reading => ReadsRest
    BY DEF ReadsRest
  <1> HIDE DEF Shown, Calls, Reads
  <1>7. CASE Reconnect
    <2>1. Rests /\ visit'.seen = visit.seen /\ UNCHANGED <<messages, cached, reading>>
      BY <1>0, <1>7, ReconnectDoes DEF Reconnect
    <2>2. Shown
      BY <1>0, <2>1 DEF Shown, RealInv
    <2> QED BY <1>1, <1>3, <1>4, <1>6, <2>1, <2>2
  <1>8. ASSUME NEW t \in Pages, OpenChat(t) PROVE RealInv'
    <2>1. /\ Rests /\ UNCHANGED <<messages, cached, reading>>
          /\ \A e \in visit'.seen : openChat' \in Chats /\ e \in messages \cup cached[openChat'].rows
      BY <1>0, <1>8, OpenChatDoes DEF OpenChat
    <2>2. Shown
      BY <1>0, <2>1 DEF Shown, RealInv
    <2> QED BY <1>1, <1>3, <1>4, <1>6, <2>1, <2>2
  <1>9. ASSUME NEW t \in Chats, AnswerQuery(t) PROVE RealInv'
    <2>1. /\ query'[t].rows = GetConversationMessages(t) /\ \A u \in Chats \ {t} : query'[u] = query[u]
          /\ UNCHANGED <<messages, visit, cached, reading>>
      BY <1>0, <1>9, AnswerQueryDoes DEF AnswerQuery
    <2>2. \A e \in query'[t].rows : Real(e) /\ e.topic = t
      BY <1>0, <2>1, ApiRows
    <2>3. Calls
      BY <1>0, <2>1, <2>2 DEF Calls, RealInv
    <2> QED BY <1>1, <1>2, <1>4, <1>6, <2>1, <2>3
  <1>10. ASSUME NEW t \in Chats, TakeQuery(t) PROVE RealInv'
    <2>1. /\ messages' = query[t].rows /\ cached'[t].rows = query[t].rows
          /\ \A u \in Chats \ {t} : cached'[u] = cached[u]
          /\ Rests /\ ReadsRest
          /\ \A e \in visit'.seen : e \in visit.seen \/ (openChat \in Chats /\ e \in messages' \cup cached'[openChat].rows)
      BY <1>0, <1>10, TakeQueryDoes
    <2>2. Calls
      BY <1>0, <2>1 DEF Calls, RealInv, Rests
    <2>3. Shown
      BY <1>0, <2>1 DEF Shown, RealInv
    <2> QED BY <1>1, <1>4, <2>1, <2>2, <2>3
  <1>11. ASSUME NEW t \in Chats, QueryFails(t) PROVE RealInv'
    <2>1. Rests /\ UNCHANGED <<messages, visit, cached, reading>>
      BY <1>0, <1>11, EndDoes DEF QueryFails, ScreenTypes
    <2> QED BY <1>1, <1>2, <1>3, <1>4, <1>6, <2>1
  <1>12. ASSUME UNCHANGED <<messages, visit, cached, query>>, ReadsRest PROVE RealInv'
    BY <1>1, <1>2, <1>3, <1>4, <1>5, <1>12
  <1>13. ASSUME NEW t \in Chats, NEW n \in TheirTexts, OtherSends(n, t) PROVE RealInv'
    BY <1>6, <1>12, <1>13 DEF OtherSends
  <1>14. ASSUME NEW t \in Chats, NEW n \in TextsWritten, Number(t, n) PROVE RealInv'
    BY <1>6, <1>12, <1>14 DEF Number, Give
  <1>15. ASSUME NEW t \in Chats, NEW n \in TextsWritten, NEW f \in EventReads, NumberAndTell(t, n, f) PROVE RealInv'
    <2>1. ReadsRest
      BY <1>0, <1>15, NumberAndTellDoes
    <2> QED BY <1>12, <1>15, <2>1 DEF NumberAndTell, Give
  <1>16. ASSUME NEW f \in EventReads, AnswerRead(f) PROVE RealInv'
    <2>1. /\ reading'[f].rows = GetConversationMessages(reading[f].topic) /\ reading'[f].topic = reading[f].topic
          /\ reading[f].topic \in Chats /\ \A g \in EventReads \ {f} : reading'[g] = reading[g]
          /\ UNCHANGED <<messages, visit, cached, query>>
      BY <1>0, <1>16, AnswerReadDoes DEF AnswerRead
    <2>2. \A e \in reading'[f].rows : Real(e) /\ e.topic = reading'[f].topic
      BY <1>0, <2>1, ApiRows
    <2>3. Reads
      BY <1>0, <2>1, <2>2 DEF Reads, RealInv
    <2> QED BY <1>1, <1>2, <1>3, <1>5, <2>1, <2>3
  <1>17. ASSUME NEW f \in EventReads, TakeRead(f) PROVE RealInv'
    <2>1. /\ messages' = reading[f].rows \cup {e \in messages : e.own} /\ UNCHANGED cached
          /\ Rests /\ ReadsRest
          /\ \A e \in visit'.seen : e \in visit.seen \/ (openChat \in Chats /\ e \in messages' \cup cached[openChat].rows)
      BY <1>0, <1>17, TakeReadDoes
    <2>2. Shown
      BY <1>0, <2>1 DEF Shown, RealInv
    <2> QED BY <1>1, <1>3, <1>4, <2>1, <2>2
  <1>18. ASSUME NEW f \in EventReads, ReadFails(f) PROVE RealInv'
    <2>1. ReadsRest
      BY <1>0, <1>18, ReadFailsDoes
    <2> QED BY <1>12, <1>18, <2>1 DEF ReadFails
  <1>19. ASSUME NEW n \in MyTexts, SendText(n) PROVE RealInv'
    <2>1. messages' = messages \cup {OwnEntry(n)} /\ visit'.seen = visit.seen /\ UNCHANGED <<cached, query, reading>>
      BY <1>0, <1>19, SendTextDoes DEF SendText
    <2>2. Real(OwnEntry(n))
      BY DEF Real, OwnEntry
    <2>3. Shown
      BY <1>0, <2>1, <2>2 DEF Shown, RealInv
    <2> QED BY <1>1, <1>3, <1>4, <1>5, <1>6, <2>1, <2>3
  <1>20. ASSUME NEW n \in MyTexts, ServerSaves(n) \/ Settle(n) PROVE RealInv'
    BY <1>6, <1>12, <1>20 DEF ServerSaves, Settle
  <1>21. CASE UNCHANGED screenVars
    BY <1>6, <1>12, <1>21 DEF screenVars
  <1> QED BY <1>7, <1>8, <1>9, <1>10, <1>11, <1>13, <1>14, <1>15, <1>16, <1>17, <1>18, <1>19, <1>20, <1>21
          DEF ScreenNext, SendSucceeds, SendFails

LEMMA KeepKeeps == ScreenIInv /\ [ScreenNext]_screenVars => KeepInv'
  <1> SUFFICES ASSUME ScreenIInv, [ScreenNext]_screenVars PROVE KeepInv'
    OBVIOUS
  <1>0. ScreenTypes /\ PlacesInv /\ KeepInv
    BY DEF ScreenIInv
  <1>1. ASSUME visit'.sent \subseteq visit'.atRisk PROVE KeepInv'
    BY <1>1 DEF KeepInv
  <1>2. ASSUME UNCHANGED <<visit, messages, openChat, query>> PROVE KeepInv'
    BY <1>0, <1>2 DEF KeepInv, OwnEntry
  <1>3. ASSUME NEW t \in Chats, query[t].at # "idle" PROVE visit.sent \subseteq visit.atRisk
    BY <1>0, <1>3 DEF KeepInv
  <1>4. CASE Reconnect
    BY <1>0, <1>1, <1>4, ReconnectDoes
  <1>5. ASSUME NEW t \in Pages, OpenChat(t) PROVE KeepInv'
    BY <1>0, <1>1, <1>5, OpenChatDoes
  <1>6. ASSUME NEW t \in Chats, AnswerQuery(t) PROVE KeepInv'
    BY <1>1, <1>3, <1>6 DEF AnswerQuery
  <1>7. ASSUME NEW t \in Chats, TakeQuery(t) PROVE KeepInv'
    <2>1. query[t].at = "answered" /\ visit'.sent = visit.sent /\ visit'.atRisk = visit.atRisk
      BY <1>0, <1>7, TakeQueryDoes
    <2> QED BY <1>1, <1>3, <2>1
  <1>8. ASSUME NEW t \in Chats, QueryFails(t) PROVE KeepInv'
    BY <1>1, <1>3, <1>8 DEF QueryFails
  <1>9. ASSUME NEW f \in EventReads, TakeRead(f) PROVE KeepInv'
    <2>1. /\ messages' = reading[f].rows \cup {e \in messages : e.own}
          /\ \A u \in Chats : query'[u].at = query[u].at
          /\ visit'.sent = visit.sent /\ visit'.atRisk = visit.atRisk /\ openChat' = openChat
      BY <1>0, <1>9, TakeReadDoes DEF TakeRead, Put
    <2>2. \A n \in visit.sent : OwnEntry(n).own /\ OwnEntry(n)' = OwnEntry(n)
      BY <2>1 DEF OwnEntry
    <2>3. \A n \in visit.sent \ visit.atRisk : OwnEntry(n)' \in messages'
      BY <1>0, <2>1, <2>2 DEF KeepInv
    <2> QED BY <1>0, <2>1, <2>3 DEF KeepInv
  <1>10. ASSUME NEW n \in MyTexts, SendText(n) PROVE KeepInv'
    <2>1. /\ messages' = messages \cup {OwnEntry(n)} /\ UNCHANGED <<query, openChat>>
          /\ visit'.sent = visit.sent \cup {n} /\ visit.atRisk \subseteq visit'.atRisk
          /\ n \notin visit'.atRisk => \A t \in Chats : query[t].at = "idle"
      BY <1>0, <1>10, SendTextDoes DEF SendText
    <2>2. \A m \in MyTexts : OwnEntry(m)' = OwnEntry(m)
      BY <2>1 DEF OwnEntry
    <2>3. visit.sent \subseteq MyTexts
      BY <1>0 DEF ScreenTypes, VisitType
    <2>4. ASSUME NEW m \in visit'.sent \ visit'.atRisk
          PROVE  OwnEntry(m)' \in messages' /\ \A t \in Chats : query'[t].at = "idle"
      BY <1>0, <2>1, <2>2, <2>3, <2>4 DEF KeepInv
    <2> QED BY <2>4 DEF KeepInv
  <1>11. ASSUME NEW t \in Chats, \/ \E n \in TheirTexts : OtherSends(n, t)
                                 \/ \E n \in TextsWritten : \/ Number(t, n)
                                                            \/ \E f \in EventReads : NumberAndTell(t, n, f)
         PROVE KeepInv'
    BY <1>2, <1>11 DEF OtherSends, Number, NumberAndTell, Give
  <1>12. ASSUME NEW f \in EventReads, AnswerRead(f) \/ ReadFails(f) PROVE KeepInv'
    BY <1>2, <1>12 DEF AnswerRead, ReadFails
  <1>13. ASSUME NEW n \in MyTexts, ServerSaves(n) \/ Settle(n) PROVE KeepInv'
    BY <1>2, <1>13 DEF ServerSaves, Settle
  <1>14. CASE UNCHANGED screenVars
    BY <1>2, <1>14 DEF screenVars
  <1> QED BY <1>4, <1>5, <1>6, <1>7, <1>8, <1>9, <1>10, <1>11, <1>12, <1>13, <1>14
          DEF ScreenNext, SendSucceeds, SendFails

LEMMA PlaceKeeps == ScreenIInv /\ [ScreenNext]_screenVars => PlaceInv'
  <1> SUFFICES ASSUME ScreenIInv, [ScreenNext]_screenVars PROVE PlaceInv'
    OBVIOUS
  <1>0. ScreenTypes /\ RealInv /\ PlaceInv
    BY DEF ScreenIInv
  <1>1. ASSUME visit'.loaded = visit.loaded, visit'.strayed = visit.strayed, UNCHANGED <<messages, openChat>>
        PROVE  PlaceInv'
    BY <1>0, <1>1 DEF PlaceInv
  <1>2. CASE Reconnect
    <2>1. visit'.loaded = visit.loaded /\ visit'.strayed = visit.strayed /\ UNCHANGED <<messages, openChat>>
      BY <1>0, <1>2, ReconnectDoes DEF Reconnect
    <2> QED BY <1>1, <2>1
  <1>3. ASSUME NEW t \in Pages, OpenChat(t) PROVE PlaceInv'
    BY <1>0, <1>3, OpenChatDoes DEF PlaceInv
  <1>4. ASSUME NEW t \in Chats, TakeQuery(t) PROVE PlaceInv'
    <2>1. /\ messages' = query[t].rows /\ openChat' = openChat
          /\ visit'.strayed <=> visit.strayed \/ t # openChat
      BY <1>0, <1>4, TakeQueryDoes DEF TakeQuery
    <2> QED BY <1>0, <2>1 DEF PlaceInv, RealInv
  <1>5. ASSUME NEW f \in EventReads, TakeRead(f) PROVE PlaceInv'
    <2>1. /\ messages' = reading[f].rows \cup {e \in messages : e.own} /\ openChat' = openChat
          /\ visit'.loaded = visit.loaded
          /\ visit'.strayed <=> visit.strayed \/ reading[f].topic # openChat
      BY <1>0, <1>5, TakeReadDoes DEF TakeRead, Put
    <2> QED BY <1>0, <2>1 DEF PlaceInv, RealInv
  <1>6. ASSUME NEW n \in MyTexts, SendText(n) PROVE PlaceInv'
    <2>1. /\ messages' = messages \cup {OwnEntry(n)} /\ openChat' = openChat
          /\ visit'.loaded = visit.loaded /\ visit'.strayed = visit.strayed /\ OwnEntry(n).topic = openChat
      BY <1>0, <1>6, SendTextDoes DEF SendText, OwnEntry
    <2> QED BY <1>0, <2>1 DEF PlaceInv
  <1>7. ASSUME NEW t \in Chats, \/ AnswerQuery(t) \/ QueryFails(t)
                                \/ \E n \in TheirTexts : OtherSends(n, t)
                                \/ \E n \in TextsWritten : \/ Number(t, n)
                                                           \/ \E f \in EventReads : NumberAndTell(t, n, f)
         PROVE PlaceInv'
    BY <1>1, <1>7 DEF AnswerQuery, QueryFails, OtherSends, Number, NumberAndTell, Give
  <1>8. ASSUME NEW f \in EventReads, AnswerRead(f) \/ ReadFails(f) PROVE PlaceInv'
    BY <1>1, <1>8 DEF AnswerRead, ReadFails
  <1>9. ASSUME NEW n \in MyTexts, ServerSaves(n) \/ Settle(n) PROVE PlaceInv'
    BY <1>1, <1>9 DEF ServerSaves, Settle
  <1>10. CASE UNCHANGED screenVars
    BY <1>1, <1>10 DEF screenVars
  <1> QED BY <1>2, <1>3, <1>4, <1>5, <1>6, <1>7, <1>8, <1>9, <1>10 DEF ScreenNext, SendSucceeds, SendFails

\* An answer of now has every numbered message that the page may show.
LEMMA AnswerCovers ==
    ASSUME ScreenTypes, PlacesInv, RealInv, NEW t \in Chats
    PROVE  Covers(GetConversationMessages(t), t)
  <1> SUFFICES ASSUME NEW e \in messages \cup cached[t].rows, e.number > 0, e.topic = t, Recent(t, e.number)
               PROVE  e \in GetConversationMessages(t)
    BY DEF Covers
  <1>1. e \in Entry
    BY DEF ScreenTypes, Kept
  <1>2. ~e.own /\ e.number \in DOMAIN indexed[t] /\ e.text = indexed[t][e.number]
    BY DEF RealInv, Real
  <1>3. e = [own |-> FALSE, number |-> e.number, topic |-> t, text |-> indexed[t][e.number]]
    BY <1>1, <1>2 DEF Entry
  <1> QED BY <1>2, <1>3, ApiRows

LEMMA FreshKeeps == ScreenIInv /\ [ScreenNext]_screenVars => FreshInv'
  <1> SUFFICES ASSUME ScreenIInv, [ScreenNext]_screenVars PROVE FreshInv'
    OBVIOUS
  <1> DEFINE Calls == \A t \in Chats : query[t].at = "answered" /\ ~query[t].overlapped => Covers(query[t].rows, t)
             Reads == \A f \in EventReads : reading[f].at = "answered" /\ ~reading[f].overlapped =>
                          Covers(reading[f].rows, reading[f].topic)
  <1>0. ScreenTypes /\ PlacesInv /\ RealInv /\ FreshInv
    BY DEF ScreenIInv
  <1>00. /\ \A t \in Chats, k \in 0 .. MaxTexts : Recent(t, k)' => Recent(t, k)
         /\ \A t \in Chats : \A e \in messages \cup messages' \cup cached[t].rows \cup cached'[t].rows :
                e.number \in 0 .. MaxTexts
    BY RecentStep
  <1>1. Calls' /\ Reads' => FreshInv'
    BY DEF FreshInv
  <1>2. ASSUME UNCHANGED <<messages, cached>>, Rests PROVE Calls'
    BY <1>0, <1>00, <1>2 DEF FreshInv, Covers, Rests
  <1>3. ASSUME UNCHANGED <<messages, cached>>, ReadsRest PROVE Reads'
    BY <1>0, <1>00, <1>3 DEF FreshInv, Covers, ReadsRest, ScreenTypes
  <1>4. UNCHANGED query => Rests
    BY DEF Rests
  <1>5. UNCHANGED reading => ReadsRest
    BY DEF ReadsRest
  <1> HIDE DEF Calls, Reads
  <1>6. ASSUME UNCHANGED <<messages, cached>>, Rests, ReadsRest PROVE FreshInv'
    BY <1>1, <1>2, <1>3, <1>6
  <1>7. CASE Reconnect
    <2>1. Rests
      BY <1>0, <1>7, ReconnectDoes
    <2> QED BY <1>5, <1>6, <1>7, <2>1 DEF Reconnect
  <1>8. ASSUME NEW t \in Pages, OpenChat(t) PROVE FreshInv'
    <2>1. Rests
      BY <1>0, <1>8, OpenChatDoes
    <2> QED BY <1>5, <1>6, <1>8, <2>1 DEF OpenChat
  <1>9. ASSUME NEW t \in Chats, AnswerQuery(t) PROVE FreshInv'
    <2>1. /\ query'[t].rows = GetConversationMessages(t) /\ \A u \in Chats \ {t} : query'[u] = query[u]
          /\ UNCHANGED <<messages, cached, reading>>
      BY <1>0, <1>9, AnswerQueryDoes DEF AnswerQuery
    <2>2. Covers(query'[t].rows, t)
      BY <1>0, <2>1, AnswerCovers
    <2>3. Calls'
      BY <1>0, <1>00, <2>1, <2>2 DEF Calls, FreshInv, Covers
    <2> QED BY <1>1, <1>3, <1>5, <2>1, <2>3
  <1>10. ASSUME NEW t \in Chats, TakeQuery(t) PROVE FreshInv'
    <2>1. /\ messages' = query[t].rows /\ \A u \in Chats \ {t} : cached'[u] = cached[u]
          /\ Rests /\ ReadsRest /\ query'[t].at = "idle"
          /\ \A g \in EventReads : /\ reading'[g].at = reading[g].at /\ reading'[g].topic = reading[g].topic
                                   /\ reading[g].at = "answered" /\ reading[g].topic = t => reading'[g].overlapped
      BY <1>0, <1>10, TakeQueryDoes
    <2>2. \A e \in query[t].rows : e.topic = t
      BY <1>0 DEF RealInv
    <2>3. Calls'
      <3> SUFFICES ASSUME NEW u \in Chats, query'[u].at = "answered", ~query'[u].overlapped
                   PROVE  Covers(query[u].rows, u)'
        BY DEF Calls
      <3>1. u # t /\ query'[u].rows = query[u].rows /\ Covers(query[u].rows, u)
        BY <1>0, <2>1 DEF Rests, FreshInv
      <3> QED BY <1>00, <2>1, <2>2, <3>1 DEF Covers
    <2>4. Reads'
      <3> SUFFICES ASSUME NEW g \in EventReads, reading'[g].at = "answered", ~reading'[g].overlapped
                   PROVE  Covers(reading[g].rows, reading[g].topic)'
        BY DEF Reads
      <3>1. /\ reading[g].topic # t /\ reading'[g].topic = reading[g].topic /\ reading'[g].rows = reading[g].rows
            /\ Covers(reading[g].rows, reading[g].topic) /\ reading[g].at = "answered"
        BY <1>0, <2>1 DEF ReadsRest, FreshInv
      <3>2. reading[g].topic \in Chats \ {t}
        BY <1>0, <3>1 DEF ScreenTypes
      <3> QED BY <1>00, <2>1, <2>2, <3>1, <3>2 DEF Covers
    <2> QED BY <1>1, <2>3, <2>4
  <1>11. ASSUME NEW t \in Chats, QueryFails(t) PROVE FreshInv'
    <2>1. Rests
      BY <1>0, <1>11, EndDoes DEF QueryFails, ScreenTypes
    <2> QED BY <1>5, <1>6, <1>11, <2>1 DEF QueryFails
  <1>12. ASSUME NEW f \in EventReads, AnswerRead(f) PROVE FreshInv'
    <2>1. /\ reading'[f].rows = GetConversationMessages(reading[f].topic) /\ reading'[f].topic = reading[f].topic
          /\ reading[f].topic \in Chats /\ \A g \in EventReads \ {f} : reading'[g] = reading[g]
          /\ UNCHANGED <<messages, cached, query>>
      BY <1>0, <1>12, AnswerReadDoes DEF AnswerRead
    <2>2. Covers(reading'[f].rows, reading'[f].topic)
      BY <1>0, <2>1, AnswerCovers
    <2>3. Reads'
      BY <1>0, <1>00, <2>1, <2>2 DEF Reads, FreshInv, Covers, ScreenTypes
    <2> QED BY <1>1, <1>2, <1>4, <2>1, <2>3
  <1>13. ASSUME NEW f \in EventReads, TakeRead(f) PROVE FreshInv'
    <2> DEFINE t == reading[f].topic
    <2>1. /\ t \in Chats /\ messages' = reading[f].rows \cup {e \in messages : e.own} /\ UNCHANGED cached
          /\ Rests /\ ReadsRest /\ \A u \in Chats : query'[u].at = query[u].at
          /\ query[t].at = "answered" => query'[t].overlapped
          /\ \A g \in EventReads : reading'[g].at = "answered" /\ reading'[g].topic = t => reading'[g].overlapped
      BY <1>0, <1>13, TakeReadDoes
    <2>2. \A e \in reading[f].rows : e.topic = t
      BY <1>0 DEF RealInv
    <2> HIDE DEF t
    <2>3. Calls'
      <3> SUFFICES ASSUME NEW u \in Chats, query'[u].at = "answered", ~query'[u].overlapped
                   PROVE  Covers(query[u].rows, u)'
        BY DEF Calls
      <3>1. u # t /\ query'[u].rows = query[u].rows /\ Covers(query[u].rows, u)
        BY <1>0, <2>1 DEF Rests, FreshInv
      <3> QED BY <1>00, <2>1, <2>2, <3>1 DEF Covers
    <2>4. Reads'
      <3> SUFFICES ASSUME NEW g \in EventReads, reading'[g].at = "answered", ~reading'[g].overlapped
                   PROVE  Covers(reading[g].rows, reading[g].topic)'
        BY DEF Reads
      <3>1. /\ reading[g].topic # t /\ reading'[g].topic = reading[g].topic /\ reading'[g].rows = reading[g].rows
            /\ Covers(reading[g].rows, reading[g].topic) /\ reading[g].at = "answered"
        BY <1>0, <2>1 DEF ReadsRest, FreshInv
      <3>2. reading[g].topic \in Chats
        BY <1>0, <3>1 DEF ScreenTypes
      <3> QED BY <1>00, <2>1, <2>2, <3>1, <3>2 DEF Covers
    <2> QED BY <1>1, <2>3, <2>4
  <1>14. ASSUME NEW f \in EventReads, ReadFails(f) PROVE FreshInv'
    <2>1. ReadsRest
      BY <1>0, <1>14, ReadFailsDoes
    <2> QED BY <1>4, <1>6, <1>14, <2>1 DEF ReadFails
  <1>15. ASSUME NEW n \in MyTexts, SendText(n) PROVE FreshInv'
    <2>1. messages' = messages \cup {OwnEntry(n)} /\ OwnEntry(n).number = 0 /\ UNCHANGED <<cached, query, reading>>
      BY <1>0, <1>15, SendTextDoes DEF SendText, OwnEntry
    <2>2. Calls' /\ Reads'
      BY <1>0, <1>00, <2>1 DEF Calls, Reads, FreshInv, Covers, ScreenTypes
    <2> QED BY <1>1, <2>2
  <1>16. ASSUME NEW t \in Chats, NEW n \in TextsWritten, NEW f \in EventReads, NumberAndTell(t, n, f) PROVE FreshInv'
    <2>1. ReadsRest
      BY <1>0, <1>16, NumberAndTellDoes
    <2> QED BY <1>4, <1>6, <1>16, <2>1 DEF NumberAndTell, Give
  <1>17. ASSUME NEW t \in Chats, \/ \E n \in TheirTexts : OtherSends(n, t)
                                 \/ \E n \in TextsWritten : Number(t, n)
         PROVE FreshInv'
    BY <1>4, <1>5, <1>6, <1>17 DEF OtherSends, Number, Give
  <1>18. ASSUME NEW n \in MyTexts, ServerSaves(n) \/ Settle(n) PROVE FreshInv'
    BY <1>4, <1>5, <1>6, <1>18 DEF ServerSaves, Settle
  <1>19. CASE UNCHANGED screenVars
    BY <1>4, <1>5, <1>6, <1>19 DEF screenVars
  <1> QED BY <1>7, <1>8, <1>9, <1>10, <1>11, <1>12, <1>13, <1>14, <1>15, <1>16, <1>17, <1>18, <1>19
          DEF ScreenNext, SendSucceeds, SendFails

LEMMA SeenKeeps == ScreenIInv /\ [ScreenNext]_screenVars => SeenInv'
  <1> SUFFICES ASSUME ScreenIInv, [ScreenNext]_screenVars PROVE SeenInv'
    OBVIOUS
  <1>0. ScreenTypes /\ RealInv /\ FreshInv /\ SeenInv
    BY DEF ScreenIInv
  <1>00. /\ \A t \in Chats, k \in 0 .. MaxTexts : Recent(t, k)' => Recent(t, k)
         /\ \A e \in visit.seen \cup visit'.seen : e.number \in 0 .. MaxTexts
    <2>1. \A e \in Entry : e.number \in 0 .. MaxTexts
      BY DEF Entry
    <2>2. visit.seen \subseteq Entry /\ visit'.seen \subseteq Entry
      BY ScreenTypesKeep DEF ScreenIInv, ScreenTypes, VisitType
    <2> QED BY <2>1, <2>2, RecentStep
  <1>1. ASSUME visit'.seen = visit.seen, visit'.strayed = visit.strayed, visit'.overtaken = visit.overtaken,
               messages \subseteq messages', UNCHANGED <<cached, openChat>>
        PROVE  SeenInv'
    BY <1>0, <1>00, <1>1 DEF SeenInv
  <1>2. ASSUME UNCHANGED <<visit, messages, cached, openChat>> PROVE SeenInv'
    BY <1>1, <1>2
  <1>3. CASE Reconnect
    <2>1. /\ visit'.seen = visit.seen /\ visit'.strayed = visit.strayed /\ visit'.overtaken = visit.overtaken
          /\ UNCHANGED <<messages, cached, openChat>>
      BY <1>0, <1>3, ReconnectDoes DEF Reconnect
    <2> QED BY <1>1, <2>1
  <1>4. ASSUME NEW t \in Pages, OpenChat(t) PROVE SeenInv'
    <2>1. /\ UNCHANGED <<messages, cached>>
          /\ \A e \in visit'.seen : /\ e.number > 0 /\ e.topic = openChat' /\ openChat' \in Chats
                                    /\ e \in messages \cup cached[openChat'].rows
      BY <1>0, <1>4, OpenChatDoes DEF OpenChat
    <2> QED BY <2>1 DEF SeenInv
  <1>5. ASSUME NEW t \in Chats, TakeQuery(t) PROVE SeenInv'
    <2>1. /\ query[t].at = "answered" /\ messages' = query[t].rows /\ openChat' = openChat
          /\ visit'.strayed <=> visit.strayed \/ t # openChat
          /\ visit'.overtaken <=> visit.overtaken \/ (query[t].overlapped /\ t = openChat)
          /\ \A e \in visit'.seen :
                 \/ e \in visit.seen
                 \/ e.number > 0 /\ e.topic = openChat /\ openChat \in Chats /\ e \in messages' \cup cached'[openChat].rows
      BY <1>0, <1>5, TakeQueryDoes DEF TakeQuery
    <2>2. \A e \in visit'.seen : e.number > 0 /\ e.topic = openChat' /\ openChat' \in Chats
      BY <1>0, <2>1 DEF SeenInv
    <2>3. ASSUME openChat' \in Chats, ~visit'.strayed, ~visit'.overtaken
          PROVE  \A e \in visit'.seen : Recent(openChat, e.number)' => e \in messages' \cup cached'[openChat'].rows
      <3>1. /\ t = openChat /\ Covers(query[t].rows, t)
            /\ \A e \in visit.seen : Recent(t, e.number) => e \in messages \cup cached[t].rows
        BY <1>0, <2>1, <2>3 DEF FreshInv, SeenInv
      <3>2. \A e \in visit.seen : Recent(t, e.number) => e \in messages'
        BY <1>0, <2>1, <3>1 DEF Covers, SeenInv
      <3>3. \A e \in visit.seen : Recent(openChat, e.number)' => Recent(t, e.number)
        BY <1>00, <2>1, <2>3, <3>1
      <3> QED BY <2>1, <3>2, <3>3
    <2> QED BY <2>2, <2>3 DEF SeenInv
  <1>6. ASSUME NEW f \in EventReads, TakeRead(f) PROVE SeenInv'
    <2> DEFINE t == reading[f].topic
    <2>1. /\ t \in Chats /\ reading[f].at = "answered" /\ reading[f].rows \subseteq messages'
          /\ UNCHANGED <<cached, openChat>>
          /\ visit'.strayed <=> visit.strayed \/ t # openChat
          /\ visit'.overtaken <=> visit.overtaken \/ (reading[f].overlapped /\ t = openChat)
          /\ \A e \in visit'.seen :
                 \/ e \in visit.seen
                 \/ e.number > 0 /\ e.topic = openChat /\ openChat \in Chats /\ e \in messages' \cup cached[openChat].rows
      BY <1>0, <1>6, TakeReadDoes DEF TakeRead, Put
    <2>2. \A e \in visit'.seen : e.number > 0 /\ e.topic = openChat' /\ openChat' \in Chats
      BY <1>0, <2>1 DEF SeenInv
    <2>3. ASSUME openChat' \in Chats, ~visit'.strayed, ~visit'.overtaken
          PROVE  \A e \in visit'.seen : Recent(openChat, e.number)' => e \in messages' \cup cached'[openChat'].rows
      <3>1. /\ t = openChat /\ Covers(reading[f].rows, t)
            /\ \A e \in visit.seen : Recent(t, e.number) => e \in messages \cup cached[t].rows
        BY <1>0, <2>1, <2>3 DEF FreshInv, SeenInv
      <3>2. \A e \in visit.seen : Recent(t, e.number) => e \in messages'
        BY <1>0, <2>1, <3>1 DEF Covers, SeenInv
      <3>3. \A e \in visit.seen : Recent(openChat, e.number)' => Recent(t, e.number)
        BY <1>00, <2>1, <2>3, <3>1
      <3> QED BY <2>1, <3>2, <3>3
    <2> QED BY <2>2, <2>3 DEF SeenInv
  <1>7. ASSUME NEW n \in MyTexts, SendText(n) PROVE SeenInv'
    <2>1. /\ visit'.seen = visit.seen /\ visit'.strayed = visit.strayed /\ visit'.overtaken = visit.overtaken
          /\ messages \subseteq messages' /\ UNCHANGED <<cached, openChat>>
      BY <1>0, <1>7, SendTextDoes DEF SendText
    <2> QED BY <1>1, <2>1
  <1>8. ASSUME NEW t \in Chats, \/ AnswerQuery(t) \/ QueryFails(t)
                                \/ \E n \in TheirTexts : OtherSends(n, t)
                                \/ \E n \in TextsWritten : \/ Number(t, n)
                                                           \/ \E f \in EventReads : NumberAndTell(t, n, f)
        PROVE SeenInv'
    BY <1>2, <1>8 DEF AnswerQuery, QueryFails, OtherSends, Number, NumberAndTell, Give
  <1>9. ASSUME NEW f \in EventReads, AnswerRead(f) \/ ReadFails(f) PROVE SeenInv'
    BY <1>2, <1>9 DEF AnswerRead, ReadFails
  <1>10. ASSUME NEW n \in MyTexts, ServerSaves(n) \/ Settle(n) PROVE SeenInv'
    BY <1>2, <1>10 DEF ServerSaves, Settle
  <1>11. CASE UNCHANGED screenVars
    BY <1>2, <1>11 DEF screenVars
  <1> QED BY <1>3, <1>4, <1>5, <1>6, <1>7, <1>8, <1>9, <1>10, <1>11 DEF ScreenNext, SendSucceeds, SendFails

LEMMA ReceiptKeeps == ScreenIInv /\ [ScreenNext]_screenVars => ReceiptInv'
  <1> SUFFICES ASSUME ScreenIInv, [ScreenNext]_screenVars PROVE ReceiptInv'
    OBVIOUS
  <1> DEFINE Calls == \A t \in Chats : query[t].at = "answered" =>
                          /\ query[t].rows = {} => receipt[t] = 0
                          /\ \E m \in 0 .. MaxTexts : UpTo(query[t].rows, m)
             Short == \A t \in Chats : receipt[t] <= Len(indexed[t])
  <1>0. ScreenTypes /\ ScreenTypes' /\ PlacesInv /\ RealInv /\ ReceiptInv /\ Grows
    BY ScreenTypesKeep, IndexGrows DEF ScreenIInv
  <1>1. Short' /\ Calls' /\ ReceiptIsOfRead' => ReceiptInv'
    BY DEF ReceiptInv, UpTo
  <1>2. ASSUME UNCHANGED receipt PROVE Short'
    <2> SUFFICES ASSUME NEW t \in Chats PROVE receipt[t] <= Len(indexed'[t])
      BY <1>2
    <2>1. receipt[t] <= Len(indexed[t]) /\ Len(indexed[t]) <= Len(indexed'[t])
      BY <1>0 DEF ReceiptInv, Grows
    <2>2. receipt[t] \in Nat /\ Len(indexed[t]) \in Nat /\ Len(indexed'[t]) \in Nat
      BY <1>0, MaxTextsIsNat DEF ScreenTypes
    <2> QED BY <2>1, <2>2
  <1>3. ASSUME NEW u \in Chats, Rests, query'[u].at = "answered", receipt'[u] = receipt[u]
        PROVE  /\ query'[u].rows = {} => receipt'[u] = 0
               /\ \E m \in 0 .. MaxTexts : UpTo(query'[u].rows, m)
    <2>1. query[u].at = "answered" /\ query'[u].rows = query[u].rows
      BY <1>3 DEF Rests
    <2> QED BY <1>0, <1>3, <2>1 DEF ReceiptInv
  <1>4. ASSUME UNCHANGED <<receipt, cached>> PROVE ReceiptIsOfRead'
    BY <1>0, <1>4 DEF ReceiptInv, ReceiptIsOfRead
  <1>5. UNCHANGED query => Rests
    BY DEF Rests
  <1> HIDE DEF Calls, Short
  <1>6. ASSUME UNCHANGED <<receipt, cached>>, Rests PROVE ReceiptInv'
    <2>1. Calls'
      <3> SUFFICES ASSUME NEW u \in Chats, query'[u].at = "answered"
                   PROVE  /\ query'[u].rows = {} => receipt'[u] = 0
                          /\ \E m \in 0 .. MaxTexts : UpTo(query'[u].rows, m)
        BY DEF Calls, UpTo
      <3> QED BY <1>3, <1>6
    <2> QED BY <1>1, <1>2, <1>4, <1>6, <2>1
  <1>7. CASE Reconnect
    <2>1. Rests
      BY <1>0, <1>7, ReconnectDoes
    <2> QED BY <1>6, <1>7, <2>1 DEF Reconnect
  <1>8. ASSUME NEW t \in Pages, OpenChat(t) PROVE ReceiptInv'
    <2>1. Rests
      BY <1>0, <1>8, OpenChatDoes
    <2> QED BY <1>6, <1>8, <2>1 DEF OpenChat
  <1>9. ASSUME NEW t \in Chats, AnswerQuery(t) PROVE ReceiptInv'
    <2>1. /\ query'[t].rows = GetConversationMessages(t) /\ \A u \in Chats \ {t} : query'[u] = query[u]
          /\ UNCHANGED <<receipt, cached>>
      BY <1>0, <1>9, AnswerQueryDoes DEF AnswerQuery
    <2>2. UpTo(query'[t].rows, Len(indexed[t])) /\ Len(indexed[t]) \in 0 .. MaxTexts
      BY <1>0, <2>1, ApiRows
    <2>3. query'[t].rows = {} => receipt'[t] = 0
      <3> SUFFICES ASSUME query'[t].rows = {} PROVE receipt[t] = 0
        BY <2>1
      <3>1. Len(indexed[t]) = 0
        BY <2>2, MaxTextsIsNat, LimitAssumption DEF UpTo
      <3> QED BY <1>0, <3>1, MaxTextsIsNat DEF ScreenTypes, ReceiptInv
    <2>4. Calls'
      <3> SUFFICES ASSUME NEW u \in Chats, query'[u].at = "answered"
                   PROVE  /\ query'[u].rows = {} => receipt'[u] = 0
                          /\ \E m \in 0 .. MaxTexts : UpTo(query'[u].rows, m)
        BY DEF Calls, UpTo
      <3>1. CASE u = t
        BY <2>2, <2>3, <3>1
      <3>2. CASE u # t
        BY <1>0, <2>1, <3>2 DEF ReceiptInv
      <3> QED BY <3>1, <3>2
    <2> QED BY <1>1, <1>2, <1>4, <2>1, <2>4
  <1>10. ASSUME NEW t \in Chats, TakeQuery(t) PROVE ReceiptInv'
    <2> DEFINE rows == query[t].rows
    <2>1. /\ query[t].at = "answered" /\ rows \in SUBSET Entry
          /\ cached'[t].rows = rows /\ \A u \in Chats \ {t} : cached'[u] = cached[u]
          /\ Rests /\ query'[t].at = "idle"
          /\ receipt' = IF rows = {} THEN receipt ELSE [receipt EXCEPT ![t] = Highest(rows)]
          /\ UNCHANGED indexed
      BY <1>0, <1>10, TakeQueryDoes DEF TakeQuery
    <2>2. PICK m \in 0 .. MaxTexts : UpTo(rows, m)
      BY <1>0, <2>1 DEF ReceiptInv
    <2>3. rows = {} => receipt[t] = 0 /\ m = 0
      BY <1>0, <2>1, <2>2, MaxTextsIsNat, LimitAssumption DEF ReceiptInv, UpTo
    <2>4. \A e \in rows : Real(e) /\ e.topic = t /\ e.number \in Nat
      BY <1>0, <2>1, MaxTextsIsNat DEF RealInv, Entry
    <2> HIDE DEF rows
    <2>5. receipt'[t] = m /\ \A u \in Chats \ {t} : receipt'[u] = receipt[u]
      <3>1. CASE rows = {}
        BY <2>1, <2>3, <3>1
      <3>2. CASE rows # {}
        BY <1>0, <2>1, <2>2, <3>2, HighestIs DEF ScreenTypes
      <3> QED BY <3>1, <3>2
    <2>6. m <= Len(indexed[t])
      <3>1. indexed[t] \in Seq(TextsWritten)
        BY <1>0 DEF ScreenTypes
      <3>2. CASE m = 0
        BY <3>1, <3>2
      <3>3. CASE m > 0
        <4>1. PICK e \in rows : e.number = m
          BY <2>2, <3>3, MaxTextsIsNat, LimitAssumption DEF UpTo
        <4>2. m \in DOMAIN indexed[t]
          BY <2>4, <3>3, <4>1 DEF Real
        <4> QED BY <3>1, <4>2
      <3> QED BY <3>2, <3>3, MaxTextsIsNat
    <2>7. Short'
      BY <1>0, <2>1, <2>5, <2>6 DEF Short, ReceiptInv
    <2>8. Calls'
      <3> SUFFICES ASSUME NEW u \in Chats, query'[u].at = "answered"
                   PROVE  /\ query'[u].rows = {} => receipt'[u] = 0
                          /\ \E n \in 0 .. MaxTexts : UpTo(query'[u].rows, n)
        BY DEF Calls, UpTo
      <3>1. u # t
        BY <2>1
      <3> QED BY <1>3, <2>1, <2>5, <3>1
    <2>9. ReceiptIsOfRead'
      <3>1. \A k \in 1 .. m : k + PageLimit > m => \E e \in cached'[t].rows : e.number = k
        BY <2>1, <2>2 DEF UpTo
      <3> QED BY <1>0, <2>1, <2>5, <3>1 DEF ReceiptInv, ReceiptIsOfRead
    <2> QED BY <1>1, <2>7, <2>8, <2>9
  <1>11. ASSUME NEW t \in Chats, QueryFails(t) PROVE ReceiptInv'
    <2>1. Rests
      BY <1>0, <1>11, EndDoes DEF QueryFails, ScreenTypes
    <2> QED BY <1>6, <1>11, <2>1 DEF QueryFails
  <1>12. ASSUME NEW f \in EventReads, TakeRead(f) PROVE ReceiptInv'
    <2>1. Rests
      BY <1>0, <1>12, TakeReadDoes
    <2> QED BY <1>6, <1>12, <2>1 DEF TakeRead, Put
  <1>13. ASSUME NEW f \in EventReads, AnswerRead(f) \/ ReadFails(f) PROVE ReceiptInv'
    BY <1>5, <1>6, <1>13 DEF AnswerRead, ReadFails
  <1>14. ASSUME NEW t \in Chats, \/ \E n \in TheirTexts : OtherSends(n, t)
                                 \/ \E n \in TextsWritten : \/ Number(t, n)
                                                            \/ \E f \in EventReads : NumberAndTell(t, n, f)
         PROVE ReceiptInv'
    BY <1>5, <1>6, <1>14 DEF OtherSends, Number, NumberAndTell, Give
  <1>15. ASSUME NEW n \in MyTexts, SendText(n) \/ ServerSaves(n) \/ Settle(n) PROVE ReceiptInv'
    BY <1>5, <1>6, <1>15 DEF SendText, ServerSaves, Settle
  <1>16. CASE UNCHANGED screenVars
    BY <1>5, <1>6, <1>16 DEF screenVars
  <1> QED BY <1>7, <1>8, <1>9, <1>10, <1>11, <1>12, <1>13, <1>14, <1>15, <1>16 DEF ScreenNext, SendSucceeds, SendFails

LEMMA ScreenKeeps == ScreenIInv /\ [ScreenNext]_screenVars => ScreenIInv'
  BY ScreenTypesKeep, PlacesKeep, RealKeeps, KeepKeeps, PlaceKeeps, FreshKeeps, SeenKeeps, ReceiptKeeps
     DEF ScreenIInv

\* The inductive invariant says what the page promises.
LEMMA ScreenIs == ScreenIInv => ChatScreenInv
  <1> SUFFICES ASSUME ScreenIInv PROVE ChatScreenInv
    OBVIOUS
  <1>0. ScreenTypes /\ RealInv /\ KeepInv /\ PlaceInv /\ SeenInv /\ ReceiptInv
    BY DEF ScreenIInv
  <1>1. ScreenTypeOK
    BY <1>0 DEF ScreenTypes, ScreenTypeOK, Kept, Call, Reading
  <1>2. ASSUME openChat \in Chats PROVE openChat # NoChat /\ messages \subseteq Display
    BY <1>2, NoChatAssumption DEF Display
  <1>3. OwnIsShown
    <2> SUFFICES ASSUME NEW n \in visit.sent \ visit.atRisk PROVE \E e \in Display : e.text = n
      BY DEF OwnIsShown
    <2>1. OwnEntry(n) \in messages /\ OwnEntry(n).text = n /\ OwnEntry(n).topic = openChat
      BY <1>0 DEF KeepInv, OwnEntry
    <2>2. openChat \in Chats
      BY <1>0, <2>1 DEF ScreenTypes, Entry
    <2> QED BY <1>2, <2>1, <2>2
  <1>4. ListIsOfChat
    <2> SUFFICES ASSUME visit.loaded, ~visit.strayed, NEW e \in Display PROVE e.topic = openChat
      BY DEF ListIsOfChat
    <2>1. e \in messages \/ e \in cached[openChat].rows
      BY DEF Display
    <2> QED BY <1>0, <2>1 DEF PlaceInv, RealInv
  <1>5. SeenStays
    <2> SUFFICES ASSUME ~visit.strayed, ~visit.overtaken, NEW e \in visit.seen, Recent(e.topic, e.number)
                 PROVE  \E d \in Display : SameId(d, e)
      BY DEF SeenStays
    <2>1. openChat \in Chats /\ e \in messages \cup cached[openChat].rows /\ e.number > 0
      BY <1>0 DEF SeenInv
    <2>2. ~e.own
      BY <1>0, <2>1 DEF RealInv, Real
    <2>3. SameId(e, e)
      BY <2>2 DEF SameId
    <2>4. CASE e \in messages
      BY <1>2, <2>1, <2>3, <2>4
    <2>5. CASE e \in cached[openChat].rows /\ \A m \in messages : ~SameId(e, m)
      <3>1. e \in Display
        BY <1>2, <2>1, <2>5 DEF Display
      <3> QED BY <2>3, <3>1
    <2>6. ASSUME NEW m \in messages, SameId(e, m) PROVE \E d \in Display : SameId(d, e)
      <3>1. SameId(m, e)
        BY <2>2, <2>6 DEF SameId
      <3> QED BY <1>2, <2>1, <3>1
    <2> QED BY <2>1, <2>4, <2>5, <2>6
  <1>6. ReceiptIsOfRead
    BY <1>0 DEF ReceiptInv
  <1> QED BY <1>1, <1>3, <1>4, <1>5, <1>6 DEF ChatScreenInv

--------------------------------------------------------------------------------
(* Index, page and form together *)

LEMMA MessagesInitial == MessagesInit => IndexIInv /\ ScreenIInv /\ FormIInv
  BY IndexStarts, ScreenInitial, FormInitial DEF MessagesInit

LEMMA MessagesKeep ==
    ASSUME IndexIInv, ScreenIInv, FormIInv, [MessagesNext]_<<vars, screenVars, pvars, part>>
    PROVE  IndexIInv' /\ ScreenIInv' /\ FormIInv'
  <1>1. [Next]_vars /\ [ScreenNext]_screenVars /\ [ProfileNext]_pvars
    BY DEF MessagesNext
  <1> QED BY <1>1, IndexKeeps, ScreenKeeps, FormKeeps

\* The index is true to the topic, the page keeps what was sent and seen, and its receipts
\* are for what it has had, and the form says what is so, for every number of messages,
\* fetches, saves and runs of the sync job that overlap.
THEOREM MessagesInvHolds == MessagesSpec => []MessagesInv
  <1>1. MessagesInit => IndexIInv /\ ScreenIInv /\ FormIInv
    BY MessagesInitial
  <1>2. IndexIInv /\ ScreenIInv /\ FormIInv /\ [MessagesNext]_<<vars, screenVars, pvars, part>>
        => IndexIInv' /\ ScreenIInv' /\ FormIInv'
    BY MessagesKeep
  <1>3. IndexIInv /\ ScreenIInv /\ FormIInv => MessagesInv
    BY IndexImplies, ScreenIs, FormIs DEF MessagesInv
  <1> QED BY <1>1, <1>2, <1>3, PTL DEF MessagesSpec

================================================================================
