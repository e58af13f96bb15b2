---- MODULE PaymentProofs ----
(***************************************************************************)
(* Proofs that the properties of PaymentRequests hold for every number of  *)
(* calls, requests and users.  When calls do not overlap and nothing       *)
(* fails, a request is paid at most once, and is the atomic object of      *)
(* RequestLifecycle.                                                       *)
(***************************************************************************)
EXTENDS PaymentRequests, TLAPS

OnRow == {"fulfill", "decline", "cancel", "get"}
Open  == {"pending", "expired", "cancelled"}      \* what a handler may load and rewrite

\* Which operation can be at which await.
OpInv ==
    \A c \in Calls :
        /\ pc[c] = "idle" => call[c] = NoCall
        /\ pc[c] \in {"submitRequest", "insert"} => call[c].op = "create"
        /\ pc[c] = "saveExpired" => call[c].op \in {"fulfill", "get"}
        /\ pc[c] \in {"saveClosed", "publish"} => call[c].op \in {"decline", "cancel"}
        /\ pc[c] \in {"transfer", "awaiting"} \cup AfterTransfer => call[c].op \in {"fulfill", "send"}
        /\ call[c].op \in OnRow \cup {"create"} => call[c].req \in Requests

\* The custody side of a call.
LinkInv ==
    \A c \in Calls :
        /\ pc[c] \in BeforeTransfer \cup {"idle"} => answer[c] = "idle"
        /\ pc[c] \in AfterTransfer => answer[c] = "hash"
        /\ answer[c] = "idle" => xfer[c] = "none"
        /\ answer[c] = "hash" => xfer[c] = "done"

\* A request has one create, and nobody else knows its id until the row is there.
FreshInv ==
    \A c \in Calls : pc[c] \in {"submitRequest", "insert"} =>
        /\ row[call[c].req].status = "absent"
        /\ \A d \in Calls : d # c => call[d].req # call[c].req

\* What is known of a loaded snapshot for as long as the handler holds it.
SnapInv ==
    \A c \in Calls : call[c].op \in OnRow =>
        /\ call[c].snap.status \in Open
        /\ call[c].snap.paidTx = NoTx
        /\ call[c].snap.requester = row[call[c].req].requester
        /\ row[call[c].req].status # "absent"
        /\ call[c].op = "fulfill" => call[c].user # row[call[c].req].requester

\* A row names a transaction exactly when it says paid.
RowInv ==
    \A r \in Requests :
        /\ row[r].status # "paid" => row[r].paidTx = NoTx
        /\ row[r].status = "paid" =>
              /\ row[r].paidTx \in Calls
              /\ call[row[r].paidTx].op = "fulfill"
              /\ call[row[r].paidTx].req = r
              /\ answer[row[r].paidTx] = "hash"

ReceiptInv == \A m \in hcs : m.kind \in {"payment", "paid"} => answer[m.by] = "hash"

TablesInv ==
    \A c \in Calls :
        /\ c \in indexed \/ c \in recorded => answer[c] = "hash"
        /\ pc[c] = "record" => c \in indexed
        /\ pc[c] = "returned" /\ call[c].op \in {"fulfill", "send"}
           => c \in indexed /\ c \in recorded

Closed(r) == row[r].status \notin {"absent", "pending"}

TopicInv == \A m \in hcs : m.kind \in {"paid", "declined", "cancelled"}
                          => m.req \in Requests /\ Closed(m.req)

\* What is about to be said on a topic is already in the table.
ClosingInv ==
    \A c \in Calls :
        pc[c] = "publish" \/ (pc[c] \in AfterTransfer /\ call[c].op = "fulfill")
        => Closed(call[c].req)

IInv == /\ TypeOK /\ OpInv /\ LinkInv /\ FreshInv /\ SnapInv /\ RowInv
        /\ ReceiptInv /\ TablesInv /\ TopicInv /\ ClosingInv

--------------------------------------------------------------------------------

\* With no overlap and no failures, on top of IInv: one call runs at a time; the
\* row it loaded is still there, but for the expiry job; and every transfer of a
\* fulfilment that is over completed and is the one its row names.
SerialInv ==
    /\ \A c, d \in Calls : pc[c] \in Running /\ pc[d] \in Running => c = d
    /\ \A c \in Calls :
          /\ answer[c] = "error" => xfer[c] \in {"none", "dead"}
          /\ pc[c] \in {"saveExpired", "saveClosed", "transfer", "awaiting"} /\ call[c].op \in OnRow
             => row[call[c].req].status \in Open
          /\ pc[c] \in {"returned", "threw"} => answer[c] # "waiting"
          /\ answer[c] = "hash" /\ pc[c] # "awaiting" /\ call[c].op = "fulfill"
             => row[call[c].req].status = "paid" /\ row[call[c].req].paidTx = c

--------------------------------------------------------------------------------

\* A handler's changes to the row it loaded give a row, with the other columns as they were.
LEMMA ChangedRow ==
    ASSUME NEW x \in Row, NEW s \in Statuses, NEW p \in Calls
    PROVE  /\ [x EXCEPT !.status = s] \in Row
           /\ [x EXCEPT !.status = s].status = s
           /\ [x EXCEPT !.status = s].paidTx = x.paidTx
           /\ [x EXCEPT !.status = s].requester = x.requester
           /\ [x EXCEPT !.status = s, !.paidTx = p] \in Row
           /\ [x EXCEPT !.status = s, !.paidTx = p].status = s
           /\ [x EXCEPT !.status = s, !.paidTx = p].paidTx = p
           /\ [x EXCEPT !.status = s, !.paidTx = p].requester = x.requester
  BY DEF Row

LEMMA SnapIsRow == ASSUME TypeOK, NEW c \in Calls PROVE call[c].snap \in Row
  BY DEF TypeOK, Call

\* The ways a call can begin, with what its guards have established.
Legal(op, u, r, l) ==
    \/ /\ op = "create" /\ r \in Requests /\ l \in {"submitRequest", "insert"}
       /\ row[r].status = "absent" /\ \A d \in Calls : call[d].req # r
    \/ /\ op = "fulfill" /\ r \in Requests /\ l \in {"saveExpired", "transfer"}
       /\ row[r].status \in Open /\ row[r].requester # u
    \/ /\ op \in {"decline", "cancel"} /\ r \in Requests /\ l = "saveClosed"
       /\ row[r].status \in Open
    \/ /\ op = "get" /\ r \in Requests /\ l = "saveExpired" /\ row[r].status \in Open
    \/ /\ op = "send" /\ r = NoRequest /\ l = "transfer"

\* Every beginning of a call is a Start, for one of these reasons.
LEMMA BeginStarts ==
    ASSUME TypeOK, NEW c \in Calls, Begin(c)
    PROVE  \E op \in Ops, u \in Users, r \in Requests \cup {NoRequest}, t \in BOOLEAN, l \in Pcs :
              Start(c, op, u, r, t, l) /\ Legal(op, u, r, l)
  <1> USE DEF Ops, Pcs, Running, BeforeTransfer, Legal, Open
  <1>1. PICK u \in Users :
           \/ \E t \in BOOLEAN : Send(c, u, t)
           \/ \E r \in Requests :
                 \/ \E t \in BOOLEAN : Create(c, u, r, t) \/ Fulfill(c, u, r, t)
                 \/ Decline(c, u, r) \/ Cancel(c, u, r) \/ Get(c, u, r)
    BY DEF Begin
  <1>2. CASE \E t \in BOOLEAN : Send(c, u, t)
    BY <1>2 DEF Send
  <1>3. ASSUME NEW r \in Requests, NEW t \in BOOLEAN, Create(c, u, r, t)
        PROVE  \E l \in Pcs : Start(c, "create", u, r, t, l) /\ Legal("create", u, r, l)
    <2>1. (IF t THEN "submitRequest" ELSE "insert") \in {"submitRequest", "insert"}
      OBVIOUS
    <2> QED BY <1>3, <2>1 DEF Create, Exists
  <1>4. ASSUME NEW r \in Requests, NEW t \in BOOLEAN, Fulfill(c, u, r, t)
        PROVE  \E l \in Pcs : Start(c, "fulfill", u, r, t, l) /\ Legal("fulfill", u, r, l)
    <2>1. (IF row[r].status = "expired" \/ past[r] THEN "saveExpired" ELSE "transfer")
             \in {"saveExpired", "transfer"}
      OBVIOUS
    <2>2. row[r].status \in Open
      BY <1>4 DEF Fulfill, Payable, TypeOK, Row, Statuses
    <2> QED BY <1>4, <2>1, <2>2 DEF Fulfill, NotRequester
  <1>5. ASSUME NEW r \in Requests, Decline(c, u, r) \/ Cancel(c, u, r) \/ Get(c, u, r)
        PROVE  \E op \in Ops, t \in BOOLEAN, l \in Pcs :
                  Start(c, op, u, r, t, l) /\ Legal(op, u, r, l)
    <2>1. row[r].topic \in BOOLEAN
      BY DEF TypeOK, Row
    <2> QED BY <1>5, <2>1 DEF Decline, Cancel, Get, Pending
  <1> QED BY <1>1, <1>2, <1>3, <1>4, <1>5

\* Type correctness is preserved by every step.
LEMMA TypeStep == TypeOK /\ [Next]_vars => TypeOK'
  <1> USE FaultsAssumption, ConcurrentAssumption, NullsAssumption
  <1> SUFFICES ASSUME TypeOK, [Next]_vars PROVE TypeOK'
    OBVIOUS
  <1> USE DEF TypeOK, CustodyTypeOK, Goto, SaveRow, Exists, XferStates, AnswerStates,
              Pcs, Running, BeforeTransfer, AfterTransfer, custodyVars
  <1>1. ASSUME NEW c \in Calls, Begin(c) PROVE TypeOK'
    <2>1. PICK op \in Ops, u \in Users, r \in Requests \cup {NoRequest}, t \in BOOLEAN,
               l \in Pcs : Start(c, op, u, r, t, l)
      BY <1>1, BeginStarts
    <2>2. (IF r = NoRequest THEN NoRow ELSE row[r]) \in Row
      BY NullsAssumption DEF NoRow, Row
    <2>3. [op |-> op, user |-> u, req |-> r, topic |-> t,
           snap |-> IF r = NoRequest THEN NoRow ELSE row[r]] \in Call
      BY <2>2 DEF Call
    <2> QED BY <2>1, <2>3 DEF Start
  <1>2. ASSUME NEW c \in Calls, Advance(c) PROVE TypeOK'
    <2>1. CASE SubmitRequest(c)
      <3>1. Msg("payment_request", c) \in Message
        BY DEF Msg, Message, Call
      <3> QED BY <2>1, <3>1 DEF SubmitRequest, Submitted, SubmitFails
    <2>2. CASE InsertRequest(c)
      <3>1. [status |-> "pending", paidTx |-> NoTx, requester |-> call[c].user,
             topic |-> call[c].topic] \in Row
        BY DEF Row, Call, Statuses
      <3> QED BY <2>2, <3>1 DEF InsertRequest
    <2>3. CASE SaveExpired(c)
      <3>1. [call[c].snap EXCEPT !.status = "expired"] \in Row
        BY SnapIsRow, ChangedRow DEF Statuses
      <3> QED BY <2>3, <3>1 DEF SaveExpired
    <2>4. CASE SaveClosed(c)
      <3>1. [call[c].snap EXCEPT !.status = ClosedStatus(c)] \in Row
        BY SnapIsRow, ChangedRow DEF Statuses, ClosedStatus
      <3> QED BY <2>4, <3>1 DEF SaveClosed
    <2>5. CASE PublishClosed(c)
      BY <2>5 DEF PublishClosed, PublishOrLog, ClosedStatus, Submitted, SubmitFails, Msg, Message, Call
    <2>6. CASE Transfer(c)
      BY <2>6 DEF Transfer, Submit, Refuse
    <2>7. CASE TransferFailed(c)
      BY <2>7 DEF TransferFailed
    <2>8. CASE Paid(c)
      <3>1. [call[c].snap EXCEPT !.status = "paid", !.paidTx = c] \in Row
        BY SnapIsRow, ChangedRow DEF Statuses
      <3> QED BY <2>8, <3>1 DEF Paid, Answered
    <2>9. CASE Receipt(c)
      BY <2>9 DEF Receipt, PublishOrLog, Submitted, SubmitFails, Msg, Message, Call
    <2>10. CASE IndexPayment(c)
      BY <2>10 DEF IndexPayment
    <2>11. CASE RecordTransaction(c)
      BY <2>11 DEF RecordTransaction
    <2> QED BY <1>2, <2>1, <2>2, <2>3, <2>4, <2>5, <2>6, <2>7, <2>8, <2>9, <2>10, <2>11 DEF Advance
  <1>3. ASSUME NEW c \in Calls, CustodyStep(c) PROVE TypeOK'
    BY <1>3 DEF CustodyStep, Accept, Settle, AnswerHash, AnswerError
  <1>4. ASSUME NEW c \in Calls, Abort(c) PROVE TypeOK'
    BY <1>4 DEF Abort
  <1>5. ASSUME NEW r \in Requests, ClockPasses(r) PROVE TypeOK'
    BY <1>5 DEF ClockPasses
  <1>6. CASE ExpirePendingRequests
    BY <1>6 DEF ExpirePendingRequests, Due, Pending, Row, Statuses
  <1>7. CASE UNCHANGED vars
    BY <1>7 DEF vars
  <1> QED BY <1>1, <1>2, <1>3, <1>4, <1>5, <1>6, <1>7 DEF Next

\* Every reachable state is well typed.
THEOREM TypeCorrect == Spec => []TypeOK
  <1>1. Init => TypeOK
    BY NullsAssumption DEF Init, TypeOK, CustodyInit, CustodyTypeOK, XferStates, AnswerStates, NoRow, Row,
       NoCall, Call, Statuses, Pcs, Running, BeforeTransfer, AfterTransfer
  <1> QED BY <1>1, TypeStep, PTL DEF Spec

\* A step keeps the row r for those who hold a snapshot of it.
Kept(r) == row[r].status # "absent" =>
              /\ row'[r].status # "absent"
              /\ row'[r].requester = row[r].requester
              /\ row[r].status # "pending" => row'[r].status # "pending"

\* Snapshots and messages stay in step with rows that are kept.
LEMMA KeptRows ==
    ASSUME IInv, \A r \in Requests : Kept(r), UNCHANGED <<call, hcs>>
    PROVE  SnapInv' /\ TopicInv'
  <1>1. SnapInv'
    BY DEF IInv, SnapInv, Kept, OnRow, OpInv
  <1>2. TopicInv'
    BY DEF IInv, TopicInv, Kept, Closed
  <1> QED BY <1>1, <1>2

\* repo.save() changes one row.
LEMMA SavedRow ==
    ASSUME TypeOK, NEW r \in Requests, NEW x \in Row, SaveRow(r, x), NEW s \in Requests
    PROVE  row'[s] = IF s = r THEN x ELSE row[s]
  BY DEF TypeOK, SaveRow

\* saveExpired, saveClosed and the save of a payment write a row like the one in
\* the table, with a new status.
LEMMA SnapSaved ==
    ASSUME IInv, NEW c \in Calls, call[c].op \in OnRow, NEW x \in Row,
           SaveRow(call[c].req, x), x.requester = call[c].snap.requester,
           x.status \notin {"absent", "pending"}
    PROVE  \A r \in Requests : Kept(r)
  <1> SUFFICES ASSUME NEW r \in Requests PROVE Kept(r)
    OBVIOUS
  <1>1. call[c].req \in Requests
    BY DEF IInv, OpInv
  <1>2. row'[r] = IF r = call[c].req THEN x ELSE row[r]
    BY <1>1, SavedRow DEF IInv
  <1>3. call[c].snap.requester = row[call[c].req].requester
    BY DEF IInv, SnapInv
  <1> QED BY <1>2, <1>3 DEF Kept

\* The creation's message says nothing of a payment.
LEMMA SubmitRequestKeepsIInv ==
    ASSUME IInv, TypeOK', NEW c \in Calls, SubmitRequest(c)
    PROVE  IInv'
  <1> USE DEF IInv, SubmitRequest, custodyVars, Goto, Submitted, SubmitFails, Msg, TypeOK, CustodyTypeOK, Call, Row, Closed, OnRow, Open, Running,
             BeforeTransfer, AfterTransfer, Pcs
  <1>1. OpInv' /\ LinkInv'
    BY DEF OpInv, LinkInv
  <1>2. FreshInv'
    BY DEF FreshInv
  <1>3. SnapInv' /\ RowInv'
    <2>1. SnapInv'
      BY DEF SnapInv
    <2>2. RowInv'
      BY DEF RowInv
    <2> QED BY <2>1, <2>2
  <1>4. ReceiptInv' /\ TablesInv'
    BY DEF ReceiptInv, TablesInv
  <1>5. TopicInv' /\ ClosingInv'
    BY DEF TopicInv, ClosingInv
  <1> QED BY <1>1, <1>2, <1>3, <1>4, <1>5

\* The row that appears was absent, so nobody held a snapshot of it.
LEMMA InsertRequestKeepsIInv ==
    ASSUME IInv, TypeOK', NEW c \in Calls, InsertRequest(c)
    PROVE  IInv'
  <1> USE DEF IInv, InsertRequest, custodyVars, Goto, SaveRow, TypeOK, CustodyTypeOK, Call, Row, Closed, OnRow, Open, Running,
             BeforeTransfer, AfterTransfer, Pcs
  <1>1. \A r \in Requests : Kept(r)
    BY SavedRow DEF OpInv, FreshInv, Kept
  <1>2. OpInv' /\ LinkInv'
    BY DEF OpInv, LinkInv
  <1>3. FreshInv'
    BY DEF FreshInv
  <1>4. SnapInv' /\ TopicInv'
    BY <1>1, KeptRows
  <1>5. RowInv'
    BY DEF RowInv
  <1>6. ReceiptInv'
    BY DEF ReceiptInv
  <1>7. TablesInv'
    <2> SUFFICES ASSUME NEW d \in Calls
                 PROVE  /\ d \in indexed' \/ d \in recorded' => answer'[d] = "hash"
                        /\ pc'[d] = "record" => d \in indexed'
                        /\ pc'[d] = "returned" /\ call'[d].op \in {"fulfill", "send"}
                           => d \in indexed' /\ d \in recorded'
      BY DEF TablesInv
    <2> QED BY DEF TablesInv, OpInv, LinkInv
  <1>8. ClosingInv'
    BY <1>1 DEF ClosingInv, Kept, OpInv, FreshInv
  <1> QED BY <1>2, <1>3, <1>4, <1>5, <1>6, <1>7, <1>8

\* What a decline or a cancellation says on the topic is already in the row.
LEMMA PublishClosedKeepsIInv ==
    ASSUME IInv, TypeOK', NEW c \in Calls, PublishClosed(c)
    PROVE  IInv'
  <1> USE DEF IInv, PublishClosed, custodyVars, Goto, PublishOrLog, ClosedStatus, Submitted, SubmitFails, Msg, TypeOK, CustodyTypeOK, Call, Row, Closed, OnRow, Open, Running,
             BeforeTransfer, AfterTransfer, Pcs
  <1>1. \E k \in {"declined", "cancelled"} :
          hcs' \in {hcs, hcs \cup {[kind |-> k, by |-> c, req |-> call[c].req]}}
    OBVIOUS
  <1>2. OpInv' /\ LinkInv'
    BY DEF OpInv, LinkInv
  <1>3. FreshInv'
    BY DEF FreshInv
  <1>4. SnapInv' /\ RowInv'
    <2>1. SnapInv'
      BY DEF SnapInv
    <2>2. RowInv'
      BY DEF RowInv
    <2> QED BY <2>1, <2>2
  <1>5. ReceiptInv'
    BY DEF ReceiptInv
  <1>6. TablesInv'
    <2> SUFFICES ASSUME NEW d \in Calls
                 PROVE  /\ d \in indexed' \/ d \in recorded' => answer'[d] = "hash"
                        /\ pc'[d] = "record" => d \in indexed'
                        /\ pc'[d] = "returned" /\ call'[d].op \in {"fulfill", "send"}
                           => d \in indexed' /\ d \in recorded'
      BY DEF TablesInv
    <2> QED BY DEF TablesInv, OpInv, LinkInv
  <1>7. TopicInv'
    BY <1>1 DEF TopicInv, ClosingInv, OpInv
  <1>8. ClosingInv'
    BY DEF ClosingInv
  <1> QED BY <1>2, <1>3, <1>4, <1>5, <1>6, <1>7, <1>8

\* Handing a payment to Tamam takes no answer away.
LEMMA TransferKeepsIInv ==
    ASSUME IInv, TypeOK', NEW c \in Calls, Transfer(c)
    PROVE  IInv'
  <1> USE DEF IInv, Transfer, custodyVars, Goto, Submit, Refuse, TypeOK, CustodyTypeOK, Call, Row, Closed, OnRow, Open, Running,
             BeforeTransfer, AfterTransfer, Pcs
  <1>1. OpInv' /\ LinkInv'
    BY DEF OpInv, LinkInv
  <1>2. FreshInv'
    BY DEF FreshInv
  <1>3. SnapInv' /\ RowInv'
    <2>1. SnapInv'
      BY DEF SnapInv
    <2>2. RowInv'
      BY DEF RowInv
    <2> QED BY <2>1, <2>2
  <1>4. ReceiptInv'
    BY DEF ReceiptInv, LinkInv, Message
  <1>5. TablesInv'
    BY DEF TablesInv
  <1>6. TopicInv' /\ ClosingInv'
    BY DEF TopicInv, ClosingInv
  <1> QED BY <1>1, <1>2, <1>3, <1>4, <1>5, <1>6

\* A failed transfer changes no data.
LEMMA TransferFailedKeepsIInv ==
    ASSUME IInv, TypeOK', NEW c \in Calls, TransferFailed(c)
    PROVE  IInv'
  <1> USE DEF IInv, TransferFailed, Answered, custodyVars, Goto, TypeOK, CustodyTypeOK, Call, Row, Closed, OnRow, Open, Running,
             BeforeTransfer, AfterTransfer, Pcs
  <1>1. OpInv' /\ LinkInv'
    BY DEF OpInv, LinkInv
  <1>2. FreshInv'
    BY DEF FreshInv
  <1>3. SnapInv' /\ RowInv'
    <2>1. SnapInv'
      BY DEF SnapInv
    <2>2. RowInv'
      BY DEF RowInv
    <2> QED BY <2>1, <2>2
  <1>4. ReceiptInv' /\ TablesInv'
    BY DEF ReceiptInv, TablesInv
  <1>5. TopicInv' /\ ClosingInv'
    BY DEF TopicInv, ClosingInv
  <1> QED BY <1>1, <1>2, <1>3, <1>4, <1>5

\* A receipt is published by a call that has its hash.
LEMMA ReceiptKeepsIInv ==
    ASSUME IInv, TypeOK', NEW c \in Calls, Receipt(c)
    PROVE  IInv'
  <1> USE DEF IInv, Receipt, custodyVars, Goto, PublishOrLog, Submitted, SubmitFails, Msg, TypeOK, CustodyTypeOK, Call, Row, Closed, OnRow, Open, Running,
             BeforeTransfer, AfterTransfer, Pcs
  <1>1. \E k \in {"paid", "payment"} :
          /\ hcs' \in {hcs, hcs \cup {[kind |-> k, by |-> c, req |-> call[c].req]}}
          /\ k = "paid" => call[c].op = "fulfill"
    OBVIOUS
  <1>2. OpInv' /\ LinkInv'
    BY DEF OpInv, LinkInv
  <1>3. FreshInv'
    BY DEF FreshInv
  <1>4. SnapInv' /\ RowInv'
    <2>1. SnapInv'
      BY DEF SnapInv
    <2>2. RowInv'
      BY DEF RowInv
    <2> QED BY <2>1, <2>2
  <1>5. ReceiptInv'
    BY <1>1 DEF ReceiptInv, LinkInv
  <1>6. TablesInv'
    BY DEF TablesInv
  <1>7. TopicInv'
    BY <1>1 DEF TopicInv, ClosingInv, OpInv
  <1>8. ClosingInv'
    BY DEF ClosingInv
  <1> QED BY <1>2, <1>3, <1>4, <1>5, <1>6, <1>7, <1>8

\* The payment that enters payment_index has its hash.
LEMMA IndexPaymentKeepsIInv ==
    ASSUME IInv, TypeOK', NEW c \in Calls, IndexPayment(c)
    PROVE  IInv'
  <1> USE DEF IInv, IndexPayment, custodyVars, Goto, TypeOK, CustodyTypeOK, Call, Row, Closed, OnRow, Open, Running,
             BeforeTransfer, AfterTransfer, Pcs
  <1>1. OpInv' /\ LinkInv'
    BY DEF OpInv, LinkInv
  <1>2. FreshInv'
    BY DEF FreshInv
  <1>3. SnapInv' /\ RowInv'
    <2>1. SnapInv'
      BY DEF SnapInv
    <2>2. RowInv'
      BY DEF RowInv
    <2> QED BY <2>1, <2>2
  <1>4. ReceiptInv'
    BY DEF ReceiptInv
  <1>5. TablesInv'
    <2> SUFFICES ASSUME NEW d \in Calls
                 PROVE  /\ d \in indexed' \/ d \in recorded' => answer'[d] = "hash"
                        /\ pc'[d] = "record" => d \in indexed'
                        /\ pc'[d] = "returned" /\ call'[d].op \in {"fulfill", "send"}
                           => d \in indexed' /\ d \in recorded'
      BY DEF TablesInv
    <2> QED BY DEF TablesInv, OpInv, LinkInv
  <1>6. TopicInv' /\ ClosingInv'
    BY DEF TopicInv, ClosingInv
  <1> QED BY <1>1, <1>2, <1>3, <1>4, <1>5, <1>6

\* The payment that enters transactions is already in payment_index.
LEMMA RecordTransactionKeepsIInv ==
    ASSUME IInv, TypeOK', NEW c \in Calls, RecordTransaction(c)
    PROVE  IInv'
  <1> USE DEF IInv, RecordTransaction, custodyVars, Goto, TypeOK, CustodyTypeOK, Call, Row, Closed, OnRow, Open, Running,
             BeforeTransfer, AfterTransfer, Pcs
  <1>1. OpInv' /\ LinkInv'
    BY DEF OpInv, LinkInv
  <1>2. FreshInv'
    BY DEF FreshInv
  <1>3. SnapInv' /\ RowInv'
    <2>1. SnapInv'
      BY DEF SnapInv
    <2>2. RowInv'
      BY DEF RowInv
    <2> QED BY <2>1, <2>2
  <1>4. ReceiptInv' /\ TablesInv'
    BY DEF ReceiptInv, TablesInv
  <1>5. TopicInv' /\ ClosingInv'
    BY DEF TopicInv, ClosingInv
  <1> QED BY <1>1, <1>2, <1>3, <1>4, <1>5

\* Tamam and its client never take a hash back.
LEMMA CustodyKeepsIInv ==
    ASSUME IInv, TypeOK', NEW c \in Calls, CustodyStep(c)
    PROVE  IInv'
  <1> USE DEF IInv, CustodyStep, custodyVars, Accept, Settle, AnswerHash, AnswerError, TypeOK, CustodyTypeOK, Call, Row, Closed, OnRow, Open, Running,
             BeforeTransfer, AfterTransfer, Pcs
  <1>1. \A d \in Calls : answer[d] = "hash" => answer'[d] = "hash"
    OBVIOUS
  <1>2. OpInv' /\ LinkInv'
    BY DEF OpInv, LinkInv
  <1>3. FreshInv'
    BY DEF FreshInv
  <1>4. SnapInv' /\ RowInv'
    <2>1. SnapInv'
      BY DEF SnapInv
    <2>2. RowInv'
      BY DEF RowInv
    <2> QED BY <2>1, <2>2
  <1>5. ReceiptInv'
    BY <1>1 DEF ReceiptInv, Message
  <1>6. TablesInv'
    BY DEF TablesInv
  <1>7. TopicInv' /\ ClosingInv'
    BY DEF TopicInv, ClosingInv
  <1> QED BY <1>2, <1>3, <1>4, <1>5, <1>6, <1>7

\* A handler that throws, or dies, changes no data.
LEMMA AbortKeepsIInv ==
    ASSUME IInv, TypeOK', NEW c \in Calls, Abort(c)
    PROVE  IInv'
  <1> USE DEF IInv, Abort, custodyVars, Goto, TypeOK, CustodyTypeOK, Call, Row, Closed, OnRow, Open, Running,
             BeforeTransfer, AfterTransfer, Pcs
  <1>1. OpInv' /\ LinkInv'
    BY DEF OpInv, LinkInv
  <1>2. FreshInv'
    BY DEF FreshInv
  <1>3. SnapInv' /\ RowInv'
    <2>1. SnapInv'
      BY DEF SnapInv
    <2>2. RowInv'
      BY DEF RowInv
    <2> QED BY <2>1, <2>2
  <1>4. ReceiptInv' /\ TablesInv'
    BY DEF ReceiptInv, TablesInv
  <1>5. TopicInv' /\ ClosingInv'
    BY DEF TopicInv, ClosingInv
  <1> QED BY <1>1, <1>2, <1>3, <1>4, <1>5

\* The clock changes no data.
LEMMA ClockPassesKeepsIInv ==
    ASSUME IInv, TypeOK', NEW r \in Requests, ClockPasses(r)
    PROVE  IInv'
  <1> USE DEF IInv, ClockPasses, custodyVars, TypeOK, CustodyTypeOK, Call, Row, Closed, OnRow, Open, Running,
             BeforeTransfer, AfterTransfer, Pcs
  <1>1. OpInv' /\ LinkInv'
    BY DEF OpInv, LinkInv
  <1>2. FreshInv'
    BY DEF FreshInv
  <1>3. SnapInv' /\ RowInv'
    <2>1. SnapInv'
      BY DEF SnapInv
    <2>2. RowInv'
      BY DEF RowInv
    <2> QED BY <2>1, <2>2
  <1>4. ReceiptInv' /\ TablesInv'
    BY DEF ReceiptInv, TablesInv
  <1>5. TopicInv' /\ ClosingInv'
    BY DEF TopicInv, ClosingInv
  <1> QED BY <1>1, <1>2, <1>3, <1>4, <1>5

\* An expired row names no transaction, whatever was there before.
LEMMA SaveExpiredKeepsIInv ==
    ASSUME IInv, TypeOK', NEW c \in Calls, SaveExpired(c)
    PROVE  IInv'
  <1> DEFINE x == [call[c].snap EXCEPT !.status = "expired"]
  <1> USE DEF IInv
  <1>1. /\ call[c].op \in OnRow /\ call[c].req \in Requests
        /\ UNCHANGED <<call, hcs, answer, xfer, indexed, recorded>> /\ SaveRow(call[c].req, x)
    BY DEF SaveExpired, OpInv, OnRow, custodyVars
  <1>2. /\ x \in Row /\ x.requester = call[c].snap.requester
        /\ x.status \notin {"absent", "pending"} /\ x.status # "paid" /\ x.paidTx = NoTx
    <2>1. call[c].snap \in Row
      BY SnapIsRow
    <2>2. call[c].snap.paidTx = NoTx
      BY <1>1 DEF SnapInv
    <2>3. "expired" \in Statuses
      BY DEF Statuses
    <2>4. x \in Row /\ x.status = "expired" /\ x.paidTx = call[c].snap.paidTx /\ x.requester = call[c].snap.requester
      BY <2>1, <2>3, ChangedRow
    <2> QED BY <2>2, <2>4
  <1> HIDE DEF x
  <1>3. \A r \in Requests : Kept(r)
    BY <1>1, <1>2, SnapSaved
  <1>4. SnapInv' /\ TopicInv'
    BY <1>1, <1>3, KeptRows
  <1>5. RowInv'
    BY <1>1, <1>2, SavedRow DEF RowInv
  <1> USE DEF SaveExpired, Goto, TypeOK, CustodyTypeOK, Call, OnRow, Pcs, Running,
             BeforeTransfer, AfterTransfer
  <1>6. OpInv' /\ LinkInv'
    BY <1>1 DEF OpInv, LinkInv
  <1>7. FreshInv'
    BY <1>1, SavedRow, <1>2 DEF FreshInv, OpInv
  <1>8. ReceiptInv' /\ TablesInv'
    BY <1>1 DEF ReceiptInv, TablesInv, OpInv
  <1>9. ClosingInv'
    BY <1>1, <1>2, <1>3, SavedRow DEF ClosingInv, Closed, Kept, OpInv
  <1> QED BY <1>4, <1>5, <1>6, <1>7, <1>8, <1>9

\* A declined or cancelled row names no transaction.
LEMMA SaveClosedKeepsIInv ==
    ASSUME IInv, TypeOK', NEW c \in Calls, SaveClosed(c)
    PROVE  IInv'
  <1> DEFINE x == [call[c].snap EXCEPT !.status = ClosedStatus(c)]
  <1> USE DEF IInv
  <1>1. /\ call[c].op \in OnRow /\ call[c].req \in Requests
        /\ UNCHANGED <<call, hcs, answer, xfer, indexed, recorded>> /\ SaveRow(call[c].req, x)
    BY DEF SaveClosed, OpInv, OnRow, custodyVars
  <1>2. /\ x \in Row /\ x.requester = call[c].snap.requester
        /\ x.status \notin {"absent", "pending"} /\ x.status # "paid" /\ x.paidTx = NoTx
    <2>1. call[c].snap \in Row
      BY SnapIsRow
    <2>2. call[c].snap.paidTx = NoTx
      BY <1>1 DEF SnapInv
    <2>3. ClosedStatus(c) \in Statuses \ {"absent", "pending", "paid"}
      BY DEF ClosedStatus, Statuses
    <2> QED BY <2>1, <2>2, <2>3, ChangedRow
  <1> HIDE DEF x
  <1>3. \A r \in Requests : Kept(r)
    BY <1>1, <1>2, SnapSaved
  <1>4. SnapInv' /\ TopicInv'
    BY <1>1, <1>3, KeptRows
  <1>5. RowInv'
    BY <1>1, <1>2, SavedRow DEF RowInv
  <1> USE DEF SaveClosed, Goto, TypeOK, CustodyTypeOK, Call, OnRow, Pcs, Running,
             BeforeTransfer, AfterTransfer
  <1>6. OpInv' /\ LinkInv'
    BY <1>1 DEF OpInv, LinkInv
  <1>7. FreshInv'
    BY <1>1, SavedRow, <1>2 DEF FreshInv, OpInv
  <1>8. ReceiptInv' /\ TablesInv'
    BY <1>1 DEF ReceiptInv, TablesInv, OpInv
  <1>9. ClosingInv'
    BY <1>1, <1>2, <1>3, SavedRow DEF ClosingInv, Closed, Kept, OpInv
  <1> QED BY <1>4, <1>5, <1>6, <1>7, <1>8, <1>9

\* The row that a fulfilment saves as paid names its own transfer, which has its hash.
LEMMA PaidRowKeepsIInv ==
    ASSUME IInv, TypeOK', NEW c \in Calls, Paid(c), call[c].op = "fulfill"
    PROVE  IInv'
  <1> DEFINE x == [call[c].snap EXCEPT !.status = "paid", !.paidTx = c]
  <1> USE DEF IInv
  <1>1. /\ call[c].op \in OnRow /\ call[c].req \in Requests
        /\ UNCHANGED <<call, hcs, answer, xfer, indexed, recorded>> /\ SaveRow(call[c].req, x)
    BY DEF Paid, Answered, OpInv, OnRow, custodyVars
  <1>2. /\ x \in Row /\ x.requester = call[c].snap.requester
        /\ x.status \notin {"absent", "pending"} /\ x.status = "paid" /\ x.paidTx = c
    <2>1. call[c].snap \in Row
      BY SnapIsRow
    <2> QED BY <2>1 DEF Row, Statuses
  <1> HIDE DEF x
  <1>3. \A r \in Requests : Kept(r)
    BY <1>1, <1>2, SnapSaved
  <1>4. SnapInv' /\ TopicInv'
    BY <1>1, <1>3, KeptRows
  <1>5. RowInv'
    BY <1>1, <1>2, SavedRow DEF RowInv, Paid, Answered, TypeOK
  <1> USE DEF Paid, Answered, Goto, TypeOK, CustodyTypeOK, Call, OnRow, Pcs, Running,
             BeforeTransfer, AfterTransfer
  <1>6. OpInv' /\ LinkInv'
    BY <1>1 DEF OpInv, LinkInv
  <1>7. FreshInv'
    BY <1>1, SavedRow, <1>2 DEF FreshInv, OpInv
  <1>8. ReceiptInv' /\ TablesInv'
    BY <1>1 DEF ReceiptInv, TablesInv, OpInv
  <1>9. ClosingInv'
    BY <1>1, <1>2, <1>3, SavedRow DEF ClosingInv, Closed, Kept, OpInv
  <1> QED BY <1>4, <1>5, <1>6, <1>7, <1>8, <1>9

\* sendPayment has no row to save.
LEMMA PaidSendKeepsIInv ==
    ASSUME IInv, TypeOK', NEW c \in Calls, Paid(c), call[c].op # "fulfill"
    PROVE  IInv'
  <1> USE DEF IInv, Paid, Answered, custodyVars, Goto, TypeOK, CustodyTypeOK, Call, Row, Closed, OnRow, Open, Running,
             BeforeTransfer, AfterTransfer, Pcs
  <1>1. OpInv' /\ LinkInv'
    BY DEF OpInv, LinkInv
  <1>2. FreshInv'
    BY DEF FreshInv
  <1>3. SnapInv' /\ RowInv'
    <2>1. SnapInv'
      BY DEF SnapInv
    <2>2. RowInv'
      BY DEF RowInv
    <2> QED BY <2>1, <2>2
  <1>4. ReceiptInv' /\ TablesInv'
    BY DEF ReceiptInv, TablesInv
  <1>5. TopicInv' /\ ClosingInv'
    BY DEF TopicInv, ClosingInv
  <1> QED BY <1>1, <1>2, <1>3, <1>4, <1>5

\* The job turns pending rows to expired and leaves the others alone.
LEMMA ExpireKeepsIInv ==
    ASSUME IInv, TypeOK', ExpirePendingRequests
    PROVE  IInv'
  <1> USE DEF IInv
  <1>1. \A r \in Requests : /\ Kept(r)
                            /\ row'[r] # row[r] => row'[r].status = "expired" /\ row[r].status = "pending"
                            /\ row'[r].paidTx = row[r].paidTx
    <2> SUFFICES ASSUME NEW r \in Requests
                 PROVE  /\ Kept(r)
                        /\ row'[r] # row[r] => row'[r].status = "expired" /\ row[r].status = "pending"
                        /\ row'[r].paidTx = row[r].paidTx
      OBVIOUS
    <2>1. /\ row'[r] \in {row[r], [row[r] EXCEPT !.status = "expired"]} /\ row[r] \in Row
          /\ row'[r] # row[r] => row[r].status = "pending"
      BY DEF ExpirePendingRequests, Due, Pending, TypeOK
    <2> QED BY <2>1 DEF Kept, Row
  <1>2. UNCHANGED <<call, pc, hcs, answer, xfer, indexed, recorded>>
    BY DEF ExpirePendingRequests, Due, Pending, custodyVars
  <1>3. SnapInv' /\ TopicInv'
    BY <1>1, <1>2, KeptRows
  <1>4. OpInv' /\ LinkInv' /\ ReceiptInv' /\ TablesInv'
    BY <1>2 DEF OpInv, LinkInv, ReceiptInv, TablesInv
  <1>5. FreshInv'
    BY <1>1, <1>2 DEF FreshInv, OpInv
  <1>6. RowInv'
    BY <1>1, <1>2 DEF RowInv
  <1>7. ClosingInv'
    BY <1>1, <1>2 DEF ClosingInv, Closed, Kept, OpInv, OnRow
  <1> QED BY <1>3, <1>4, <1>5, <1>6, <1>7

\* A call that begins changes nothing but itself, and starts from what its guards allow.
LEMMA BeginKeepsIInv ==
    ASSUME IInv, TypeOK', NEW c \in Calls, Begin(c)
    PROVE  IInv'
  <1> USE DEF IInv
  <1>1. PICK op \in Ops, u \in Users, r \in Requests \cup {NoRequest}, t \in BOOLEAN, l \in Pcs :
           Start(c, op, u, r, t, l) /\ Legal(op, u, r, l)
    BY BeginStarts
  <1>2. /\ pc[c] = "idle" /\ answer[c] = "idle" /\ call[c] = NoCall
        /\ UNCHANGED <<row, hcs, indexed, recorded, answer, xfer>>
        /\ \A d \in Calls \ {c} : call'[d] = call[d] /\ pc'[d] = pc[d]
        /\ pc'[c] = l /\ call'[c].op = op /\ call'[c].user = u /\ call'[c].req = r
        /\ r \in Requests => call'[c].snap = row[r]
    BY <1>1, NullsAssumption DEF Start, Goto, OpInv, LinkInv, TypeOK, custodyVars
  <1> USE NullsAssumption DEF Legal, OnRow, Open, Running, BeforeTransfer, AfterTransfer
  <1>3. OpInv'
    BY <1>1, <1>2 DEF OpInv
  <1>4. LinkInv'
    BY <1>1, <1>2 DEF LinkInv
  <1>5. FreshInv'
    BY <1>1, <1>2 DEF FreshInv, OpInv
  <1>6. RowInv'
    BY <1>2 DEF RowInv
  <1>7. SnapInv'
    <2> SUFFICES ASSUME NEW d \in Calls, call'[d].op \in OnRow
                 PROVE  /\ call'[d].snap.status \in Open
                        /\ call'[d].snap.paidTx = NoTx
                        /\ call'[d].snap.requester = row[call'[d].req].requester
                        /\ row[call'[d].req].status # "absent"
                        /\ call'[d].op = "fulfill" => call'[d].user # row[call'[d].req].requester
      BY <1>2 DEF SnapInv
    <2>1. CASE d # c
      BY <2>1, <1>2 DEF SnapInv
    <2>2. CASE d = c
      <3>1. r \in Requests /\ row[r].status \in Open /\ (op = "fulfill" => row[r].requester # u)
        BY <1>1, <1>2, <2>2
      <3> QED BY <1>2, <2>2, <3>1 DEF RowInv
    <2> QED BY <2>1, <2>2
  <1>8. ReceiptInv' /\ TablesInv'
    BY <1>1, <1>2 DEF ReceiptInv, TablesInv
  <1>9. TopicInv' /\ ClosingInv'
    BY <1>1, <1>2 DEF TopicInv, ClosingInv, Closed
  <1> QED BY <1>3, <1>4, <1>5, <1>6, <1>7, <1>8, <1>9

\* Every step keeps the inductive invariant.
LEMMA IInvStep == IInv /\ [Next]_vars => IInv'
  <1> SUFFICES ASSUME IInv, [Next]_vars PROVE IInv'
    OBVIOUS
  <1>0. TypeOK'
    BY TypeStep DEF IInv
  <1>1. ASSUME NEW c \in Calls, Begin(c) PROVE IInv'
    BY <1>0, <1>1, BeginKeepsIInv
  <1>2. ASSUME NEW c \in Calls, Advance(c) PROVE IInv'
    BY <1>0, <1>2, SubmitRequestKeepsIInv, InsertRequestKeepsIInv, SaveExpiredKeepsIInv,
       SaveClosedKeepsIInv, PublishClosedKeepsIInv, TransferKeepsIInv, TransferFailedKeepsIInv,
       PaidRowKeepsIInv, PaidSendKeepsIInv, ReceiptKeepsIInv, IndexPaymentKeepsIInv,
       RecordTransactionKeepsIInv DEF Advance
  <1>3. ASSUME NEW c \in Calls, CustodyStep(c) PROVE IInv'
    BY <1>0, <1>3, CustodyKeepsIInv
  <1>4. ASSUME NEW c \in Calls, Abort(c) PROVE IInv'
    BY <1>0, <1>4, AbortKeepsIInv
  <1>5. ASSUME NEW r \in Requests, ClockPasses(r) PROVE IInv'
    BY <1>0, <1>5, ClockPassesKeepsIInv
  <1>6. CASE ExpirePendingRequests
    BY <1>0, <1>6, ExpireKeepsIInv
  <1>7. CASE UNCHANGED vars
    BY <1>0, <1>7 DEF vars, custodyVars, IInv, OpInv, LinkInv, FreshInv, SnapInv, RowInv,
       ReceiptInv, TablesInv, TopicInv, ClosingInv, Closed
  <1> QED BY <1>1, <1>2, <1>3, <1>4, <1>5, <1>6, <1>7 DEF Next

\* The system starts in the inductive invariant.
LEMMA IInvInit == Init => IInv
  <1> SUFFICES ASSUME Init PROVE IInv
    OBVIOUS
  <1>1. TypeOK
    BY NullsAssumption DEF Init, TypeOK, CustodyInit, CustodyTypeOK, XferStates, AnswerStates, NoRow, Row,
       NoCall, Call, Statuses, Pcs, Running, BeforeTransfer, AfterTransfer
  <1> QED BY <1>1 DEF Init, CustodyInit, NoRow, NoCall, OnRow, BeforeTransfer, AfterTransfer, IInv,
          OpInv, LinkInv, FreshInv, SnapInv, RowInv, ReceiptInv, TablesInv, TopicInv, ClosingInv

\* The inductive invariant holds of every reachable state.
THEOREM Inductive == Spec => []IInv
  BY IInvInit, IInvStep, PTL DEF Spec

\* A request shown as paid was paid, by somebody else than its requester.
THEOREM PaidIsBackedHolds == Spec => []PaidIsBacked
  <1>1. IInv => PaidIsBacked
    <2> SUFFICES ASSUME IInv, NEW r \in Requests
                 PROVE  /\ row[r].status = "paid" => Charges(r) # {}
                        /\ row[r].paidTx # NoTx => row[r].paidTx \in Charges(r)
                        /\ \A c \in Charges(r) : call[c].user # row[r].requester
      BY DEF PaidIsBacked
    <2>1. row[r].status = "paid" => row[r].paidTx \in Charges(r)
      BY DEF IInv, RowInv, LinkInv, Charges
    <2>2. row[r].paidTx # NoTx => row[r].status = "paid"
      BY DEF IInv, RowInv
    <2>3. \A c \in Charges(r) : call[c].user # row[r].requester
      BY DEF IInv, SnapInv, OnRow, Charges
    <2> QED BY <2>1, <2>2, <2>3
  <1> QED BY <1>1, Inductive, PTL

\* Receipts, payment_index and transactions show only transfers that completed.
THEOREM BooksMatchTransfersHolds == Spec => []BooksMatchTransfers
  <1>1. IInv => BooksMatchTransfers
    BY DEF IInv, ReceiptInv, TablesInv, LinkInv, TypeOK, Message, BooksMatchTransfers
  <1> QED BY <1>1, Inductive, PTL

\* A topic announces the end of a request only after the table has it.
THEOREM TopicNeverAheadHolds == Spec => []TopicNeverAhead
  <1>1. IInv => TopicNeverAhead
    BY DEF IInv, TopicInv, Closed, TopicNeverAhead
  <1> QED BY <1>1, Inductive, PTL

\* Both, as the runs check them.
THEOREM RecordsAreTrueHolds == Spec => []RecordsAreTrue
  BY BooksMatchTransfersHolds, TopicNeverAheadHolds, PTL DEF RecordsAreTrue

\* What a step can do to a row: keep it; or write it from a snapshot that did not
\* say paid; or expire it while pending; or create it.
LEMMA RowSteps ==
    ASSUME IInv, Next, NEW r \in Requests, row'[r] # row[r]
    PROVE  \/ row[r].status \in {"absent", "pending"}
           \/ /\ row'[r].status \notin {"absent", "pending"}
              /\ \E c \in Calls : /\ pc[c] \in Running /\ pc'[c] # pc[c]
                                  /\ call[c].req = r /\ call[c].snap.status \in Open
  <1> USE DEF IInv
  <1>1. ASSUME NEW c \in Calls, call[c].op \in OnRow, NEW x \in Row, SaveRow(call[c].req, x),
               x.status \notin {"absent", "pending"}, pc[c] \in Running, pc'[c] # pc[c]
        PROVE  /\ row'[r].status \notin {"absent", "pending"}
               /\ \E d \in Calls : /\ pc[d] \in Running /\ pc'[d] # pc[d]
                                   /\ call[d].req = r /\ call[d].snap.status \in Open
    <2>1. call[c].req \in Requests /\ call[c].snap.status \in Open
      BY <1>1 DEF OpInv, SnapInv
    <2>2. call[c].req = r /\ row'[r] = x
      BY <1>1, <2>1, SavedRow
    <2> QED BY <1>1, <2>1, <2>2
  <1>2. ASSUME NEW c \in Calls, SaveExpired(c) \/ SaveClosed(c) \/ Paid(c)
        PROVE  /\ row'[r].status \notin {"absent", "pending"}
               /\ \E d \in Calls : /\ pc[d] \in Running /\ pc'[d] # pc[d]
                                   /\ call[d].req = r /\ call[d].snap.status \in Open
    <2>1. PICK s \in Statuses \ {"pending"}, p \in {FALSE, TRUE} :
             SaveRow(call[c].req, IF p THEN [call[c].snap EXCEPT !.status = s, !.paidTx = c]
                                       ELSE [call[c].snap EXCEPT !.status = s])
      <3>1. CASE SaveExpired(c)
        BY <3>1 DEF SaveExpired, Statuses
      <3>2. CASE SaveClosed(c)
        BY <3>2 DEF SaveClosed, ClosedStatus, Statuses
      <3>3. CASE Paid(c)
        BY <3>3 DEF Paid, Answered, Statuses
      <3> QED BY <1>2, <3>1, <3>2, <3>3
    <2>2. call[c].op \in OnRow /\ pc[c] \in Running /\ pc'[c] # pc[c]
      BY <1>2 DEF SaveExpired, SaveClosed, Paid, Answered, Goto, OpInv, OnRow, TypeOK, Pcs, Running,
                  BeforeTransfer, AfterTransfer
    <2>3. call[c].snap \in Row
      BY SnapIsRow
    <2> DEFINE x == IF p THEN [call[c].snap EXCEPT !.status = s, !.paidTx = c]
                         ELSE [call[c].snap EXCEPT !.status = s]
    <2>4. x \in Row /\ x.status = s
      BY <2>3 DEF Row, Statuses
    <2>5. SaveRow(call[c].req, x)
      BY <2>1
    <2>6. s \notin {"absent", "pending"}
      BY DEF Statuses
    <2> HIDE DEF x
    <2> QED BY <1>1, <2>2, <2>4, <2>5, <2>6
  <1>3. ASSUME NEW c \in Calls, InsertRequest(c) PROVE row[r].status = "absent"
    BY <1>3 DEF InsertRequest, SaveRow, TypeOK, FreshInv
  <1>4. CASE ExpirePendingRequests
    BY <1>4 DEF ExpirePendingRequests, Due, Pending
  <1>5. ASSUME NEW c \in Calls, Begin(c) \/ CustodyStep(c) \/ Abort(c) PROVE FALSE
    <2>1. CASE Begin(c)
      BY <2>1, BeginStarts DEF Start
    <2> QED BY <1>5, <2>1 DEF CustodyStep, Abort
  <1>6. ASSUME NEW q \in Requests, ClockPasses(q) PROVE FALSE
    BY <1>6 DEF ClockPasses
  <1>7. ASSUME NEW c \in Calls, SubmitRequest(c) \/ PublishClosed(c) \/ Transfer(c) \/ TransferFailed(c)
                              \/ Receipt(c) \/ IndexPayment(c) \/ RecordTransaction(c)
        PROVE  FALSE
    BY <1>7 DEF SubmitRequest, PublishClosed, Transfer, TransferFailed, Answered, Receipt, IndexPayment,
                RecordTransaction
  <1> HIDE DEF IInv
  <1> QED BY <1>2, <1>3, <1>4, <1>5, <1>6, <1>7 DEF Next, Advance

\* No save, however stale, puts a closed request back to pending.
THEOREM NeverReopenedHolds == Spec => NeverReopened
  <1>1. IInv /\ [Next]_vars =>
           [\A r \in Requests : row[r].status \notin {"absent", "pending"}
                                => row'[r].status \notin {"absent", "pending"}]_vars
    <2> SUFFICES ASSUME IInv, Next, NEW r \in Requests, row[r].status \notin {"absent", "pending"}
                 PROVE  row'[r].status \notin {"absent", "pending"}
      BY DEF vars
    <2>1. CASE row'[r] = row[r]
      BY <2>1
    <2>2. CASE row'[r] # row[r]
      BY <2>2, RowSteps
    <2> QED BY <2>1, <2>2
  <1> QED BY <1>1, Inductive, PTL DEF Spec, NeverReopened

\* Only a call with a stale snapshot rewrites a paid row.
THEOREM PaidLostOnlyToStaleReadHolds == Spec => PaidLostOnlyToStaleRead
  <1>1. IInv /\ [Next]_vars =>
           [\A r \in Requests :
               row[r].status = "paid" /\ row'[r] # row[r]
               => \E c \in Calls : /\ pc[c] \in Running /\ pc'[c] # pc[c]
                                   /\ call[c].req = r
                                   /\ call[c].snap.status \in {"pending", "expired", "cancelled"}]_vars
    <2> SUFFICES ASSUME IInv, Next, NEW r \in Requests, row[r].status = "paid", row'[r] # row[r]
                 PROVE  \E c \in Calls : /\ pc[c] \in Running /\ pc'[c] # pc[c]
                                         /\ call[c].req = r
                                         /\ call[c].snap.status \in {"pending", "expired", "cancelled"}
      BY DEF vars
    <2> QED BY RowSteps DEF Open
  <1> QED BY <1>1, Inductive, PTL DEF Spec, PaidLostOnlyToStaleRead

--------------------------------------------------------------------------------
(* Calls that do not overlap *)

\* The four parts of SerialInv.
OneRuns(c, d) == pc[c] \in Running /\ pc[d] \in Running => c = d
Settled(c) == /\ answer[c] = "error" => xfer[c] \in {"none", "dead"}
              /\ pc[c] \in {"returned", "threw"} => answer[c] # "waiting"
Loaded(c) == pc[c] \in {"saveExpired", "saveClosed", "transfer", "awaiting"} /\ call[c].op \in OnRow
             => row[call[c].req].status \in Open
Receipted(c) == answer[c] = "hash" /\ pc[c] # "awaiting" /\ call[c].op = "fulfill"
                => row[call[c].req].status = "paid" /\ row[call[c].req].paidTx = c

LEMMA SerialParts ==
    SerialInv <=> /\ \A c, d \in Calls : OneRuns(c, d)
                  /\ \A c \in Calls : Settled(c) /\ Loaded(c) /\ Receipted(c)
  BY DEF SerialInv, OneRuns, Settled, Loaded, Receipted

\* Calls start one at a time, and run on alone.
LEMMA OneRunsStep ==
    ASSUME IInv, SerialInv, Next, ~Concurrent, NEW c \in Calls, NEW d \in Calls
    PROVE  OneRuns(c, d)'
  <1> USE SerialParts DEF OneRuns
  <1>1. ASSUME NEW e \in Calls, Begin(e) PROVE OneRuns(c, d)'
    BY <1>1, BeginStarts DEF Start, Goto, IInv, TypeOK
  <1>2. ASSUME NEW e \in Calls, pc[e] \in Running, \A f \in Calls \ {e} : pc'[f] = pc[f]
        PROVE  OneRuns(c, d)'
    BY <1>2
  <1>3. ASSUME NEW e \in Calls, Advance(e) \/ Abort(e) PROVE OneRuns(c, d)'
    <2>1. pc[e] \in Running /\ \A f \in Calls \ {e} : pc'[f] = pc[f]
      BY <1>3 DEF Advance, Abort, SubmitRequest, InsertRequest, SaveExpired, SaveClosed, PublishClosed,
         Transfer, TransferFailed, Paid, Answered, Receipt, IndexPayment, RecordTransaction, Goto, IInv, TypeOK,
         Running, BeforeTransfer, AfterTransfer
    <2> QED BY <2>1, <1>2
  <1> QED BY <1>1, <1>3 DEF Next, CustodyStep, ClockPasses, ExpirePendingRequests

\* Without faults a call that is over has its answer, and an error means that
\* no money moves.
LEMMA SettledStep ==
    ASSUME IInv, SerialInv, Next, ~Faults, NEW c \in Calls
    PROVE  Settled(c)'
  <1> USE SerialParts DEF Settled, IInv, TypeOK, CustodyTypeOK
  <1>1. ASSUME NEW e \in Calls, Begin(e) PROVE Settled(c)'
    BY <1>1, BeginStarts DEF Start, Goto, Legal, custodyVars
  <1>2. ASSUME NEW e \in Calls, CustodyStep(e) PROVE Settled(c)'
    <2>1. CASE Accept(e) \/ Settle(e)
      BY <1>2, <2>1 DEF CustodyStep, Accept, Settle
    <2>2. CASE AnswerHash(e) \/ AnswerError(e)
      BY <1>2, <2>2 DEF CustodyStep, AnswerHash, AnswerError
    <2> QED BY <1>2, <2>1, <2>2 DEF CustodyStep
  <1>3. ASSUME NEW e \in Calls, Advance(e) PROVE Settled(c)'
    <2>1. CASE Transfer(e)
      BY <2>1 DEF Transfer, Submit, Refuse, Goto, LinkInv, BeforeTransfer
    <2>2. CASE SubmitRequest(e) \/ InsertRequest(e) \/ SaveExpired(e) \/ SaveClosed(e) \/ PublishClosed(e)
      BY <2>2 DEF SubmitRequest, InsertRequest, SaveExpired, SaveClosed, PublishClosed,
         LinkInv, BeforeTransfer, Goto, SubmitFails, custodyVars
    <2>3. CASE TransferFailed(e) \/ Paid(e) \/ Receipt(e) \/ IndexPayment(e) \/ RecordTransaction(e)
      BY <2>3 DEF TransferFailed, Paid, Answered, Receipt, IndexPayment, RecordTransaction, LinkInv,
         AfterTransfer, Goto, custodyVars
    <2> QED BY <1>3, <2>1, <2>2, <2>3 DEF Advance
  <1> QED BY <1>1, <1>2, <1>3 DEF Next, Abort, ClockPasses, ExpirePendingRequests, custodyVars

\* Which row a step writes, and from where.
LEMMA WrittenRow ==
    ASSUME IInv, Next, NEW r \in Requests, row'[r] # row[r]
    PROVE  \/ row[r].status \in {"absent", "pending"} /\ row'[r].status \in Open
           \/ \E e \in Calls : /\ pc[e] \in {"saveExpired", "saveClosed", "awaiting"}
                               /\ call[e].op \in OnRow /\ call[e].req = r
                               /\ SaveExpired(e) \/ SaveClosed(e) \/ Paid(e)
  <1> USE DEF IInv
  <1>1. ASSUME NEW e \in Calls, SaveExpired(e) \/ SaveClosed(e) \/ Paid(e)
        PROVE  /\ pc[e] \in {"saveExpired", "saveClosed", "awaiting"}
               /\ call[e].op \in OnRow /\ call[e].req = r
    <2>1. PICK x : SaveRow(call[e].req, x) /\ call[e].op \in OnRow
      BY <1>1 DEF SaveExpired, SaveClosed, Paid, Answered, OpInv, OnRow
    <2>2. call[e].req = r
      BY <2>1 DEF SaveRow, TypeOK
    <2> QED BY <1>1, <2>1, <2>2 DEF SaveExpired, SaveClosed, Paid, Answered
  <1>2. ASSUME NEW e \in Calls, InsertRequest(e)
        PROVE  row[r].status = "absent" /\ row'[r].status = "pending"
    BY <1>2 DEF InsertRequest, SaveRow, TypeOK, FreshInv, OpInv
  <1>3. CASE ExpirePendingRequests
    BY <1>3 DEF ExpirePendingRequests, Due, Pending, TypeOK, Row, Open
  <1>4. ASSUME NEW e \in Calls, Begin(e) \/ CustodyStep(e) \/ Abort(e) PROVE FALSE
    <2>1. CASE Begin(e)
      BY <2>1, BeginStarts DEF Start
    <2> QED BY <1>4, <2>1 DEF CustodyStep, Abort
  <1>5. ASSUME NEW e \in Calls, SubmitRequest(e) \/ PublishClosed(e) \/ Transfer(e) \/ TransferFailed(e)
                              \/ Receipt(e) \/ IndexPayment(e) \/ RecordTransaction(e)
        PROVE  FALSE
    BY <1>5 DEF SubmitRequest, PublishClosed, Transfer, TransferFailed, Receipt, IndexPayment,
                RecordTransaction
  <1> HIDE DEF IInv
  <1> QED BY <1>1, <1>2, <1>3, <1>4, <1>5 DEF Next, Advance, ClockPasses, Open

\* The row that a running call loaded stays open: nobody else runs, and the job
\* at most expires it.
LEMMA LoadedStep ==
    ASSUME IInv, SerialInv, Next, NEW c \in Calls
    PROVE  Loaded(c)'
  <1> USE SerialParts DEF IInv, OnRow
  <1> SUFFICES ASSUME pc'[c] \in {"saveExpired", "saveClosed", "transfer", "awaiting"}, call'[c].op \in OnRow
               PROVE  row'[call'[c].req].status \in Open
    BY DEF Loaded
  <1>1. CASE Begin(c)
    <2>1. PICK op \in Ops, u \in Users, r \in Requests \cup {NoRequest}, t \in BOOLEAN, l \in Pcs :
             Start(c, op, u, r, t, l) /\ Legal(op, u, r, l)
      BY <1>1, BeginStarts
    <2> QED BY <2>1 DEF Start, Legal, Goto, TypeOK
  <1>2. CASE ~Begin(c)
    <2>1. /\ pc[c] \in {"saveExpired", "saveClosed", "transfer", "awaiting"} /\ call'[c] = call[c]
          /\ \A e \in Calls : SaveExpired(e) \/ SaveClosed(e) \/ Paid(e) => e # c
      <3>1. ASSUME NEW e \in Calls, Begin(e), e # c PROVE pc'[c] = pc[c] /\ call'[c] = call[c]
        BY <3>1, BeginStarts DEF Start, Goto, TypeOK
      <3>2. ASSUME NEW e \in Calls, Advance(e) \/ Abort(e)
            PROVE  /\ pc[c] \in {"saveExpired", "saveClosed", "transfer", "awaiting"} /\ call'[c] = call[c]
        BY <3>2 DEF Advance, Abort, SubmitRequest, InsertRequest, SaveExpired, SaveClosed, PublishClosed,
           Transfer, TransferFailed, Paid, Answered, Receipt, IndexPayment, RecordTransaction, Goto, TypeOK
      <3>3. \A e \in Calls : SaveExpired(e) \/ SaveClosed(e) \/ Paid(e) => e # c
        BY DEF SaveExpired, SaveClosed, Paid, Answered, Goto, TypeOK
      <3> QED BY <1>2, <3>1, <3>2, <3>3 DEF Next, CustodyStep, ClockPasses, ExpirePendingRequests
    <2>2. call[c].req \in Requests /\ row[call[c].req].status \in Open
      BY <2>1 DEF OpInv, Loaded
    <2>3. ASSUME NEW e \in Calls, SaveExpired(e) \/ SaveClosed(e) \/ Paid(e) PROVE FALSE
      <3>1. pc[e] \in Running /\ pc[c] \in Running
        BY <2>1, <2>3 DEF SaveExpired, SaveClosed, Paid, Answered, Running, BeforeTransfer
      <3> QED BY <2>1, <2>3, <3>1 DEF OneRuns
    <2> HIDE DEF IInv
    <2> QED BY <2>1, <2>2, <2>3, WrittenRow
  <1> QED BY <1>1, <1>2

\* A fulfilment that has its hash keeps the row that names it.
LEMMA ReceiptedStep ==
    ASSUME IInv, SerialInv, Next, ~Faults, NEW c \in Calls
    PROVE  Receipted(c)'
  <1> USE SerialParts DEF IInv
  <1> SUFFICES ASSUME answer'[c] = "hash", pc'[c] # "awaiting", call'[c].op = "fulfill"
               PROVE  row'[call'[c].req].status = "paid" /\ row'[call'[c].req].paidTx = c
    BY DEF Receipted
  <1>1. CASE Paid(c)
    <2>1. call[c].op = "fulfill" /\ call'[c] = call[c] /\ call[c].req \in Requests
      BY <1>1 DEF Paid, Answered, OpInv, OnRow
    <2> DEFINE x == [call[c].snap EXCEPT !.status = "paid", !.paidTx = c]
    <2>2. x \in Row /\ x.status = "paid" /\ x.paidTx = c
      BY SnapIsRow DEF Row, Statuses
    <2>3. SaveRow(call[c].req, x)
      BY <1>1, <2>1 DEF Paid, Answered
    <2> HIDE DEF x
    <2> QED BY <2>1, <2>2, <2>3, SavedRow
  <1>2. CASE ~Paid(c)
    <2>1. answer[c] = "hash" /\ pc[c] # "awaiting" /\ call'[c] = call[c]
      <3>1. ASSUME NEW e \in Calls, Begin(e)
            PROVE  /\ answer'[c] = answer[c]
                   /\ e # c => pc'[c] = pc[c] /\ call'[c] = call[c]
                   /\ answer[e] = "idle"
        BY <3>1, BeginStarts DEF Start, Goto, TypeOK, custodyVars, LinkInv
      <3>2. ASSUME NEW e \in Calls, CustodyStep(e)
            PROVE  answer[c] = "hash" /\ pc[c] # "awaiting" /\ call'[c] = call[c]
        <4>1. pc'[c] = pc[c] /\ call'[c] = call[c] /\ (answer'[c] = answer[c] \/ answer[c] = "waiting")
          BY <3>2 DEF CustodyStep, Accept, Settle, AnswerHash, AnswerError, TypeOK, CustodyTypeOK
        <4>2. answer[c] # "waiting"
          BY <4>1 DEF Settled, LinkInv, TypeOK, Pcs, Running
        <4> QED BY <4>1, <4>2
      <3>3. ASSUME NEW e \in Calls, Advance(e)
            PROVE  answer[c] = "hash" /\ pc[c] # "awaiting" /\ call'[c] = call[c]
        BY <1>2, <3>3 DEF Advance, SubmitRequest, InsertRequest, SaveExpired, SaveClosed, PublishClosed,
           Transfer, Submit, Refuse, TransferFailed, Paid, Answered, Receipt, IndexPayment, RecordTransaction, Goto,
           TypeOK, CustodyTypeOK, custodyVars
      <3> QED BY <3>1, <3>2, <3>3 DEF Next, Abort, ClockPasses, ExpirePendingRequests, custodyVars
    <2>2. /\ call[c].req \in Requests
          /\ row[call[c].req].status = "paid" /\ row[call[c].req].paidTx = c
      BY <2>1 DEF OpInv, OnRow, Receipted
    <2>3. row'[call[c].req] = row[call[c].req]
      <3>1. \A e \in Calls : pc[e] \in {"saveExpired", "saveClosed", "awaiting"} /\ call[e].op \in OnRow
                            => call[e].req # call[c].req
        BY <2>2 DEF Loaded, Open
      <3> HIDE DEF IInv
      <3> QED BY <2>2, <3>1, WrittenRow
    <2> QED BY <2>1, <2>2, <2>3
  <1> QED BY <1>1, <1>2

\* When calls do not overlap and nothing fails, SerialInv holds of every reachable state.
THEOREM SerialInvHolds == ASSUME ~Concurrent, ~Faults PROVE Spec => []SerialInv
  <1>1. Init => SerialInv
    BY DEF Init, SerialInv, CustodyInit, Running, BeforeTransfer, AfterTransfer
  <1>2. IInv /\ SerialInv /\ [Next]_vars => SerialInv'
    <2>1. CASE Next
      <3> SUFFICES ASSUME IInv, SerialInv PROVE SerialInv'
        BY <2>1
      <3>1. \A c, d \in Calls : OneRuns(c, d)'
        BY <2>1, OneRunsStep
      <3>2. \A c \in Calls : Settled(c)' /\ Loaded(c)' /\ Receipted(c)'
        BY <2>1, SettledStep, LoadedStep, ReceiptedStep
      <3> QED BY <3>1, <3>2 DEF SerialInv, OneRuns, Settled, Loaded, Receipted
    <2>2. CASE UNCHANGED vars
      BY <2>2 DEF SerialInv, vars, custodyVars
    <2> QED BY <2>1, <2>2
  <1> QED BY <1>1, <1>2, Inductive, PTL DEF Spec

\* A payer is charged at most once for a request (fulfillPaymentRequest) as long
\* as calls do not overlap and nothing fails.
THEOREM AtMostOnePaymentHolds == ASSUME ~Concurrent, ~Faults PROVE Spec => []AtMostOnePayment
  <1>1. IInv /\ SerialInv => AtMostOnePayment
    <2> SUFFICES ASSUME IInv, SerialInv, NEW r \in Requests, NEW c \in Charges(r), NEW d \in Charges(r)
                 PROVE  c = d
      BY DEF AtMostOnePayment
    <2>1. ASSUME NEW e \in Charges(r)
          PROVE  \/ pc[e] = "awaiting" /\ row[r].status \in Open
                 \/ row[r].status = "paid" /\ row[r].paidTx = e
      <3>1. /\ e \in Calls /\ call[e].op = "fulfill" /\ call[e].req = r
            /\ answer[e] \in {"waiting", "hash"}
        BY DEF Charges, IInv, LinkInv, SerialInv, TypeOK, CustodyTypeOK, AnswerStates
      <3>2. answer[e] = "waiting" => pc[e] = "awaiting"
        BY <3>1 DEF IInv, LinkInv, SerialInv, TypeOK, Pcs, Running
      <3> QED BY <3>1, <3>2 DEF SerialInv, OnRow
    <2>2. c \in Calls /\ d \in Calls
      BY DEF Charges
    <2> QED BY <2>1, <2>2 DEF SerialInv, Running, Open
  <1> QED BY <1>1, SerialInvHolds, Inductive, PTL

--------------------------------------------------------------------------------
(* The refinement of RequestLifecycle *)

StatusOf   == [r \in Requests |-> row[r].status]
Paying(c, r) == /\ call[c].op = "fulfill" /\ call[c].req = r
                /\ answer[c] = "hash" /\ pc[c] # "awaiting"
PaymentsOf == [r \in Requests |-> {c \in Calls : Paying(c, r)}]

\* The lifecycle, as the rows of the requests and the calls with a hash show it.
LEMMA LifecycleMapping ==
    /\ Lifecycle!Init <=> StatusOf = [r \in Requests |-> "absent"] /\ PaymentsOf = [r \in Requests |-> {}]
    /\ \A r \in Requests :
          Lifecycle!Open(r) <=> /\ StatusOf[r] = "absent"
                                /\ StatusOf' = [StatusOf EXCEPT ![r] = "pending"]
                                /\ PaymentsOf' = PaymentsOf
    /\ \A r \in Requests, p \in Calls :
          Lifecycle!Pay(r, p) <=> /\ StatusOf[r] \in Open
                                  /\ StatusOf' = [StatusOf EXCEPT ![r] = "paid"]
                                  /\ PaymentsOf' = [PaymentsOf EXCEPT ![r] = {p}]
    /\ \A r \in Requests, s \in Statuses :
          Lifecycle!Close(r, s) <=> /\ StatusOf[r] \in Open
                                    /\ StatusOf' = [StatusOf EXCEPT ![r] = s]
                                    /\ PaymentsOf' = PaymentsOf
    /\ \A due \in SUBSET Requests :
          Lifecycle!Expire(due) <=> /\ \A r \in due : StatusOf[r] = "pending"
                                    /\ StatusOf' = [r \in Requests |-> IF r \in due THEN "expired"
                                                                       ELSE StatusOf[r]]
                                    /\ PaymentsOf' = PaymentsOf
    /\ UNCHANGED Lifecycle!lifecycleVars <=> StatusOf' = StatusOf /\ PaymentsOf' = PaymentsOf
  BY DEF Lifecycle!Init, Lifecycle!Open, Lifecycle!Pay, Lifecycle!Close, Lifecycle!Expire, Lifecycle!lifecycleVars,
     Lifecycle!Unsettled, StatusOf, PaymentsOf, Paying, Open

\* A fulfilment becomes a payment of its request when its hash arrives, and stays one.
LEMMA PayingStep ==
    ASSUME IInv, SerialInv, Next, ~Faults, NEW c \in Calls, NEW r \in Requests, ~Paid(c)
    PROVE  Paying(c, r)' <=> Paying(c, r)
  <1> USE SerialParts DEF IInv, Paying
  <1>1. ASSUME NEW e \in Calls, Begin(e) PROVE Paying(c, r)' <=> Paying(c, r)
    <2>1. answer[e] = "idle"
      BY <1>1, BeginStarts DEF Start, LinkInv
    <2> QED BY <1>1, <2>1, BeginStarts DEF Start, Goto, TypeOK, custodyVars
  <1>2. ASSUME NEW e \in Calls, CustodyStep(e) PROVE Paying(c, r)' <=> Paying(c, r)
    <2>1. UNCHANGED <<pc, call>> /\ (answer'[c] = answer[c] \/ answer[c] = "waiting")
      BY <1>2 DEF CustodyStep, Accept, Settle, AnswerHash, AnswerError, TypeOK, CustodyTypeOK
    <2>2. pc[c] # "awaiting" => answer[c] # "waiting"
      BY DEF Settled, LinkInv, TypeOK, Pcs, Running
    <2> QED BY <2>1, <2>2
  <1>3. ASSUME NEW e \in Calls, Advance(e) PROVE Paying(c, r)' <=> Paying(c, r)
    <2>1. CASE Transfer(e)
      <3>1. answer[e] = "idle"
        BY <2>1 DEF Transfer, LinkInv, BeforeTransfer
      <3> QED BY <2>1, <3>1 DEF Transfer, Submit, Refuse, Goto, TypeOK, CustodyTypeOK
    <2>2. CASE ~Transfer(e)
      BY <1>3, <2>2 DEF Advance, SubmitRequest, InsertRequest, SaveExpired, SaveClosed, PublishClosed,
         TransferFailed, Paid, Answered, Receipt, IndexPayment, RecordTransaction, Goto, TypeOK, custodyVars
    <2> QED BY <2>1, <2>2
  <1> QED BY <1>1, <1>2, <1>3 DEF Next, Abort, ClockPasses, ExpirePendingRequests, custodyVars

\* The two columns of the mapping after a step that saves one row, or none.
LEMMA SavedStatus ==
    ASSUME TypeOK, NEW r \in Requests, NEW x \in Row, SaveRow(r, x)
    PROVE  StatusOf' = [StatusOf EXCEPT ![r] = x.status]
  BY SavedRow DEF StatusOf

LEMMA PaymentsStay ==
    ASSUME IInv, SerialInv, Next, ~Faults, \A c \in Calls : ~Paid(c)
    PROVE  PaymentsOf' = PaymentsOf
  BY PayingStep DEF PaymentsOf

\* The hash of a fulfilment: the row and the payment change together, and there was
\* no payment before, or the row would have been paid.
LEMMA PaidIsPay ==
    ASSUME IInv, IInv', SerialInv, SerialInv', Next, ~Faults,
           NEW c \in Calls, Paid(c), call[c].op = "fulfill", NEW r \in Requests, call[c].req = r
    PROVE  Lifecycle!Pay(r, c)
  <1>1. StatusOf[r] \in Open
    BY SerialParts DEF IInv, OnRow, Paid, Answered, Loaded, StatusOf
  <1>2. StatusOf' = [StatusOf EXCEPT ![r] = "paid"]
    <2>1. "paid" \in Statuses /\ call[c].snap \in Row
      BY SnapIsRow DEF Statuses, IInv
    <2>2. /\ [call[c].snap EXCEPT !.status = "paid", !.paidTx = c] \in Row
          /\ [call[c].snap EXCEPT !.status = "paid", !.paidTx = c].status = "paid"
      BY <2>1, ChangedRow
    <2> QED BY <2>2, SavedStatus DEF IInv, Paid
  <1>3. PaymentsOf' = [PaymentsOf EXCEPT ![r] = {c}]
    <2>1. Paying(c, r)' /\ \A q \in Requests \ {r} : ~Paying(c, q)' /\ ~Paying(c, q)
      BY DEF Paid, Answered, Goto, Paying, IInv, TypeOK, custodyVars
    <2>2. ASSUME NEW d \in Calls \ {c} PROVE ~Paid(d)
      BY <2>2 DEF Paid, Answered, Goto, IInv, TypeOK
    <2>3. ASSUME NEW d \in Calls, Paying(d, r)' PROVE d = c
      <3>1. ASSUME NEW e \in Calls, Paying(e, r)' PROVE row'[r].paidTx = e
        BY <3>1 DEF Paying, SerialInv
      <3> QED BY <2>1, <2>3, <3>1
    <2>4. \A q \in Requests \ {r}, d \in Calls : Paying(d, q)' <=> Paying(d, q)
      BY <2>1, <2>2, PayingStep
    <2>5. ASSUME NEW q \in Requests
          PROVE  {d \in Calls : Paying(d, q)}' = IF q = r THEN {c} ELSE {d \in Calls : Paying(d, q)}
      BY <2>1, <2>3, <2>4
    <2> QED BY <2>5 DEF PaymentsOf
  <1> QED BY <1>1, <1>2, <1>3, LifecycleMapping

\* Every step of the serial handlers is one of the lifecycle, or changes neither column.
LEMMA LifecycleStep ==
    ASSUME IInv, IInv', SerialInv, SerialInv', Next, ~Faults
    PROVE  Lifecycle!Next \/ UNCHANGED Lifecycle!lifecycleVars
  <1>1. ASSUME NEW c \in Calls, Paid(c) PROVE Lifecycle!Next \/ UNCHANGED Lifecycle!lifecycleVars
    <2>1. CASE call[c].op = "fulfill"
      <3>1. PICK r \in Requests : call[c].req = r
        BY <2>1 DEF IInv, OpInv, OnRow
      <3>2. Lifecycle!Pay(r, c)
        BY <1>1, <2>1, <3>1, PaidIsPay
      <3> QED BY <3>2 DEF Lifecycle!Next
    <2>2. CASE call[c].op # "fulfill"
      <3>1. UNCHANGED <<row, call>> /\ \A d \in Calls \ {c} : ~Paid(d)
        BY <1>1, <2>2 DEF Paid, Answered, Goto, IInv, TypeOK
      <3>2. \A r \in Requests : ~Paying(c, r) /\ ~Paying(c, r)'
        BY <2>2, <3>1 DEF Paying
      <3>3. StatusOf' = StatusOf /\ PaymentsOf' = PaymentsOf
        BY <3>1, <3>2, PayingStep DEF StatusOf, PaymentsOf
      <3> QED BY <3>3, LifecycleMapping
    <2> QED BY <2>1, <2>2
  <1>2. CASE \A c \in Calls : ~Paid(c)
    <2>1. PaymentsOf' = PaymentsOf
      BY <1>2, PaymentsStay
    <2>2. ASSUME NEW c \in Calls, InsertRequest(c) PROVE Lifecycle!Next
      <3>1. PICK r \in Requests : call[c].req = r /\ StatusOf[r] = "absent"
        BY <2>2 DEF InsertRequest, IInv, OpInv, FreshInv, StatusOf
      <3> DEFINE x == [status |-> "pending", paidTx |-> NoTx, requester |-> call[c].user,
                       topic |-> call[c].topic]
      <3>2. x \in Row /\ x.status = "pending"
        BY DEF IInv, TypeOK, Call, Row, Statuses
      <3>3. SaveRow(r, x)
        BY <2>2, <3>1 DEF InsertRequest
      <3> HIDE DEF x
      <3>4. Lifecycle!Open(r)
        BY <2>1, <3>1, <3>2, <3>3, SavedStatus, LifecycleMapping DEF IInv
      <3> QED BY <3>4 DEF Lifecycle!Next
    <2>3. ASSUME NEW c \in Calls, SaveExpired(c) \/ SaveClosed(c) PROVE Lifecycle!Next
      <3>1. PICK r \in Requests : call[c].req = r /\ StatusOf[r] \in Open
        BY <2>3, SerialParts DEF SaveExpired, SaveClosed, IInv, OpInv, OnRow, Loaded, StatusOf
      <3>2. PICK s \in {"expired", "declined", "cancelled"} :
               SaveRow(r, [call[c].snap EXCEPT !.status = s])
        BY <2>3, <3>1 DEF SaveExpired, SaveClosed, ClosedStatus
      <3>3. s \in Statuses
        BY DEF Statuses
      <3>4. [call[c].snap EXCEPT !.status = s] \in Row /\ [call[c].snap EXCEPT !.status = s].status = s
        BY <3>3, SnapIsRow, ChangedRow DEF IInv
      <3>5. StatusOf' = [StatusOf EXCEPT ![r] = s]
        BY <3>2, <3>4, SavedStatus DEF IInv
      <3>6. Lifecycle!Close(r, s)
        BY <2>1, <3>1, <3>3, <3>5, LifecycleMapping
      <3> QED BY <3>6 DEF Lifecycle!Next
    <2>4. CASE ExpirePendingRequests
      <3>1. PICK due \in SUBSET Requests : \A r \in Requests : r \in due <=> Due(r)
        <4>1. {r \in Requests : Due(r)} \in SUBSET Requests
          OBVIOUS
        <4> QED BY <4>1
      <3>2. \A r \in due : StatusOf[r] = "pending"
        BY <3>1 DEF Due, Pending, StatusOf
      <3>3. \A r \in Requests : row'[r].status = IF r \in due THEN "expired" ELSE row[r].status
        BY <2>4, <3>1 DEF ExpirePendingRequests, IInv, TypeOK, Row
      <3>4. StatusOf' = [r \in Requests |-> IF r \in due THEN "expired" ELSE StatusOf[r]]
        BY <3>3 DEF StatusOf
      <3>5. Lifecycle!Expire(due)
        BY <2>1, <3>2, <3>4, LifecycleMapping
      <3> QED BY <3>5 DEF Lifecycle!Next
    <2>5. CASE UNCHANGED row
      BY <2>1, <2>5, LifecycleMapping DEF StatusOf
    <2>6. ASSUME NEW c \in Calls, Begin(c) PROVE UNCHANGED row
      BY <2>6, BeginStarts DEF Start, IInv
    <2> QED BY <1>2, <2>2, <2>3, <2>4, <2>5, <2>6 DEF Next, Advance, CustodyStep, Abort, ClockPasses,
               SubmitRequest, PublishClosed, Transfer, TransferFailed, Receipt, IndexPayment, RecordTransaction
  <1> QED BY <1>1, <1>2

\* When calls do not overlap and nothing fails, the handlers implement RequestLifecycle:
\* a request is opened once, is paid by one payment in the step that records it, and
\* paid and declined are final.
THEOREM LifecycleHolds == ASSUME ~Concurrent, ~Faults PROVE Spec => LifecycleSpec
  <1>1. Init => Lifecycle!Init
    BY LifecycleMapping DEF Init, CustodyInit, NoRow, NoCall, StatusOf, PaymentsOf, Paying
  <1>2. IInv /\ IInv' /\ SerialInv /\ SerialInv' /\ [Next]_vars => [Lifecycle!Next]_(Lifecycle!lifecycleVars)
    <2>1. CASE Next
      BY <2>1, LifecycleStep
    <2>2. CASE UNCHANGED vars
      BY <2>2, LifecycleMapping DEF vars, custodyVars, StatusOf, PaymentsOf, Paying
    <2> QED BY <2>1, <2>2
  <1> QED BY <1>1, <1>2, Inductive, SerialInvHolds, PTL DEF Spec, LifecycleSpec, Lifecycle!Spec

====
