---- MODULE PaymentRequests ----
(***************************************************************************)
(* PaymentsService: payments, and the life of a payment request.  A call   *)
(* is one execution of an API handler; it advances one await at a time,    *)
(* and between two awaits every other call, the 60 s expiry job, the clock *)
(* and Tamam may move.  A handler works on `snap`, the row it loaded, and  *)
(* repo.save() writes that snapshot back over whatever is in the table.    *)
(***************************************************************************)
EXTENDS CustodyTransfer

CONSTANTS
    Requests,     \* payment request ids (uuids; each is used by one create)
    Users,
    NoUser, NoRequest, NoTx,
    Offered,      \* the operations clients call (a bound of the model checking)
    Concurrent    \* may a call start while another one is running?

ASSUME ConcurrentAssumption == Concurrent \in BOOLEAN
ASSUME OfferedAssumption == Offered \subseteq {"create", "fulfill", "decline", "cancel", "get", "send"}
ASSUME NullsAssumption ==
    /\ NoUser \notin Users
    /\ NoRequest \notin Requests
    /\ NoTx \notin Calls

VARIABLES
    row,         \* table payment_requests
    past,        \* is now() past the request's expires_at?
    call,        \* what each call is for, and the row it loaded
    pc,          \* the await each call has reached
    hcs,         \* messages on the conversations' HCS topics
    indexed,     \* calls whose payment_index row is saved
    recorded     \* calls whose two rows in transactions are saved

vars == <<row, past, call, pc, hcs, indexed, recorded, xfer, answer>>

Statuses == {"pending", "paid", "expired", "declined", "cancelled"}
Ops      == {"create", "fulfill", "decline", "cancel", "get", "send"}

\* A call pays with the transaction it created, so its id stands for the
\* Hedera transaction id too.
Row == [status : Statuses \cup {"absent"}, paidTx : Calls \cup {NoTx},
        requester : Users \cup {NoUser}, topic : BOOLEAN]
NoRow == [status |-> "absent", paidTx |-> NoTx, requester |-> NoUser, topic |-> FALSE]

Call == [op : Ops \cup {"none"}, user : Users \cup {NoUser},
         req : Requests \cup {NoRequest}, topic : BOOLEAN, snap : Row]
NoCall == [op |-> "none", user |-> NoUser, req |-> NoRequest, topic |-> FALSE, snap |-> NoRow]

BeforeTransfer == {"submitRequest", "insert", "saveExpired", "saveClosed", "publish", "transfer"}
AfterTransfer  == {"receipt", "index", "record"}
Running        == BeforeTransfer \cup {"awaiting"} \cup AfterTransfer
Pcs            == Running \cup {"idle", "returned", "threw"}

Message == [kind : {"payment_request", "payment", "paid", "declined", "cancelled"},
            by : Calls, req : Requests \cup {NoRequest}]
Msg(k, c) == [kind |-> k, by |-> c, req |-> call[c].req]

TypeOK ==
    /\ row  \in [Requests -> Row]
    /\ past \in [Requests -> BOOLEAN]
    /\ call \in [Calls -> Call]
    /\ pc   \in [Calls -> Pcs]
    /\ hcs \subseteq Message
    /\ indexed \subseteq Calls
    /\ recorded \subseteq Calls
    /\ CustodyTypeOK

Init ==
    /\ row  = [r \in Requests |-> NoRow]
    /\ past = [r \in Requests |-> FALSE]
    /\ call = [c \in Calls |-> NoCall]
    /\ pc   = [c \in Calls |-> "idle"]
    /\ hcs = {}
    /\ indexed = {}
    /\ recorded = {}
    /\ CustodyInit

--------------------------------------------------------------------------------

Goto(c, l) == pc' = [pc EXCEPT ![c] = l]
SaveRow(r, x) == row' = [row EXCEPT ![r] = x]    \* repo.save(entity)

\* The checks that handlers make on the row they load, each after the form that a
\* slip would give it.
Exists(r) == row[r].status # "absent"
Pending(r) == row[r].status = "pending"

NotRequester(u, r) == row[r].requester # u

PayableIfNotDeclined(r) == row[r].status \notin {"absent", "declined"}
Payable(r) == row[r].status \notin {"absent", "paid", "declined"}

\* A handler starts: a call whose guards reject it changes nothing and is left out.
Start(c, op, u, r, t, l) ==
    /\ op \in Offered
    /\ pc[c] = "idle"
    /\ Concurrent \/ \A d \in Calls : pc[d] \notin Running
    /\ call' = [call EXCEPT ![c] =
                   [op |-> op, user |-> u, req |-> r, topic |-> t,
                    snap |-> IF r = NoRequest THEN NoRow ELSE row[r]]]
    /\ Goto(c, l)
    /\ UNCHANGED <<row, past, hcs, indexed, recorded, custodyVars>>

\* createPaymentRequest: t tells whether a topicId was given.
Create(c, u, r, t) ==
    /\ ~Exists(r)
    /\ \A d \in Calls : call[d].req # r
    /\ Start(c, "create", u, r, t, IF t THEN "submitRequest" ELSE "insert")

\* hederaService.submitMessage: on an exception the message may have reached
\* consensus or not.
Submitted(m) == hcs' = hcs \cup {m}
SubmitFails(m) == Faults /\ hcs' \in {hcs, hcs \cup {m}}

\* "payment_request" goes to the topic first; a failure aborts the creation.
SubmitRequest(c) ==
    /\ pc[c] = "submitRequest"
    /\ \/ Submitted(Msg("payment_request", c)) /\ Goto(c, "insert")
       \/ SubmitFails(Msg("payment_request", c)) /\ Goto(c, "threw")
    /\ UNCHANGED <<row, past, call, indexed, recorded, custodyVars>>

InsertRequest(c) ==
    /\ pc[c] = "insert"
    /\ SaveRow(call[c].req, [status |-> "pending", paidTx |-> NoTx,
                             requester |-> call[c].user, topic |-> call[c].topic])
    /\ Goto(c, "returned")
    /\ UNCHANGED <<past, call, hcs, indexed, recorded, custodyVars>>

\* fulfillPaymentRequest, up to the transfer.  A cancelled request is not
\* rejected, and one that is past its expiry is saved as expired whatever
\* else its status says.
Fulfill(c, u, r, t) ==
    /\ NotRequester(u, r)
    /\ Payable(r)
    /\ Start(c, "fulfill", u, r, t,
             IF row[r].status = "expired" \/ past[r] THEN "saveExpired" ELSE "transfer")

Decline(c, u, r) ==
    /\ NotRequester(u, r)
    /\ Pending(r)
    /\ Start(c, "decline", u, r, row[r].topic, "saveClosed")

Cancel(c, u, r) ==
    /\ ~NotRequester(u, r)
    /\ Pending(r)
    /\ Start(c, "cancel", u, r, row[r].topic, "saveClosed")

\* getPaymentRequest, and each row of getPaymentRequests: autoExpire.
Get(c, u, r) ==
    /\ Pending(r)
    /\ past[r]
    /\ Start(c, "get", u, r, FALSE, "saveExpired")

\* sendPayment, up to the transfer.
Send(c, u, t) == Start(c, "send", u, NoRequest, t, "transfer")

SaveExpired(c) ==
    /\ pc[c] = "saveExpired"
    /\ SaveRow(call[c].req, [call[c].snap EXCEPT !.status = "expired"])
    /\ Goto(c, IF call[c].op = "get" THEN "returned" ELSE "threw")
    /\ UNCHANGED <<past, call, hcs, indexed, recorded, custodyVars>>

ClosedStatus(c) == IF call[c].op = "decline" THEN "declined" ELSE "cancelled"

\* A slip: the topic is told before the table.
CloseUnsaved(c) ==
    /\ pc[c] = "saveClosed"
    /\ Goto(c, "publish")
    /\ UNCHANGED <<row, past, call, hcs, indexed, recorded, custodyVars>>

\* declinePaymentRequest and cancelPaymentRequest, after their checks.
SaveClosed(c) ==
    /\ pc[c] = "saveClosed"
    /\ SaveRow(call[c].req, [call[c].snap EXCEPT !.status = ClosedStatus(c)])
    /\ Goto(c, "publish")
    /\ UNCHANGED <<past, call, hcs, indexed, recorded, custodyVars>>

\* A submission whose failure is only logged; without a topic there is none.
PublishOrLog(c, m) ==
    \/ call[c].topic /\ (Submitted(m) \/ SubmitFails(m))
    \/ ~call[c].topic /\ UNCHANGED hcs

PublishClosed(c) ==
    /\ pc[c] = "publish"
    /\ PublishOrLog(c, Msg(ClosedStatus(c), c))
    /\ Goto(c, "returned")
    /\ UNCHANGED <<row, past, call, indexed, recorded, custodyVars>>

--------------------------------------------------------------------------------

\* executeCustodyTransfer; it throws at once when the payer has no vault.
Transfer(c) ==
    /\ pc[c] = "transfer"
    /\ \/ Submit(c) /\ Goto(c, "awaiting")
       \/ Refuse(c) /\ Goto(c, "threw")
    /\ UNCHANGED <<row, past, call, hcs, indexed, recorded>>

\* A slip: an error is taken for a success.
AnsweredSomehow(c, a) == pc[c] = "awaiting" /\ answer[c] \in {a, "error"}
Answered(c, a) == pc[c] = "awaiting" /\ answer[c] = a

\* A slip: on a failure the row is put back as it was loaded.
RestoreOnFailure(c) ==
    /\ Answered(c, "error")
    /\ IF call[c].op = "fulfill" THEN SaveRow(call[c].req, call[c].snap) ELSE UNCHANGED row
    /\ Goto(c, "threw")
    /\ UNCHANGED <<past, call, hcs, indexed, recorded, custodyVars>>

TransferFailed(c) ==
    /\ Answered(c, "error")
    /\ Goto(c, "threw")
    /\ UNCHANGED <<row, past, call, hcs, indexed, recorded, custodyVars>>

\* The hash arrives.  fulfillPaymentRequest saves the row it loaded before
\* the transfer as paid; sendPayment has no row to save.
Paid(c) ==
    /\ Answered(c, "hash")
    /\ IF call[c].op = "fulfill"
       THEN SaveRow(call[c].req, [call[c].snap EXCEPT !.status = "paid", !.paidTx = c])
       ELSE UNCHANGED row
    /\ Goto(c, "receipt")
    /\ UNCHANGED <<past, call, hcs, indexed, recorded, custodyVars>>

Receipt(c) ==
    /\ pc[c] = "receipt"
    /\ PublishOrLog(c, Msg(IF call[c].op = "fulfill" THEN "paid" ELSE "payment", c))
    /\ Goto(c, "index")
    /\ UNCHANGED <<row, past, call, indexed, recorded, custodyVars>>

IndexPayment(c) ==
    /\ pc[c] = "index"
    /\ indexed' = indexed \cup {c}
    /\ Goto(c, "record")
    /\ UNCHANGED <<row, past, call, hcs, recorded, custodyVars>>

RecordTransaction(c) ==
    /\ pc[c] = "record"
    /\ recorded' = recorded \cup {c}
    /\ Goto(c, "returned")
    /\ UNCHANGED <<row, past, call, hcs, indexed, custodyVars>>

\* A statement throws out of the handler, or the process dies under it.
Abort(c) ==
    /\ Faults
    /\ pc[c] \in Running
    /\ Goto(c, "threw")
    /\ UNCHANGED <<row, past, call, hcs, indexed, recorded, custodyVars>>

\* Tamam, and the client that polls it, between Transfer and its outcome.
CustodyStep(c) ==
    /\ Accept(c) \/ Settle(c) \/ AnswerHash(c) \/ AnswerError(c)
    /\ UNCHANGED <<row, past, call, pc, hcs, indexed, recorded>>

\* A slip: only a hash ends the polling.
HashAnswers(c) ==
    /\ AnswerHash(c)
    /\ UNCHANGED <<row, past, call, pc, hcs, indexed, recorded>>

\* The part of it that the handler waits for.
CustodyAnswers(c) ==
    /\ AnswerHash(c) \/ AnswerError(c)
    /\ UNCHANGED <<row, past, call, pc, hcs, indexed, recorded>>

ClockPasses(r) ==
    /\ ~past[r]
    /\ past' = [past EXCEPT ![r] = TRUE]
    /\ UNCHANGED <<row, call, pc, hcs, indexed, recorded, custodyVars>>

\* Slips: the job's filter loses a condition, or compares the wrong way.
DueInAnyStatus(r) == Exists(r) /\ past[r] /\ row[r].status # "expired"
NotYetDue(r)      == Pending(r) /\ ~past[r]
Due(r)            == Pending(r) /\ past[r]

\* @Interval(60_000): one UPDATE ... WHERE status = 'pending' AND expiresAt < now.
ExpirePendingRequests ==
    /\ \E r \in Requests : Due(r)
    /\ row' = [r \in Requests |-> IF Due(r)
                                  THEN [row[r] EXCEPT !.status = "expired"]
                                  ELSE row[r]]
    /\ UNCHANGED <<past, call, pc, hcs, indexed, recorded, custodyVars>>

--------------------------------------------------------------------------------

Begin(c) ==
    \E u \in Users :
        \/ \E t \in BOOLEAN : Send(c, u, t)
        \/ \E r \in Requests :
              \/ \E t \in BOOLEAN : Create(c, u, r, t) \/ Fulfill(c, u, r, t)
              \/ Decline(c, u, r)
              \/ Cancel(c, u, r)
              \/ Get(c, u, r)

\* The next await of a running call.
Advance(c) ==
    \/ SubmitRequest(c) \/ InsertRequest(c)
    \/ SaveExpired(c) \/ SaveClosed(c) \/ PublishClosed(c)
    \/ Transfer(c) \/ TransferFailed(c) \/ Paid(c)
    \/ Receipt(c) \/ IndexPayment(c) \/ RecordTransaction(c)

Next ==
    \/ \E c \in Calls : Begin(c) \/ Advance(c) \/ CustodyStep(c) \/ Abort(c)
    \/ \E r \in Requests : ClockPasses(r)
    \/ ExpirePendingRequests

Spec == Init /\ [][Next]_vars

\* Every await of a handler ends, the custody client answers within its polling
\* budget, and the interval job keeps running.
FairSpec ==
    /\ Spec
    /\ \A c \in Calls : WF_vars(Advance(c)) /\ WF_vars(CustodyAnswers(c))
    /\ WF_vars(ExpirePendingRequests)

--------------------------------------------------------------------------------
(* Properties *)

\* The payments of r that really moved money.
Charges(r) == {c \in Calls : call[c].op = "fulfill" /\ call[c].req = r /\ xfer[c] = "done"}

\* Whatever the interleaving and the failures, a request shown as paid was paid:
\* some transfer for it completed, the transaction it names is one of them, and
\* none came from the requester (fulfillPaymentRequest).
PaidIsBacked ==
    \A r \in Requests :
        /\ row[r].status = "paid" => Charges(r) # {}
        /\ row[r].paidTx # NoTx => row[r].paidTx \in Charges(r)
        /\ \A c \in Charges(r) : call[c].user # row[r].requester

\* "Only submit this AFTER the HTS transfer is confirmed" (PaymentReceiptPayload):
\* receipts on a topic, payment_index and transactions never show a transfer that
\* did not complete, and a payment the caller was told of is in both tables.
BooksMatchTransfers ==
    /\ \A m \in hcs : m.kind \in {"payment", "paid"} => xfer[m.by] = "done"
    /\ \A c \in indexed \cup recorded : xfer[c] = "done"
    /\ \A c \in Calls : pc[c] = "returned" /\ call[c].op \in {"fulfill", "send"}
                        => c \in indexed \cap recorded

\* The audit trail is never ahead of the table: once a topic says that a request
\* was paid, declined or cancelled, no row still offers it for payment.
TopicNeverAhead ==
    \A m \in hcs : m.kind \in {"paid", "declined", "cancelled"}
                   => row[m.req].status \notin {"absent", "pending"}

\* The records outside the table, which nobody can take back: receipts and follow-ups on
\* the topics, payment_index and transactions.
RecordsAreTrue == BooksMatchTransfers /\ TopicNeverAhead

\* One payment per request: fulfillPaymentRequest refuses a second one with
\* "Payment request ... has already been paid".  It holds of the code when calls
\* do not overlap and nothing fails, and rests on that: two overlapping calls, or
\* one lost answer of Tamam followed by a retry, charge twice.
AtMostOnePayment ==
    \A r \in Requests : \A c, d \in Charges(r) : c = d

\* No save, however stale, puts a closed request back to pending.
NeverReopened ==
    [][\A r \in Requests :
          row[r].status \notin {"absent", "pending"}
          => row'[r].status \notin {"absent", "pending"}]_vars

\* A row that says paid changes only under a call that loaded it before it was
\* paid: no handler starts from a paid row and ends up rewriting it.
PaidLostOnlyToStaleRead ==
    [][\A r \in Requests :
          row[r].status = "paid" /\ row'[r] # row[r]
          => \E c \in Calls : /\ pc[c] \in Running /\ pc'[c] # pc[c]
                              /\ call[c].req = r
                              /\ call[c].snap.status \in {"pending", "expired", "cancelled"}]_vars

\* Not kept by the code (README.md, section 3):
\* "Can only cancel if status is 'pending'" (cancelPaymentRequest): said of the
\* row, it fails when the row is paid between the check and the save.
CancelOnlyFromPending ==
    [][\A r \in Requests :
          row[r].status # "cancelled" /\ row'[r].status = "cancelled"
          => row[r].status = "pending"]_vars

\* Not kept by the code (README.md, section 3):
\* "When they pay, a follow-up message updates the status to 'paid'" on the
\* conversation's topic: not when the submission fails, nor when the payer's
\* client does not repeat the topic id.
PaidFollowUp ==
    \A c \in Calls :
        pc[c] = "returned" /\ call[c].op = "fulfill" /\ call[c].snap.topic
        => \E m \in hcs : m.kind = "paid" /\ m.req = call[c].req

\* A request left unanswered past its expiry does not stay pending.
ExpiryHappens ==
    \A r \in Requests :
        row[r].status = "pending" /\ past[r] ~> row[r].status # "pending"

\* Every handler that starts ends, because executeTransfer does.
CallsEnd ==
    \A c \in Calls : pc[c] \in Running ~> pc[c] \in {"returned", "threw"}

\* Serially and without failures, a request is an atomic object (RequestLifecycle):
\* the row becomes paid together with its one payment and then stays as it is.
Lifecycle == INSTANCE RequestLifecycle
    WITH Payments <- Calls,
         status   <- [r \in Requests |-> row[r].status],
         payments <- [r \in Requests |->
                        {c \in Calls : /\ call[c].op = "fulfill" /\ call[c].req = r
                                       /\ answer[c] = "hash" /\ pc[c] # "awaiting"}]

LifecycleSpec == Lifecycle!Spec
====
