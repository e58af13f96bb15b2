---- MODULE RequestLifecycle ----
(***************************************************************************)
(* The promise of a payment request, one atomic step per change: it is     *)
(* opened once, and is paid by exactly one payment, in the step that       *)
(* records the payment.  Paid and declined are final.  The code leaves     *)
(* cancelled and expired open to a payment: fulfillPaymentRequest does not *)
(* reject a cancelled request, and the expiry job does not stop a payment  *)
(* that has started.                                                       *)
(***************************************************************************)

CONSTANTS Requests, Payments

VARIABLES status, payments

lifecycleVars == <<status, payments>>

Unsettled == {"pending", "expired", "cancelled"}

Init ==
    /\ status   = [r \in Requests |-> "absent"]
    /\ payments = [r \in Requests |-> {}]

Open(r) ==
    /\ status[r] = "absent"
    /\ status' = [status EXCEPT ![r] = "pending"]
    /\ UNCHANGED payments

Pay(r, p) ==
    /\ status[r] \in Unsettled
    /\ status'   = [status EXCEPT ![r] = "paid"]
    /\ payments' = [payments EXCEPT ![r] = {p}]

Close(r, s) ==
    /\ status[r] \in Unsettled
    /\ status' = [status EXCEPT ![r] = s]
    /\ UNCHANGED payments

\* The expiry job closes every request that is due in one statement.
Expire(due) ==
    /\ \A r \in due : status[r] = "pending"
    /\ status' = [r \in Requests |-> IF r \in due THEN "expired" ELSE status[r]]
    /\ UNCHANGED payments

Next ==
    \/ \E r \in Requests :
          \/ Open(r)
          \/ \E p \in Payments : Pay(r, p)
          \/ \E s \in {"expired", "declined", "cancelled"} : Close(r, s)
    \/ \E due \in SUBSET Requests : Expire(due)

Spec == Init /\ [][Next]_lifecycleVars
====
