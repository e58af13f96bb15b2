---- MODULE CustodyTransfer ----
(***************************************************************************)
(* What TamamCustodyService.executeTransfer promises its caller: one       *)
(* custody transaction at most per call, and a transaction hash only for a *)
(* transaction that completed.  An error promises nothing: the HTTP        *)
(* request may have been lost before or after Tamam handled it, and the    *)
(* 60 s polling budget may run out while the transaction is still live, so *)
(* the money can move after the caller was told that it did not.           *)
(* TamamCustody is the polling client this module abstracts.               *)
(***************************************************************************)

CONSTANT
    Calls,          \* executions of an API handler that may call executeTransfer
    Faults          \* may HTTP calls, statements and the process itself fail?

ASSUME FaultsAssumption == Faults \in BOOLEAN

VARIABLES
    xfer,     \* the custody transaction of a call, as Tamam sees it
    answer    \* what executeTransfer told the call

custodyVars == <<xfer, answer>>

XferStates   == {"none", "sent", "live", "done", "dead"}
AnswerStates == {"idle", "waiting", "hash", "error"}

CustodyTypeOK ==
    /\ xfer   \in [Calls -> XferStates]
    /\ answer \in [Calls -> AnswerStates]

CustodyInit ==
    /\ xfer   = [c \in Calls |-> "none"]
    /\ answer = [c \in Calls |-> "idle"]

\* POST /api/custody/transactions leaves the server.
Submit(c) ==
    /\ answer[c] = "idle"
    /\ answer' = [answer EXCEPT ![c] = "waiting"]
    /\ xfer'   = [xfer EXCEPT ![c] = "sent"]

\* Not configured, or a currency without a token: thrown before the POST.
Refuse(c) ==
    /\ answer[c] = "idle"
    /\ answer' = [answer EXCEPT ![c] = "error"]
    /\ UNCHANGED xfer

\* Tamam creates the transaction, or its policy gates reject it.  A POST the
\* client has given up on may still be handled.
Accept(c) ==
    /\ xfer[c] = "sent"
    /\ xfer' \in { [xfer EXCEPT ![c] = x] : x \in {"live", "dead"} }
    /\ UNCHANGED answer

\* MPC signing and the broadcast end, well or badly.
Settle(c) ==
    /\ xfer[c] = "live"
    /\ xfer' \in { [xfer EXCEPT ![c] = x] : x \in {"done", "dead"} }
    /\ UNCHANGED answer

AnswerHash(c) ==
    /\ answer[c] = "waiting"
    /\ xfer[c] = "done"
    /\ answer' = [answer EXCEPT ![c] = "hash"]
    /\ UNCHANGED xfer

AnswerError(c) ==
    /\ answer[c] = "waiting"
    /\ Faults \/ xfer[c] = "dead"
    /\ answer' = [answer EXCEPT ![c] = "error"]
    /\ UNCHANGED xfer

CustodyNext ==
    \E c \in Calls :
        \/ Submit(c)
        \/ Refuse(c)
        \/ Accept(c)
        \/ Settle(c)
        \/ AnswerHash(c)
        \/ AnswerError(c)

CustodySpec == CustodyInit /\ [][CustodyNext]_custodyVars
====
