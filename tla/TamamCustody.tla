---- MODULE TamamCustody ----
(***************************************************************************)
(* TamamCustodyService.executeTransfer: POST the transaction, then poll    *)
(* its status until it is terminal or the attempts are used up.  Every     *)
(* HTTP exchange may fail or time out after 30 s, at any point: before     *)
(* Tamam handled the request, or after.  Tamam itself is external.         *)
(***************************************************************************)
EXTENDS Naturals

CONSTANTS
    Transfers,
    MAX_POLL_ATTEMPTS

ASSUME PollAssumption == MAX_POLL_ATTEMPTS \in Nat \ {0}

VARIABLES
    client,        \* where executeTransfer is
    attempt,   \* the loop variable of pollTransactionStatus
    wire,      \* the HTTP request or response under way
    tx         \* status of the custody transaction at Tamam

tvars == <<client, attempt, wire, tx>>

Terminal == {"COMPLETED", "FAILED"}   \* FAILED stands for REJECTED, CANCELLED, EXPIRED too
TxStatuses == {"absent", "PENDING"} \cup Terminal

Reply(s, h) == [kind |-> "status", status |-> s, hash |-> h]
Wire == {[kind |-> k] : k \in {"quiet", "POST", "GET", "created", "malformed", "httpError"}}
        \cup {Reply(s, h) : s \in {"PENDING"} \cup Terminal, h \in BOOLEAN}
Kind(k) == [kind |-> k]

TransferTypeOK ==
    /\ client \in [Transfers -> {"idle", "creating", "polling", "returned", "threw"}]
    /\ attempt \in [Transfers -> 0 .. MAX_POLL_ATTEMPTS - 1]
    /\ wire \in [Transfers -> Wire]
    /\ tx \in [Transfers -> TxStatuses]

TransferInit ==
    /\ client      = [c \in Transfers |-> "idle"]
    /\ attempt = [c \in Transfers |-> 0]
    /\ wire    = [c \in Transfers |-> Kind("quiet")]
    /\ tx      = [c \in Transfers |-> "absent"]

Reach(c, l) == client' = [client EXCEPT ![c] = l]
OnWire(c, m) == wire' = [wire EXCEPT ![c] = m]

--------------------------------------------------------------------------------

NotConfigured(c) ==
    /\ client[c] = "idle"
    /\ Reach(c, "threw")
    /\ UNCHANGED <<attempt, wire, tx>>

CreateTransaction(c) ==
    /\ client[c] = "idle"
    /\ Reach(c, "creating")
    /\ OnWire(c, Kind("POST"))
    /\ UNCHANGED <<attempt, tx>>

\* data.id came back: the first poll goes out at once.
Created(c) ==
    /\ client[c] = "creating"
    /\ wire[c] = Kind("created")
    /\ Reach(c, "polling")
    /\ OnWire(c, Kind("GET"))
    /\ UNCHANGED <<attempt, tx>>

\* A slip: a POST that failed is sent again.
RetryPost(c) ==
    /\ client[c] = "creating"
    /\ wire[c] \in {Kind("httpError"), Kind("malformed")}
    /\ OnWire(c, Kind("POST"))
    /\ UNCHANGED <<client, attempt, tx>>

\* A non-2xx status, or a body without success or data.id.
BadResponse(c) ==
    /\ client[c] \in {"creating", "polling"}
    /\ wire[c] \in {Kind("httpError"), Kind("malformed")}
    /\ Reach(c, "threw")
    /\ OnWire(c, Kind("quiet"))
    /\ UNCHANGED <<attempt, tx>>

\* AbortSignal.timeout, or the connection breaks.  The request may still reach Tamam.
RequestTimesOut(c) ==
    /\ client[c] \in {"creating", "polling"}
    /\ Reach(c, "threw")
    /\ UNCHANGED <<attempt, wire, tx>>

Polled(c, s) == client[c] = "polling" /\ wire[c].kind = "status" /\ wire[c].status = s

\* A slip: the loop variable does not move.
PollForever(c) ==
    /\ Polled(c, "PENDING")
    /\ OnWire(c, Kind("GET"))
    /\ UNCHANGED <<client, attempt, tx>>

PollAgain(c) ==
    /\ Polled(c, "PENDING")
    /\ attempt[c] + 1 < MAX_POLL_ATTEMPTS
    /\ attempt' = [attempt EXCEPT ![c] = @ + 1]
    /\ OnWire(c, Kind("GET"))
    /\ UNCHANGED <<client, tx>>

PollingTimesOut(c) ==
    /\ Polled(c, "PENDING")
    /\ attempt[c] + 1 = MAX_POLL_ATTEMPTS
    /\ Reach(c, "threw")
    /\ OnWire(c, Kind("quiet"))
    /\ UNCHANGED <<attempt, tx>>

\* A completed transaction without txHash is an invalid response.
PollCompleted(c) ==
    /\ Polled(c, "COMPLETED")
    /\ Reach(c, IF wire[c].hash THEN "returned" ELSE "threw")
    /\ OnWire(c, Kind("quiet"))
    /\ UNCHANGED <<attempt, tx>>

PollFailed(c) ==
    /\ Polled(c, "FAILED")
    /\ Reach(c, "threw")
    /\ OnWire(c, Kind("quiet"))
    /\ UNCHANGED <<attempt, tx>>

--------------------------------------------------------------------------------
(* Tamam, and the network between *)

HandlePost(c) ==
    /\ wire[c] = Kind("POST")
    /\ \/ tx' = [tx EXCEPT ![c] = "PENDING"] /\ OnWire(c, Kind("created"))
       \/ /\ tx' = [tx EXCEPT ![c] = "PENDING"]
          /\ \E k \in {"malformed", "httpError"} : OnWire(c, Kind(k))
       \/ tx' = [tx EXCEPT ![c] = "FAILED"]  /\ OnWire(c, Kind("httpError"))
    /\ UNCHANGED <<client, attempt>>

HandleGet(c) ==
    /\ wire[c] = Kind("GET")
    /\ \/ \E h \in BOOLEAN : OnWire(c, Reply(tx[c], h))
       \/ OnWire(c, Kind("httpError"))
    /\ UNCHANGED <<client, attempt, tx>>

\* Policy gates, MPC signing and the broadcast come to an end.
Process(c) ==
    /\ tx[c] = "PENDING"
    /\ tx' \in { [tx EXCEPT ![c] = s] : s \in Terminal }
    /\ UNCHANGED <<client, attempt, wire>>

--------------------------------------------------------------------------------

ClientStep(c) ==
    \/ Created(c) \/ BadResponse(c) \/ RequestTimesOut(c)
    \/ PollAgain(c) \/ PollingTimesOut(c) \/ PollCompleted(c) \/ PollFailed(c)

TransferNext ==
    \E c \in Transfers :
        \/ NotConfigured(c) \/ CreateTransaction(c)
        \/ ClientStep(c)
        \/ HandlePost(c) \/ HandleGet(c) \/ Process(c)

TransferSpec == TransferInit /\ [][TransferNext]_tvars

--------------------------------------------------------------------------------
(* Properties *)

\* A caller is given a hash only for a transfer that completed; a status that
\* travels back late cannot say so of another one.
HashMeansCompleted ==
    \A c \in Transfers : client[c] = "returned" => tx[c] = "COMPLETED"

\* A transaction is polled only once it exists, and one that Tamam never took
\* is never polled (pollTransactionStatus runs after data.id came back).
PolledExists ==
    \A c \in Transfers : client[c] = "polling" => tx[c] # "absent"

\* What the client may rely on when Tamam answers: types, hashes and polls.
TransferInv == TransferTypeOK /\ HashMeansCompleted /\ PolledExists

\* executeTransfer ends: 30 polls, each with its own timeout.
TransferEnds ==
    \A c \in Transfers : client[c] \in {"creating", "polling"} ~> client[c] \in {"returned", "threw"}

\* Every behaviour is one that CustodyTransfer allows, so the payment handlers
\* may be reasoned about with that module alone.
Abstract == INSTANCE CustodyTransfer
    WITH Calls  <- Transfers,
         Faults <- TRUE,
         xfer   <- [c \in Transfers |->
                      CASE tx[c] = "PENDING"   -> "live"
                        [] tx[c] = "COMPLETED" -> "done"
                        [] tx[c] = "FAILED"    -> "dead"
                        [] wire[c] = Kind("POST") -> "sent"
                        [] OTHER -> "none"],
         answer <- [c \in Transfers |->
                      CASE client[c] = "idle" -> "idle"
                        [] client[c] \in {"creating", "polling"} -> "waiting"
                        [] client[c] = "returned" -> "hash"
                        [] OTHER -> "error"]

AbstractSpec == Abstract!CustodySpec
====
