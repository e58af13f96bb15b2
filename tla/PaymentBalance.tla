---- MODULE PaymentBalance ----
(* The balance that the payment store keeps and the BalanceWidget shows: it  *)
(* is read through the API from the mirror node, which lags, and reduced by  *)
(* what is sent from this browser.  Every payment moves one unit.            *)
EXTENDS Integers, Sequences, FiniteSets

CONSTANTS Fetches,       \* identities of the calls of fetchBalance
          MaxPayments    \* bound: payments of the account

ASSUME BalanceAssumption == MaxPayments \in Nat

VARIABLES moves,     \* the transfers of the account, in order
          mirror,    \* how many of them the mirror node has counted
          balance,   \* what the store has
          paying,    \* the place of the transfer that is sent from here; 0: asked; -1: none
          fetch,     \* per call, how many transfers the mirror node had counted when it read
                     \* them; -1: asked; -2: no call
          counted,   \* the transfers that the balance has counted
          raced      \* a payment was made here while the balance was fetched

mvars == <<moves, mirror, balance, paying, fetch, counted, raced>>

Value(S) == Cardinality({i \in S : moves[i] = "received"}) - Cardinality({i \in S : moves[i] = "sent"})
Fetching == {f \in Fetches : fetch[f] # -2}

BalanceTypeOK ==
    /\ moves \in Seq({"sent", "received"}) /\ mirror \in 0..Len(moves) /\ balance \in Int
    /\ paying \in -1..Len(moves) /\ fetch \in [Fetches -> -2..Len(moves)]
    /\ counted \subseteq DOMAIN moves /\ raced \in BOOLEAN

BalanceInit ==
    /\ moves = <<>> /\ mirror = 0 /\ balance = 0 /\ paying = -1
    /\ fetch = [f \in Fetches |-> -2] /\ counted = {} /\ raced = FALSE

--------------------------------------------------------------------------------

\* When the widget is mounted, by hand, after a request was paid, and at payment events.
FetchBalance(f) ==
    /\ fetch[f] = -2
    /\ fetch' = [fetch EXCEPT ![f] = -1]
    /\ raced' = (raced \/ paying # -1)
    /\ UNCHANGED <<moves, mirror, balance, paying, counted>>

\* getBalance of payments.service.ts; getTokenBalance answers 0 when the mirror node fails.
GetBalance(f) ==
    /\ fetch[f] = -1
    /\ \E seen \in {0, mirror} : fetch' = [fetch EXCEPT ![f] = seen]
    /\ UNCHANGED <<moves, mirror, balance, paying, counted, raced>>

TakeBalance(f) ==
    /\ fetch[f] >= 0
    /\ balance' = Value(1..fetch[f])
    /\ counted' = 1..fetch[f]
    /\ fetch' = [fetch EXCEPT ![f] = -2]
    /\ raced' = (IF paying = -1 /\ Fetching = {f} THEN FALSE ELSE raced)
    /\ UNCHANGED <<moves, mirror, paying>>

\* A slip: a failure resets the balance.
ResetOnFailure(f) ==
    /\ fetch[f] # -2
    /\ balance' = 0 /\ counted' = {}
    /\ fetch' = [fetch EXCEPT ![f] = -2]
    /\ UNCHANGED <<moves, mirror, paying, raced>>

\* Only the error is stored.
FetchFails(f) ==
    /\ fetch[f] # -2
    /\ fetch' = [fetch EXCEPT ![f] = -2]
    /\ UNCHANGED <<moves, mirror, balance, paying, counted, raced>>

\* sendPayment of the store; isSending disables the button.
SendPayment ==
    /\ paying = -1
    /\ paying' = 0
    /\ raced' = (raced \/ Fetching # {})
    /\ UNCHANGED <<moves, mirror, balance, fetch, counted>>

MoneyMoves ==
    /\ paying = 0 /\ Len(moves) < MaxPayments
    /\ moves' = Append(moves, "sent") /\ paying' = Len(moves')
    /\ UNCHANGED <<mirror, balance, fetch, counted, raced>>

\* "balance: state.balance - amount", once the payment was answered.
Subtract ==
    /\ paying > 0
    /\ balance' = balance - 1
    /\ counted' = counted \cup {paying}
    /\ paying' = -1
    /\ UNCHANGED <<moves, mirror, fetch, raced>>

SendFails ==
    /\ paying # -1
    /\ paying' = -1
    /\ UNCHANGED <<moves, mirror, balance, fetch, counted, raced>>

Receive ==
    /\ Len(moves) < MaxPayments
    /\ moves' = Append(moves, "received")
    /\ UNCHANGED <<mirror, balance, paying, fetch, counted, raced>>

MirrorCounts ==
    /\ mirror < Len(moves)
    /\ mirror' = mirror + 1
    /\ UNCHANGED <<moves, balance, paying, fetch, counted, raced>>

BalanceNext ==
    \/ \E f \in Fetches : FetchBalance(f) \/ GetBalance(f) \/ TakeBalance(f) \/ FetchFails(f)
    \/ SendPayment \/ MoneyMoves \/ Subtract \/ SendFails \/ Receive \/ MirrorCounts

BalanceSpec == BalanceInit /\ [][BalanceNext]_mvars

--------------------------------------------------------------------------------
(* Properties *)

\* The balance counts every transfer once, unless it was fetched while a payment was made
\* here: the answer may have counted the payment that is then subtracted.
BalanceCountsOnce == ~ raced => balance = Value(counted)

\* A transfer that the balance has counted is forgotten again only by the answer of a call
\* that the mirror node answered before it counted the transfer, or failed to answer.
CountedStays ==
    [][\A i \in counted \ counted' : \E f \in Fetches : fetch[f] \in 0..(i - 1)]_mvars

BalanceSafety == []BalanceTypeOK /\ []BalanceCountsOnce /\ CountedStays

\* Not kept by the code (README.md, section 3): the widget shows what was received only when
\* it fetches again, and nothing tells it to.
BalanceCatchesUp == Fetching = {} /\ paying = -1 /\ mirror = Len(moves) => balance = Value(DOMAIN moves)

================================================================================
