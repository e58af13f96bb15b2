---- MODULE MCPaymentScreens ----
(* Payment requests, and what the browser makes of payments: the list, the   *)
(* balance and the split payment.  They do not meet: the run explores one of *)
(* them (`part`).                                                            *)
EXTENDS MCPaymentRequests, SplitPayment, PaymentHistory, PaymentBalance
VARIABLE part

ScreensInit == /\ Init /\ SplitInit /\ HistoryInit /\ BalanceInit
               /\ part \in {"requests", "split", "list", "balance"}
ScreensNext == \/ part = "requests" /\ Next /\ UNCHANGED <<plvars, hvars, mvars, part>>
               \/ part = "split" /\ SplitNext /\ UNCHANGED <<vars, hvars, mvars, part>>
               \/ part = "list" /\ HistoryNext /\ UNCHANGED <<vars, plvars, mvars, part>>
               \/ part = "balance" /\ BalanceNext /\ UNCHANGED <<vars, plvars, hvars, part>>
ScreensSpec == ScreensInit /\ [][ScreensNext]_<<vars, plvars, hvars, mvars, part>>

\* The list and the balance of the payments page.
PaymentsPage == []HistoryInv /\ BalanceSafety

ScreenSymmetry == CallSymmetry \cup Permutations(Queries)
================================================================================
