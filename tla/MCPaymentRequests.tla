---- MODULE MCPaymentRequests ----
EXTENDS PaymentRequests, TLC

\* Calls differ only by name until they start.
CallSymmetry == Permutations(Calls)
====
