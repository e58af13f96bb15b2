---- MODULE MCPaymentsLive ----
(* Payment requests, the custody client that moves their money and the feeds *)
(* of posts: the run explores one of them (`part`), each fair to itself.     *)
EXTENDS PaymentRequests, TamamCustody, PostFeed, TLC
CONSTANTS c1, c2, c3, b1, b2
VARIABLE part

liveVars == <<vars, tvars, fvars, part>>

\* Calls are alike, and so are posts: they begin in one order, as good as any other.
InTurn == /\ pc[c1] = "idle" => pc[c2] = "idle"
          /\ pc[c2] = "idle" => pc[c3] = "idle"
          /\ maker[b1] = "none" => maker[b2] = "none"

LiveInit == /\ Init /\ TransferInit /\ FeedInit
            /\ part \in {"payments", "custody", "feed"}
            /\ part # "feed" => feed = "topic"
            /\ feed = "home" => follower # {}
LiveNext == \/ part = "payments" /\ Next /\ UNCHANGED <<tvars, fvars, part>> /\ InTurn'
            \/ part = "custody" /\ TransferNext /\ UNCHANGED <<vars, fvars, part>>
            \/ part = "feed" /\ FeedNext /\ UNCHANGED <<vars, tvars, part>> /\ InTurn'
\* Handlers, the interval job, the client (whose timer aborts what gets no answer) and the
\* cache go on.
LiveSpec == /\ LiveInit /\ [][LiveNext]_liveVars
            /\ \A c \in Calls : /\ WF_vars(part = "payments" /\ Advance(c))
                                /\ WF_vars(part = "payments" /\ CustodyAnswers(c))
            /\ WF_vars(part = "payments" /\ ExpirePendingRequests)
            /\ \A c \in Transfers : WF_tvars(part = "custody" /\ ClientStep(c))
            /\ \A r \in Readers : /\ WF_fvars(part = "feed" /\ (QueryItems(r) \/ QueryPosts(r) \/ StorePage(r)))
                                  /\ WF_fvars(part = "feed" /\ PageExpires(r))

\* The invariants of the feeds and of the custody client.
LiveInv == FeedInv /\ TransferInv
================================================================================
