---- MODULE PaymentHistory ----
(* The payments page (app/(app)/payments/page.tsx) and the store behind it    *)
(* (stores/payment.store.ts): the list of transactions, which is filtered and *)
(* loaded page by page while payments are made.                               *)
EXTENDS Integers, Sequences, SequencesExt, FiniteSetsExt

CONSTANTS Queries,     \* identities of the calls of the store
          MaxTxs,      \* bound: transactions of the user
          MaxShown,    \* bound: entries of the list when more is loaded
          PageSize     \* DEFAULT_PAGE_SIZE

ASSUME HistoryAssumption == MaxTxs \in Nat /\ MaxShown \in Nat /\ PageSize \in Nat \ {0}

VARIABLES txs,       \* the transactions of the user in the database, oldest first
          shown,     \* paymentHistory: places in txs, and whether the entry was made here
          cursor,    \* historyNextCursor: the place of the last that was loaded, or 0
          loading,   \* isLoading
          filter,    \* the direction that the page is set to
          timer,     \* the list of the filter waits to be fetched (setTimeout)
          query,     \* the calls under way
          listed,    \* the filter of the first page of the list
          mixed,     \* pages of two lists may be in the list
          doubled    \* a payment was made here while the list was fetched

hvars == <<txs, shown, cursor, loading, filter, timer, query, listed, mixed, doubled>>
ghosts == <<listed, mixed, doubled>>

Directions == {"sent", "received"}
Filters    == {"all", "sent"}
Places     == 1..MaxTxs
NoQuery    == [kind |-> "none", stage |-> "none", filter |-> "all", at |-> 0,
               page |-> <<>>, last |-> 0, number |-> 0]
Kind_(k)   == {q \in Queries : query[q].kind = k}
Lists      == Kind_("list")

HistoryTypeOK ==
    /\ txs \in BoundedSeq(Directions, MaxTxs)
    /\ shown \in Seq([place : Places, here : BOOLEAN]) /\ cursor \in {0} \cup Places
    /\ {loading, timer, mixed, doubled} \subseteq BOOLEAN
    /\ {filter, listed} \subseteq Filters
    /\ \A q \in Queries : /\ query[q].kind \in {"none", "list", "send", "balance"}
                          /\ query[q].stage \in {"none", "asked", "answered"}

HistoryInit ==
    /\ txs = <<>> /\ shown = <<>> /\ cursor = 0
    /\ loading = FALSE /\ filter = "all" /\ timer = TRUE
    /\ query = [q \in Queries |-> NoQuery]
    /\ listed = "all" /\ mixed = FALSE /\ doubled = FALSE

--------------------------------------------------------------------------------
(* The list *)

Ask(q, k, f, at) ==
    /\ query[q].kind = "none"
    /\ query' = [query EXCEPT ![q] = [NoQuery EXCEPT !.kind = k, !.stage = "asked",
                                                     !.filter = f, !.at = at]]

\* fetchTransactions: from now on pages of two lists can meet, if this is a page of
\* another list than the one that is there, or than the one that is on its way.
FetchTransactions(q, f, at) ==
    /\ Ask(q, "list", f, at)
    /\ loading' = TRUE
    /\ mixed' = (mixed \/ (at # 0 /\ f # listed)
                       \/ \E p \in Lists : at # 0 \/ query[p].at # 0 \/ query[p].filter # f)
    /\ doubled' = (doubled \/ Kind_("send") # {})
    /\ UNCHANGED <<txs, shown, cursor, filter, listed>>

\* The page is opened, or handleRefresh: whatever the filter is.
Refresh(q)     == FetchTransactions(q, "all", 0) /\ UNCHANGED timer
\* The timer of a changed filter; a further change has started it anew.
FetchFilter(q) == timer /\ timer' = FALSE /\ FetchTransactions(q, filter, 0)

ChangeFilter(f) ==
    /\ filter # f
    /\ filter' = f /\ timer' = TRUE
    /\ UNCHANGED <<txs, shown, cursor, loading, query, ghosts>>

\* handleLoadMore: the filter of the page, and the cursor of the list.
LoadMore(q) ==
    /\ cursor # 0 /\ ~ loading /\ Len(shown) < MaxShown
    /\ FetchTransactions(q, filter, cursor)
    /\ UNCHANGED timer

Matches(f, i) == f = "all" \/ txs[i] = f

\* queryTransactions: one row more than the page says whether there are more.
QueryTransactions(q) ==
    LET found == SetToSortSeq({i \in DOMAIN txs : Matches(query[q].filter, i)
                                                  /\ (query[q].at # 0 => i < query[q].at)},
                              LAMBDA i, j : i > j)
        page  == SubSeq(found, 1, IF Len(found) < PageSize THEN Len(found) ELSE PageSize)
    IN /\ query[q].kind = "list" /\ query[q].stage = "asked"
       /\ query' = [query EXCEPT ![q].stage = "answered", ![q].page = page,
                        ![q].last = IF Len(found) > PageSize THEN page[PageSize] ELSE 0]
       /\ UNCHANGED <<txs, shown, cursor, loading, filter, timer, ghosts>>

Entries(page) == [n \in DOMAIN page |-> [place |-> page[n], here |-> FALSE]]

\* A further page is appended to whatever list is there; a first page replaces it.
TakePage(q) ==
    LET first == query[q].at = 0 IN
    /\ query[q].kind = "list" /\ query[q].stage = "answered"
    /\ shown' = (IF first THEN <<>> ELSE shown) \o Entries(query[q].page)
    /\ cursor' = query[q].last
    /\ loading' = FALSE
    /\ query' = [query EXCEPT ![q] = NoQuery]
    /\ listed' = (IF first THEN query[q].filter ELSE listed)
    /\ mixed' = IF first /\ Lists = {q} THEN FALSE ELSE mixed
    /\ doubled' = IF first /\ Kind_("send") = {} /\ Lists = {q} THEN FALSE ELSE doubled
    /\ UNCHANGED <<txs, filter, timer>>

--------------------------------------------------------------------------------
(* Payments *)

\* sendPayment: the button is disabled while one is sent.
SubmitPayment(q) ==
    /\ Kind_("send") = {}
    /\ Ask(q, "send", "all", 0)
    /\ doubled' = (doubled \/ Lists # {})
    /\ UNCHANGED <<txs, shown, cursor, loading, filter, timer, listed, mixed>>

\* recordTransaction, after the transfer.
RecordSent(q) ==
    /\ query[q].kind = "send" /\ query[q].stage = "asked" /\ Len(txs) < MaxTxs
    /\ txs' = Append(txs, "sent")
    /\ query' = [query EXCEPT ![q].stage = "answered", ![q].number = Len(txs) + 1]
    /\ UNCHANGED <<shown, cursor, loading, filter, timer, ghosts>>

\* The entry is made up from what was sent.
Sent(q) ==
    /\ query[q].kind = "send" /\ query[q].stage = "answered"
    /\ shown' = <<[place |-> query[q].number, here |-> TRUE]>> \o shown
    /\ query' = [query EXCEPT ![q] = NoQuery]
    /\ UNCHANGED <<txs, cursor, loading, filter, timer, listed, mixed, doubled>>

\* Somebody pays this user.
ReceivePayment ==
    /\ Len(txs) < MaxTxs
    /\ txs' = Append(txs, "received")
    /\ UNCHANGED <<shown, cursor, loading, filter, timer, query, ghosts>>

\* fetchBalance shares isLoading with the list.
AskBalance(q) ==
    /\ Ask(q, "balance", "all", 0)
    /\ loading' = TRUE
    /\ UNCHANGED <<txs, shown, cursor, filter, timer, ghosts>>

BalanceComes(q) ==
    /\ query[q].kind = "balance"
    /\ loading' = FALSE
    /\ query' = [query EXCEPT ![q] = NoQuery]
    /\ UNCHANGED <<txs, shown, cursor, filter, timer, ghosts>>

\* The call, or its answer, fails: only isLoading is reset, which a send does not touch.
QueryFails(q) ==
    /\ query[q].kind # "none"
    /\ query' = [query EXCEPT ![q] = NoQuery]
    /\ loading' = IF query[q].kind = "send" THEN loading ELSE FALSE
    /\ UNCHANGED <<txs, shown, cursor, filter, timer, ghosts>>

HistoryNext ==
    \/ \E q \in Queries : \/ Refresh(q) \/ FetchFilter(q) \/ LoadMore(q)
                          \/ QueryTransactions(q) \/ TakePage(q)
                          \/ SubmitPayment(q) \/ RecordSent(q) \/ Sent(q)
                          \/ AskBalance(q) \/ BalanceComes(q)
                          \/ QueryFails(q)
    \/ \E f \in Filters : ChangeFilter(f)
    \/ ReceivePayment

HistorySpec == HistoryInit /\ [][HistoryNext]_hvars

--------------------------------------------------------------------------------
(* Properties *)

Loaded == SelectSeq(shown, LAMBDA e : ~ e.here)

\* Pages join without a gap and without a repetition, and all are of one list, while
\* payments come in and are made, unless pages of two lists were on their way or the
\* filter was changed, or reset, under the list.
PagesJoin ==
    ~ mixed =>
        /\ \A m, n \in DOMAIN Loaded : m < n => Loaded[m].place > Loaded[n].place
        /\ \A m \in DOMAIN Loaded : Matches(listed, Loaded[m].place)
        /\ Loaded # <<>> =>
              \A i \in Last(Loaded).place .. Head(Loaded).place :
                 Matches(listed, i) => \E m \in DOMAIN Loaded : Loaded[m].place = i
        /\ cursor = 0 /\ Loaded # <<>> => \A i \in 1..(Last(Loaded).place - 1) : ~ Matches(listed, i)

\* A payment made here is listed once, unless the list was fetched while it was made.
SentIsListedOnce ==
    ~ doubled /\ ~ mixed =>
        \A m, n \in DOMAIN shown : m # n => shown[m].place # shown[n].place

\* The list of the payments page.
HistoryInv == HistoryTypeOK /\ PagesJoin /\ SentIsListedOnce

\* Not kept by the code (README.md, section 3): a refresh fetches all transactions, a
\* payment made here is put into any list, and the list of a slow answer stays.
ListIsOfFilter ==
    Kind_("list") = {} /\ ~ timer => \A m \in DOMAIN shown : Matches(filter, shown[m].place)

================================================================================
