------------------------------ MODULE Broadcasts ------------------------------
(***************************************************************************)
(* Broadcasts of organizations: broadcast.service.ts, which puts a message *)
(* on the topic of the organization and then saves its row, and the page   *)
(* (app)/broadcasts/page.tsx of one subscriber, which shows the rows page  *)
(* by page and may itself publish.  A row is dated when the submission     *)
(* answers (`clock` counts these answers).                                 *)
(***************************************************************************)
EXTENDS Naturals, Sequences, FiniteSets

CONSTANTS
    Channels,      \* organizations with a broadcast topic
    Own,           \* the one of the user
    OldTexts,      \* published long ago, in this order
    Theirs,        \* the texts of other authors, on their topic but not yet stored
    Mine,          \* the texts of the user
    Fetches,       \* loadFeed calls that may be under way together
    PageSize,      \* limit
    Silence,       \* no text
    MaxMessages    \* bound on what is put on a topic, and on the answers to it

NewTexts == Theirs \cup Mine
Texts    == {OldTexts[i] : i \in DOMAIN OldTexts} \cup NewTexts

ASSUME BroadcastAssumption ==
    /\ Theirs \cap Mine = {} /\ Own \in Channels /\ PageSize \in Nat \ {0} /\ Silence \notin Mine
    /\ IsFiniteSet(NewTexts) /\ OldTexts \in Seq(Texts \ NewTexts)
    /\ \A i, j \in DOMAIN OldTexts : OldTexts[i] = OldTexts[j] => i = j
    /\ MaxMessages \in Nat /\ Len(OldTexts) + Cardinality(Theirs) <= MaxMessages

VARIABLES
    channelLog,    \* per channel: the texts in consensus order
    stored,        \* broadcast_messages, by text
    publication,   \* createBroadcast, per text: stage, channel, seq, at
    clock,
    lost,          \* texts whose publication was answered with an error (history)
    subscribed,    \* broadcast_subscriptions of the reader
    feed,          \* messages
    hasMore, nextCursor, isLoading,
    fetch,         \* per load: stage, cursor, answer
    isSubscribing, isPublishing,
    mixed          \* the pages shown are of different moments (history)

broadcastVars == <<channelLog, stored, publication, clock, lost, subscribed, feed, hasMore,
                   nextCursor, isLoading, fetch, isSubscribing, isPublishing, mixed>>

Never     == MaxMessages + 1     \* after every row: no cursor
NoRow     == [in |-> {}, seq |-> 0, at |-> 0]
Unasked   == [at |-> "idle", cursor |-> Never, items |-> <<>>, more |-> FALSE, fresh |-> TRUE]
Asking    == [Unasked EXCEPT !.at = "asked"]
Unsent    == [at |-> "idle", to |-> Own, seq |-> 0, when |-> 0]

BroadcastTypeOK ==
    /\ \A c \in Channels : channelLog[c] \in Seq(Texts)
    /\ stored \in [Texts -> [in : SUBSET Channels, seq : Nat, at : 0 .. Never]]
    /\ publication \in [NewTexts -> [at : {"idle", "checked", "answered", "done", "failed"},
                              to : Channels, seq : Nat, when : 0 .. Never]]
    /\ lost \subseteq NewTexts /\ subscribed \subseteq Channels
    /\ feed \in Seq(Texts) /\ nextCursor \in 1 .. Never
    /\ \A l \in Fetches : fetch[l].at \in {"idle", "asked", "got", "failed"} /\ fetch[l].cursor \in 1 .. Never
    /\ isSubscribing \in {"idle", "sent", "reload", "failed"} /\ isPublishing \in NewTexts \cup {Silence}
    /\ {hasMore, isLoading, mixed} \subseteq BOOLEAN

\* The texts of others are on their topic, after the old ones, in any order.
Orders == {f \in [1 .. Cardinality(Theirs) -> Theirs] :
              /\ \A i, j \in DOMAIN f : f[i] = f[j] => i = j
              /\ \A t \in Theirs : \E i \in DOMAIN f : f[i] = t}
OnTopic == {OldTexts \o f : f \in Orders}
Place(log, t) == CHOOSE i \in DOMAIN log : log[i] = t

\* The page has just been opened: its effect loads the first page.
BroadcastInit ==
    /\ \E c \in Channels, log \in OnTopic :
          LET p(t) == Place(log, t) IN
          /\ channelLog = [d \in Channels |-> IF d = c THEN log ELSE <<>>]
          /\ stored = [t \in Texts |-> IF t \in NewTexts THEN NoRow ELSE [in |-> {c}, seq |-> p(t), at |-> p(t)]]
          /\ publication = [t \in NewTexts |-> IF t \in Mine THEN Unsent ELSE
                           [at |-> "answered", to |-> c, seq |-> p(t), when |-> p(t)]]
          /\ clock = Len(log) /\ lost = {}
    /\ subscribed \in SUBSET Channels
    /\ feed = <<>> /\ hasMore = FALSE /\ nextCursor = Never /\ isLoading = TRUE
    /\ \E l \in Fetches : fetch = [k \in Fetches |-> IF k = l THEN Asking ELSE Unasked]
    /\ isSubscribing = "idle" /\ isPublishing = Silence /\ mixed = FALSE

--------------------------------------------------------------------------------
(* createBroadcast *)

service   == <<channelLog, stored, publication, clock, lost>>
pageShown == <<feed, hasMore, nextCursor>>
reader    == <<subscribed, pageShown, isLoading, fetch, isSubscribing>>

\* By an author who is owner or admin of the organization (see Organization).
CreateBroadcast(t, c) ==
    /\ publication[t].at = "idle" /\ t \in Theirs
    /\ publication' = [publication EXCEPT ![t] = [Unsent EXCEPT !.at = "checked", !.to = c]]
    /\ UNCHANGED <<channelLog, stored, clock, lost, reader, isPublishing, mixed>>

\* The message is on the topic, and the answer dates the row; or it is lost.
SubmitBroadcast(t) ==
    LET c == publication[t].to IN
    /\ publication[t].at = "checked" /\ Len(channelLog[c]) < MaxMessages /\ clock < MaxMessages
    /\ \/ /\ channelLog' = [channelLog EXCEPT ![c] = Append(@, t)]
          /\ clock' = clock + 1
          /\ publication' = [publication EXCEPT ![t].at = "answered", ![t].seq = Len(channelLog'[c]), ![t].when = clock']
          /\ UNCHANGED lost
       \/ /\ channelLog' \in {channelLog, [channelLog EXCEPT ![c] = Append(@, t)]}
          /\ publication' = [publication EXCEPT ![t].at = "failed"]
          /\ lost' = lost \cup {t}
          /\ UNCHANGED clock
    /\ UNCHANGED <<stored, reader, isPublishing, mixed>>

\* Answers that were read before this moment are no longer those of one moment.
Overtaken == [l \in Fetches |-> [fetch[l] EXCEPT !.fresh = @ /\ fetch[l].at # "got"]]
IsLate(t) == \E u \in Texts : stored[u].at > publication[t].when

SaveBroadcast(t) ==
    /\ publication[t].at = "answered"
    /\ \/ /\ stored' = [stored EXCEPT ![t] = [in |-> {publication[t].to}, seq |-> publication[t].seq, at |-> publication[t].when]]
          /\ publication' = [publication EXCEPT ![t].at = "done"]
          /\ fetch' = IF IsLate(t) THEN Overtaken ELSE fetch
          /\ mixed' = (mixed \/ IsLate(t))
          /\ UNCHANGED lost
       \/ /\ publication' = [publication EXCEPT ![t].at = "failed"]
          /\ lost' = lost \cup {t}
          /\ UNCHANGED <<stored, fetch, mixed>>
    /\ UNCHANGED <<channelLog, clock, subscribed, pageShown, isLoading, isSubscribing, isPublishing>>

\* The author tries again: createBroadcast knows nothing of the first attempt.
PublishAgain(t) ==
    /\ publication[t].at = "failed" /\ isPublishing # t
    /\ publication' = [publication EXCEPT ![t] = Unsent]
    /\ UNCHANGED <<channelLog, stored, clock, lost, reader, isPublishing, mixed>>

--------------------------------------------------------------------------------
(* The page *)

\* getSubscribedFeed; its two queries are taken together.
Rows(c)  == {t \in Texts : stored[t].in \cap subscribed # {} /\ stored[t].at < c}
Later(t, u) == stored[t].at > stored[u].at
InOrder(S) == CHOOSE s \in [1 .. Cardinality(S) -> S] :
                  /\ \A t \in S : \E i \in DOMAIN s : s[i] = t
                  /\ \A i, j \in DOMAIN s : i < j => Later(s[i], s[j])
GetSubscribedFeed(l) ==
    LET all == InOrder(Rows(fetch[l].cursor))
        few == Len(all) <= PageSize IN
    /\ fetch[l].at = "asked"
    /\ \/ fetch' = [fetch EXCEPT ![l].at = "got", ![l].more = ~few,
                                 ![l].items = IF few THEN all ELSE SubSeq(all, 1, PageSize)]
       \/ fetch' = [fetch EXCEPT ![l].at = "failed"]
    /\ UNCHANGED <<service, subscribed, pageShown, isLoading, isSubscribing, isPublishing, mixed>>

MoreUnderWay(except) == \E k \in Fetches \ except : fetch[k].cursor # Never

\* A slip: a load for the first page is added to what is shown.
AlwaysAppend(l) ==
    /\ fetch[l].at = "got"
    /\ feed' = feed \o fetch[l].items
    /\ hasMore' = fetch[l].more
    /\ nextCursor' = IF fetch[l].more THEN stored[fetch[l].items[Len(fetch[l].items)]].at ELSE Never
    /\ isLoading' = FALSE
    /\ fetch' = [fetch EXCEPT ![l] = Unasked]
    /\ mixed' = (mixed \/ ~fetch[l].fresh)
    /\ UNCHANGED <<service, subscribed, isSubscribing, isPublishing>>

\* The answer replaces what is shown, or is added to it; nothing tells whether another
\* load is under way.
LoadFeed(l) ==
    LET f == fetch[l]  first == f.cursor = Never IN
    /\ f.at = "got"
    /\ feed' = IF first THEN f.items ELSE feed \o f.items
    /\ hasMore' = f.more
    /\ nextCursor' = IF f.more THEN stored[f.items[Len(f.items)]].at ELSE Never
    /\ isLoading' = FALSE
    /\ fetch' = [fetch EXCEPT ![l] = Unasked]
    /\ mixed' = (\/ ~f.fresh
                 \/ ~first /\ mixed
                 \/ first /\ MoreUnderWay({l}))
    /\ UNCHANGED <<service, subscribed, isSubscribing, isPublishing>>

LoadFeedFails(l) ==
    /\ fetch[l].at = "failed"
    /\ isLoading' = FALSE
    /\ fetch' = [fetch EXCEPT ![l] = Unasked]
    /\ UNCHANGED <<service, subscribed, pageShown, isSubscribing, isPublishing, mixed>>

\* The buttons "Refresh" and "Load more".
Refresh(l) ==
    /\ ~isLoading /\ fetch[l].at = "idle"
    /\ \/ fetch' = [fetch EXCEPT ![l] = Asking] /\ UNCHANGED mixed
       \/ /\ hasMore
          /\ fetch' = [fetch EXCEPT ![l] = [Asking EXCEPT !.cursor = nextCursor]]
          /\ mixed' = (mixed \/ MoreUnderWay({l}))
    /\ isLoading' = TRUE
    /\ UNCHANGED <<service, subscribed, pageShown, isSubscribing, isPublishing>>

\* What handleSubscribe and handlePublish end with, whatever is under way.
Reload ==
    \E l \in Fetches :
        fetch[l].at = "idle" /\ fetch' = [fetch EXCEPT ![l] = Asking] /\ isLoading' = TRUE

\* The channel is named by id, by name or by account.
HandleSubscribe ==
    /\ isSubscribing = "idle"
    /\ isSubscribing' = "sent"
    /\ UNCHANGED <<service, subscribed, pageShown, isLoading, fetch, isPublishing, mixed>>

\* subscribe: the organization is found by any of the three, but the row and the check for
\* one already there take what was typed, and the column is a uuid: only the id is stored.
Subscribe(c, by) ==
    /\ isSubscribing = "sent"
    /\ \/ /\ by = "id" /\ c \notin subscribed
          /\ subscribed' = subscribed \cup {c}
          /\ fetch' = Overtaken /\ mixed' = TRUE
          /\ isSubscribing' \in {"reload", "failed"}
       \/ isSubscribing' = "failed" /\ UNCHANGED <<subscribed, fetch, mixed>>
    /\ UNCHANGED <<service, pageShown, isLoading, isPublishing>>

SubscribeAnswers ==
    /\ \/ isSubscribing = "reload" /\ Reload
       \/ isSubscribing = "failed" /\ UNCHANGED <<fetch, isLoading>>
    /\ isSubscribing' = "idle"
    /\ UNCHANGED <<service, subscribed, pageShown, isPublishing, mixed>>

\* Only by an API client: the page has no button for it.
Unsubscribe(c) ==
    /\ c \in subscribed
    /\ subscribed' = subscribed \ {c}
    /\ fetch' = Overtaken /\ mixed' = TRUE
    /\ UNCHANGED <<service, pageShown, isLoading, isSubscribing, isPublishing>>

\* For the user's own organization; refused when they are no longer owner or admin of it.
HandlePublish(t) ==
    /\ isPublishing = Silence /\ publication[t].at = "idle" /\ t \in Mine
    /\ isPublishing' = t
    /\ \E at \in {"checked", "failed"} : publication' = [publication EXCEPT ![t].at = at]
    /\ UNCHANGED <<channelLog, stored, clock, lost, reader, mixed>>

PublishAnswers ==
    /\ isPublishing # Silence
    /\ \/ publication[isPublishing].at = "done" /\ Reload
       \/ publication[isPublishing].at = "failed" /\ UNCHANGED <<fetch, isLoading>>
    /\ isPublishing' = Silence
    /\ UNCHANGED <<service, subscribed, pageShown, isSubscribing, mixed>>

BroadcastNext ==
    \/ HandleSubscribe \/ SubscribeAnswers \/ PublishAnswers
    \/ \E t \in NewTexts :
          \/ \E c \in Channels : CreateBroadcast(t, c)
          \/ SubmitBroadcast(t) \/ SaveBroadcast(t) \/ PublishAgain(t) \/ HandlePublish(t)
    \/ \E c \in Channels : Unsubscribe(c) \/ \E by \in {"id", "name", "account"} : Subscribe(c, by)
    \/ \E l \in Fetches : GetSubscribedFeed(l) \/ LoadFeed(l) \/ LoadFeedFails(l) \/ Refresh(l)

BroadcastSpec == BroadcastInit /\ [][BroadcastNext]_broadcastVars

--------------------------------------------------------------------------------
Copies(t) == UNION {{<<c, n>> : n \in {i \in DOMAIN channelLog[c] : channelLog[c][i] = t}} : c \in Channels}

\* A row names the place of its text on the topic of its organization, and a text is on
\* topics more than once, or on one without a row, only if its publication was answered
\* with an error or is under way (createBroadcast submits first and saves after).
RowsAreOnTopic ==
    \A t \in Texts :
        /\ \A c \in stored[t].in : <<c, stored[t].seq>> \in Copies(t)
        /\ t \notin lost => \A x, y \in Copies(t) : x = y
        /\ Copies(t) # {} /\ stored[t] = NoRow => t \in lost \/ (t \in NewTexts /\ publication[t].at = "answered")

\* The pages shown have no text twice and leave none out between the first and the last,
\* unless they are of different moments: another load ended between them, a channel was
\* added or removed, or a row came late with an earlier date (loadFeed).
PagesAreWhole ==
    ~mixed =>
        /\ \A i, j \in 1 .. Len(feed) : i < j => Later(feed[i], feed[j])
        /\ \A t \in Texts, i, j \in 1 .. Len(feed) :
              /\ stored[t].in \cap subscribed # {}
              /\ Later(feed[i], t) /\ Later(t, feed[j])
              => \E k \in 1 .. Len(feed) : feed[k] = t

BroadcastInv == BroadcastTypeOK /\ RowsAreOnTopic /\ PagesAreWhole

\* Not kept by the code (README.md, section 3): a text is on the topic once.
OnTopicOnce == \A t \in Texts : Cardinality(Copies(t)) <= 1

\* Not kept by the code (README.md, section 3): the feed has the order of the topic.
FeedIsInTopicOrder ==
    \A t, u \in Texts :
        stored[t].in = stored[u].in /\ stored[t].seq > stored[u].seq => stored[t].at > stored[u].at

================================================================================
