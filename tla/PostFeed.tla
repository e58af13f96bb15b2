---- MODULE PostFeed ----
(***************************************************************************)
(* PostsService: posts of one author, their submission to HCS, the fan-out *)
(* to the home feeds of the followers, and the pages of feeds that Redis   *)
(* keeps for a minute.  A behaviour looks at one of the three cached feeds,*)
(* whose keys never meet, or at the topic, which no feed reads (`feed`).   *)
(* invalidate...Cache lists the keys and deletes them: a page stored in    *)
(* between stays, as one stored after.                                     *)
(***************************************************************************)
EXTENDS Naturals, Sequences, FiniteSets

CONSTANTS
    Blog,
    Readers,       \* who may follow the author and open feeds
    FeedFaults     \* may HCS, the database or Redis fail, and the process die?

ASSUME FeedFaultsAssumption == FeedFaults \in BOOLEAN
ASSUME BlogAssumption == IsFiniteSet(Blog)

VARIABLES
    feed,       \* what is looked at: the home, user or trending feed, or the topic
    follower,   \* readers that follow the author
    post,       \* posts_index: none, live or deleted (softly)
    number,     \* posts_index.sequenceNumber, 0 until the submission is confirmed
    onTopic,    \* the author's feed posts
    submission, \* the submission of each post, which nothing waits for
    maker,      \* createPost of each post
    fan,        \* its fan-out, which nothing waits for
    to,         \* the followers the fan-out was read for, and still has to serve
    item,       \* feed_items: who has which post
    remover,    \* deletePost of each post
    page,       \* the cached page of each reader
    fetch,      \* the page each reader is being answered
    late,       \* readers whose page was read before a write and stored after (history)
    early       \* posts confirmed before their row was there (history)

fvars == <<feed, follower, post, number, onTopic, submission, maker, fan, to, item, remover, page, fetch, late, early>>

Feeds    == {"home", "user", "trending"}      \* FEED_CACHE_PREFIX
NoPage   == [stored |-> FALSE, posts |-> {}]
NoFetch  == [at |-> "none", items |-> {}, seen |-> {}]

FeedTypeOK ==
    /\ feed \in Feeds \cup {"topic"} /\ follower \subseteq Readers
    /\ post \in [Blog -> {"none", "live", "deleted"}]
    /\ number \in [Blog -> 0 .. Cardinality(Blog)]
    /\ onTopic \in Seq(Blog) /\ Len(onTopic) <= Cardinality(Blog)
    /\ submission \in [Blog -> {"none", "flight", "confirmed", "over"}]
    /\ maker \in [Blog -> {"none", "save", "clearUser", "clearTrending", "returned", "failed"}]
    /\ fan \in [Blog -> {"none", "list", "items", "clear", "complete", "failed"}]
    /\ to \in [Blog -> SUBSET Readers] /\ item \subseteq Readers \X Blog
    /\ remover \in [Blog -> {"none", "remove", "clear", "returned", "failed"}]
    /\ page \in [Readers -> [stored : BOOLEAN, posts : SUBSET Blog]]
    /\ fetch \in [Readers -> [at : {"none", "miss", "items", "store"}, items : SUBSET Blog, seen : SUBSET Blog]]
    /\ late \subseteq Readers /\ early \subseteq Blog

FeedInit ==
    /\ feed \in Feeds \cup {"topic"}
    /\ follower \in IF feed = "home" THEN SUBSET Readers ELSE {{}}
    /\ post = [p \in Blog |-> "none"] /\ number = [p \in Blog |-> 0]
    /\ onTopic = <<>> /\ item = {} /\ late = {} /\ early = {}
    /\ submission = [p \in Blog |-> "none"] /\ maker = [p \in Blog |-> "none"]
    /\ fan = [p \in Blog |-> "none"] /\ to = [p \in Blog |-> {}]
    /\ remover = [p \in Blog |-> "none"]
    /\ page = [r \in Readers |-> NoPage] /\ fetch = [r \in Readers |-> NoFetch]

--------------------------------------------------------------------------------

Fetching      == {r \in Readers : fetch[r].at # "none"}
Written       == late' = late \cup Fetching
DropPages(S)  == page' = [r \in Readers |-> IF r \in S THEN NoPage ELSE page[r]]

\* A call to Redis fails, which is only logged: what was cached may be old.
Clear(S, applies) ==
    \/ (IF applies THEN DropPages(S) ELSE UNCHANGED page) /\ Written
    \/ FeedFaults /\ applies /\ UNCHANGED page /\ late' = late \cup S

CreatePost(p) ==
    /\ maker[p] = "none"
    /\ maker' = [maker EXCEPT ![p] = "save"]
    /\ submission' = [submission EXCEPT ![p] = IF feed = "topic" THEN "flight" ELSE "none"]
    /\ UNCHANGED <<feed, follower, post, number, onTopic, fan, to, item, remover, page, fetch, late, early>>

(* submitMessage(...).then(update), without await *)

Consensus(p) ==
    /\ submission[p] = "flight"
    /\ onTopic' = Append(onTopic, p)
    /\ submission' = [submission EXCEPT ![p] = "confirmed"]
    /\ UNCHANGED <<feed, follower, post, number, maker, fan, to, item, remover, page, fetch, late, early>>

Place(p) == CHOOSE n \in DOMAIN onTopic : onTopic[n] = p

\* The update touches no row when createPost has not saved it yet.
UpdateNumber(p) ==
    /\ submission[p] = "confirmed"
    /\ number' = IF post[p] = "none" THEN number ELSE [number EXCEPT ![p] = Place(p)]
    /\ submission' = [submission EXCEPT ![p] = "over"]
    /\ early' = IF post[p] = "none" THEN early \cup {p} ELSE early
    /\ UNCHANGED <<feed, follower, post, onTopic, maker, fan, to, item, remover, page, fetch, late>>

SubmissionFails(p) ==
    /\ FeedFaults /\ submission[p] \in {"flight", "confirmed"}
    /\ submission' = [submission EXCEPT ![p] = "over"]
    /\ early' = early \cup {p}
    /\ UNCHANGED <<feed, follower, post, number, onTopic, maker, fan, to, item, remover, page, fetch, late>>

(* createPost goes on, and starts the fan-out *)

SavePost(p) ==
    /\ maker[p] = "save"
    /\ post' = [post EXCEPT ![p] = "live"]
    /\ maker' = [maker EXCEPT ![p] = "clearUser"]
    /\ fan' = [fan EXCEPT ![p] = "list"]
    /\ UNCHANGED <<feed, follower, number, onTopic, submission, to, item, remover, page, fetch, late, early>>

ClearAfterCreate(p) ==
    /\ maker[p] \in {"clearUser", "clearTrending"}
    /\ Clear(Readers, maker[p] = IF feed = "user" THEN "clearUser" ELSE IF feed = "trending" THEN "clearTrending" ELSE "")
    /\ maker' = [maker EXCEPT ![p] = IF @ = "clearUser" THEN "clearTrending" ELSE "returned"]
    /\ UNCHANGED <<feed, follower, post, number, onTopic, submission, fan, to, item, remover, fetch, early>>

CreateFails(p) ==
    /\ FeedFaults /\ maker[p] = "save"
    /\ maker' = [maker EXCEPT ![p] = "failed"]
    /\ UNCHANGED <<feed, follower, post, number, onTopic, submission, fan, to, item, remover, page, fetch, late, early>>

(* fanOutToFollowers: rows in chunks (here, of one), and then the caches one by one *)

ListFollowers(p) ==
    /\ fan[p] = "list"
    /\ to' = [to EXCEPT ![p] = follower]
    /\ fan' = [fan EXCEPT ![p] = IF follower = {} THEN "complete" ELSE "items"]
    /\ UNCHANGED <<feed, follower, post, number, onTopic, submission, maker, item, remover, page, fetch, late, early>>

SaveChunk(p) ==
    /\ fan[p] = "items"
    /\ \E r \in {s \in to[p] : <<s, p>> \notin item} :
          /\ item' = item \cup {<<r, p>>}
          /\ fan' = IF \A s \in to[p] : <<s, p>> \in item' THEN [fan EXCEPT ![p] = "clear"] ELSE fan
    /\ UNCHANGED <<feed, follower, post, number, onTopic, submission, maker, to, remover, page, fetch, late, early>>

\* A slip: the caches are cleared before the rows are there.
ClearFirst(p) ==
    /\ fan[p] \in {"items", "clear"}
    /\ \E r \in to[p] :
          /\ Clear({r}, feed = "home" /\ fan[p] = "items")
          /\ item' = item \cup {<<r, p>>}
          /\ to' = [to EXCEPT ![p] = @ \ {r}]
          /\ fan' = [fan EXCEPT ![p] = IF to[p] = {r} THEN "complete" ELSE "clear"]
    /\ UNCHANGED <<feed, follower, post, number, onTopic, submission, maker, remover, fetch, early>>

ClearHome(p) ==
    /\ fan[p] = "clear"
    /\ \E r \in to[p] :
          /\ Clear({r}, feed = "home")
          /\ to' = [to EXCEPT ![p] = @ \ {r}]
          /\ fan' = IF to[p] = {r} THEN [fan EXCEPT ![p] = "complete"] ELSE fan
    /\ UNCHANGED <<feed, follower, post, number, onTopic, submission, maker, item, remover, fetch, early>>

FanOutFails(p) ==
    /\ FeedFaults /\ fan[p] \in {"list", "items", "clear"}
    /\ fan' = [fan EXCEPT ![p] = "failed"] /\ to' = [to EXCEPT ![p] = {}]
    /\ UNCHANGED <<feed, follower, post, number, onTopic, submission, maker, item, remover, page, fetch, late, early>>

(* deletePost: softRemove, and then only the author's user feed is cleared *)

DeletePost(p) ==
    /\ remover[p] = "none" /\ post[p] = "live"
    /\ remover' = [remover EXCEPT ![p] = "remove"]
    /\ UNCHANGED <<feed, follower, post, number, onTopic, submission, maker, fan, to, item, page, fetch, late, early>>

RemovePost(p) ==
    /\ remover[p] = "remove"
    /\ \/ post' = [post EXCEPT ![p] = "deleted"] /\ remover' = [remover EXCEPT ![p] = "clear"]
       \/ FeedFaults /\ remover' = [remover EXCEPT ![p] = "failed"] /\ UNCHANGED post
    /\ UNCHANGED <<feed, follower, number, onTopic, submission, maker, fan, to, item, page, fetch, late, early>>

ClearAfterDelete(p) ==
    /\ remover[p] = "clear"
    /\ Clear(Readers, feed = "user")
    /\ remover' = [remover EXCEPT ![p] = "returned"]
    /\ UNCHANGED <<feed, follower, post, number, onTopic, submission, maker, fan, to, item, fetch, early>>

(* getHomeFeed, getUserFeed, getTrendingPosts: the cache, the queries, setex *)

Live == {p \in Blog : post[p] = "live"}

\* A page that Redis has is answered as it is, and changes nothing.
OpenFeed(r) ==
    /\ feed \in Feeds /\ fetch[r] = NoFetch /\ page[r] = NoPage
    /\ fetch' = [fetch EXCEPT ![r].at = "miss"]
    /\ UNCHANGED <<feed, follower, post, number, onTopic, submission, maker, fan, to, item, remover, page, late, early>>

\* The home feed reads the items first.
QueryItems(r) ==
    /\ fetch[r].at = "miss" /\ feed = "home"
    /\ fetch' = [fetch EXCEPT ![r] = [@ EXCEPT !.at = "items", !.items = {p \in Blog : <<r, p>> \in item}]]
    /\ UNCHANGED <<feed, follower, post, number, onTopic, submission, maker, fan, to, item, remover, page, late, early>>

\* A slip: the page is stored without a time to live.
NeverExpires(r) ==
    /\ page[r].stored /\ fetch[r] # NoFetch
    /\ page' = [page EXCEPT ![r] = NoPage]
    /\ UNCHANGED <<feed, follower, post, number, onTopic, submission, maker, fan, to, item, remover, fetch, late, early>>

\* find(In(ids)), or the query of the feed: TypeORM leaves out what is softly deleted.
QueryPosts(r) ==
    /\ fetch[r].at = IF feed = "home" THEN "items" ELSE "miss"
    /\ fetch' = [fetch EXCEPT ![r] = [at |-> "store", items |-> {},
                                      seen |-> IF feed = "home" THEN Live \cap fetch[r].items ELSE Live]]
    /\ UNCHANGED <<feed, follower, post, number, onTopic, submission, maker, fan, to, item, remover, page, late, early>>

StorePage(r) ==
    /\ fetch[r].at = "store"
    /\ page' \in {[page EXCEPT ![r] = [stored |-> TRUE, posts |-> fetch[r].seen]]} \cup (IF FeedFaults THEN {page} ELSE {})
    /\ fetch' = [fetch EXCEPT ![r] = NoFetch]
    /\ UNCHANGED <<feed, follower, post, number, onTopic, submission, maker, fan, to, item, remover, late, early>>

\* FEED_CACHE_TTL_SECONDS.
PageExpires(r) ==
    /\ page[r] # NoPage /\ fetch[r] = NoFetch
    /\ page' = [page EXCEPT ![r] = NoPage]
    /\ late' = late \ {r}
    /\ UNCHANGED <<feed, follower, post, number, onTopic, submission, maker, fan, to, item, remover, fetch, early>>

FeedNext ==
    \/ \E p \in Blog :
          \/ CreatePost(p) \/ Consensus(p) \/ UpdateNumber(p) \/ SubmissionFails(p)
          \/ SavePost(p) \/ ClearAfterCreate(p) \/ CreateFails(p)
          \/ ListFollowers(p) \/ SaveChunk(p) \/ ClearHome(p) \/ FanOutFails(p)
          \/ DeletePost(p) \/ RemovePost(p) \/ ClearAfterDelete(p)
    \/ \E r \in Readers : OpenFeed(r) \/ QueryItems(r) \/ QueryPosts(r) \/ StorePage(r) \/ PageExpires(r)

FeedFairness ==
    \A r \in Readers : /\ WF_fvars(QueryItems(r)) /\ WF_fvars(QueryPosts(r))
                       /\ WF_fvars(StorePage(r)) /\ WF_fvars(PageExpires(r))

FeedSpec == FeedInit /\ [][FeedNext]_fvars /\ FeedFairness

--------------------------------------------------------------------------------

Shows(r, p) == p \in page[r].posts

\* A number in the index is the place of that very post on the topic, in whatever order
\* the submissions of overlapping posts are confirmed.
NumberIsItsPlace ==
    \A p \in Blog : number[p] # 0 => number[p] \in DOMAIN onTopic /\ onTopic[number[p]] = p

\* A post that was made and confirmed keeps the placeholder only when the confirmation
\* failed or overtook the insert of the row.
UnnumberedOnlyIfEarly ==
    \A p \in Blog : maker[p] = "returned" /\ submission[p] = "over" /\ number[p] = 0 => p \in early

\* A home page answered from the cache after a complete fan-out has the post, unless its
\* query overlapped with the fan-out or Redis failed.
HomeMissesOnlyIfLate ==
    \A r \in Readers, p \in Live :
        feed = "home" /\ fan[p] = "complete" /\ <<r, p>> \in item /\ page[r].stored /\ ~Shows(r, p)
        => r \in late

\* When createPost has returned, the author's feed and the trending posts have the post;
\* when deletePost has returned, the author's feed no longer has it.  But for a query that
\* overlapped with it, or a failure of Redis.
AuthorSeesOwnWrites ==
    \A r \in Readers, p \in Blog :
        page[r].stored /\ r \notin late
        => /\ feed \in {"user", "trending"} /\ maker[p] = "returned" /\ p \in Live => Shows(r, p)
           /\ feed = "user" /\ remover[p] = "returned" => ~Shows(r, p)

\* Nobody has a post in the home feed who was not a follower when it was fanned out.
HomeIsOfFollowed ==
    \A r \in Readers, p \in Blog : feed = "home" /\ Shows(r, p) => <<r, p>> \in item

\* What is shown, and under which number, however posts, fan-outs, deletions and queries
\* overlap.
FeedInv == /\ FeedTypeOK /\ NumberIsItsPlace /\ UnnumberedOnlyIfEarly
           /\ HomeMissesOnlyIfLate /\ AuthorSeesOwnWrites /\ HomeIsOfFollowed

\* A deleted post disappears from every feed, at the latest when the page expires.
DeletedDisappears ==
    \A r \in Readers, p \in Blog : post[p] = "deleted" ~> ~Shows(r, p)

\* Not kept by the code (README.md, section 3): a deleted post is in no feed when
\* deletePost has returned; the home feeds and the trending posts keep it for a minute.
DeletedIsNowhere ==
    \A r \in Readers, p \in Blog : remover[p] = "returned" /\ r \notin late => ~Shows(r, p)

================================================================================
