---- MODULE LikeButton ----
(***************************************************************************)
(* One user's like of one post: PostsService.likePost and unlikePost, the  *)
(* counts that the feeds carry (fetchPostCounts), and the heart of PostCard*)
(* in each open tab, which is changed at once and put back on an error.    *)
(***************************************************************************)
EXTENDS Integers, FiniteSets

CONSTANTS
    Tabs,
    MaxLikes       \* bound on the rows of the user that are inserted

ASSUME MaxLikesAssumption == MaxLikes \in Nat

VARIABLES
    mine,       \* the user's row in post_likes (0: none)
    rows,       \* rows inserted so far
    others,     \* likes of others
    card,       \* liked, likes and isLikingRef of the PostCard in each tab
    request,    \* the request of each card, or of the feed it is in
    unaware      \* tabs that cannot know, for the reasons of HeartIsTrue (history)

lvars == <<mine, rows, others, card, request, unaware>>

NoCard == [open |-> FALSE, liked |-> FALSE, likes |-> 0, busy |-> FALSE, base |-> 0]
NoCall == [at |-> "none", wasLiked |-> FALSE, id |-> 0, likes |-> 0]

LikeTypeOK ==
    /\ mine \in 0 .. MaxLikes /\ rows \in 0 .. MaxLikes /\ others \in 0 .. 1
    /\ card \in [Tabs -> [open : BOOLEAN, liked : BOOLEAN, likes : -1 .. 3, busy : BOOLEAN, base : -1 .. 2]]
    /\ request \in [Tabs -> [at : {"none", "counted", "find", "write", "ok", "refused"},
                             wasLiked : BOOLEAN, id : 0 .. MaxLikes, likes : 0 .. 2]]
    /\ unaware \subseteq Tabs

LikeInit ==
    /\ mine = 0 /\ rows = 0 /\ others \in 0 .. 1
    /\ card = [t \in Tabs |-> NoCard] /\ request = [t \in Tabs |-> NoCall]
    /\ unaware = {}

--------------------------------------------------------------------------------

One(b)       == IF b THEN 1 ELSE 0
Send(t, s)   == request' = [request EXCEPT ![t].at = s]
Mounted(l, n) == [open |-> TRUE, liked |-> l, likes |-> n, busy |-> FALSE, base |-> n - One(l)]

\* getHomeFeed and getPost call toPostResponse without counts: no likes, not liked.
OpenHome(t) ==
    /\ ~card[t].open /\ request[t] = NoCall
    /\ card' = [card EXCEPT ![t] = Mounted(FALSE, 0)]
    /\ unaware' = unaware \cup {t}
    /\ UNCHANGED <<mine, rows, others, request>>

\* fetchPostCounts asks for the count and for the user's own like at the same time.
CountLikes(t) ==
    /\ ~card[t].open /\ request[t] = NoCall
    /\ request' = [request EXCEPT ![t] = [NoCall EXCEPT !.at = "counted", !.likes = others + One(mine # 0)]]
    /\ unaware' = unaware \ {t}
    /\ UNCHANGED <<mine, rows, others, card>>

OpenOther(t) ==
    /\ request[t].at = "counted"
    /\ card' = [card EXCEPT ![t] = Mounted(mine # 0, request[t].likes)]
    /\ request' = [request EXCEPT ![t] = NoCall]
    /\ UNCHANGED <<mine, rows, others, unaware>>

Close(t) ==
    /\ card[t].open /\ request[t] = NoCall
    /\ card' = [card EXCEPT ![t] = NoCard]
    /\ UNCHANGED <<mine, rows, others, request, unaware>>

OtherLikes ==
    /\ others' = 1 - others
    /\ UNCHANGED <<mine, rows, card, request, unaware>>

\* handleLikeToggle: the heart changes before the request is sent.
Click(t) ==
    /\ card[t].open /\ ~card[t].busy
    /\ card' = [card EXCEPT ![t].liked = ~@, ![t].busy = TRUE,
                            ![t].likes = @ + (IF card[t].liked THEN -1 ELSE 1)]
    /\ request' = [request EXCEPT ![t] = [NoCall EXCEPT !.at = "find", !.wasLiked = card[t].liked]]
    /\ UNCHANGED <<mine, rows, others, unaware>>

\* likePost refuses a like that exists, unlikePost one that does not.
FindLike(t) ==
    /\ request[t].at = "find"
    /\ request' = [request EXCEPT ![t].at = IF request[t].wasLiked = (mine # 0) THEN "write" ELSE "refused",
                                  ![t].id = mine]
    /\ UNCHANGED <<mine, rows, others, card, unaware>>

\* Another tab that has the heart, or is getting it, does not learn of a write.
Mislead(t) == unaware' = unaware \cup {s \in Tabs \ {t} : card[s].open \/ request[s] # NoCall}

\* UNIQUE(userId, postId) refuses a second row.
InsertLike(t) ==
    /\ request[t].at = "write" /\ ~request[t].wasLiked /\ rows < MaxLikes
    /\ IF mine # 0
       THEN Send(t, "refused") /\ UNCHANGED <<mine, rows, unaware>>
       ELSE mine' = rows + 1 /\ rows' = rows + 1 /\ Send(t, "ok") /\ Mislead(t)
    /\ UNCHANGED <<others, card>>

\* remove deletes the row that was found, by its id.
RemoveLike(t) ==
    /\ request[t].at = "write" /\ request[t].wasLiked
    /\ mine' = IF mine = request[t].id THEN 0 ELSE mine
    /\ Send(t, "ok") /\ Mislead(t)
    /\ UNCHANGED <<rows, others, card>>

Answered(t) ==
    /\ request[t].at = "ok"
    /\ request' = [request EXCEPT ![t] = NoCall]
    /\ card' = [card EXCEPT ![t].busy = FALSE]
    /\ UNCHANGED <<mine, rows, others, unaware>>

\* The request is refused, or fails before or after the server has done it: what the
\* click did is undone.
Revert(t) ==
    /\ request[t].at \in {"find", "write", "ok", "refused"}
    /\ card' = [card EXCEPT ![t].liked = request[t].wasLiked, ![t].busy = FALSE,
                            ![t].likes = @ + (IF request[t].wasLiked THEN 1 ELSE -1)]
    /\ request' = [request EXCEPT ![t] = NoCall]
    /\ unaware' = IF request[t].at = "ok" THEN unaware \cup {t} ELSE unaware
    /\ UNCHANGED <<mine, rows, others>>

LikeNext ==
    \/ OtherLikes
    \/ \E t \in Tabs : \/ OpenHome(t) \/ CountLikes(t) \/ OpenOther(t) \/ Close(t) \/ Click(t)
                       \/ FindLike(t) \/ InsertLike(t) \/ RemoveLike(t) \/ Answered(t) \/ Revert(t)

LikeSpec == LikeInit /\ [][LikeNext]_lvars

--------------------------------------------------------------------------------

\* However clicks, refusals and lost answers follow each other, the count on the card is
\* that of the others plus the heart: it never drifts by the updates that are put back.
CountFollowsHeart == \A t \in Tabs : card[t].likes - One(card[t].liked) = card[t].base

\* A heart at rest is what the database has, unless the card is in the home feed, an
\* answer was lost, or another tab has written since the page was read.
HeartIsTrue ==
    \A t \in Tabs \ unaware :
        card[t].open /\ ~card[t].busy => card[t].liked = (mine # 0)

\* The heart and the number beside it.
HeartInv == LikeTypeOK /\ CountFollowsHeart /\ HeartIsTrue

\* Not kept by the code (README.md, section 3): "Whether the current user already likes
\* this post": also in the home feed.
HomeHeartIsTrue ==
    [][\A t \in Tabs : ~card[t].open /\ card'[t].open /\ request[t] = NoCall => card'[t].liked = (mine # 0)]_lvars

================================================================================
