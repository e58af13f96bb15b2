---- MODULE CommentList ----
(***************************************************************************)
(* The comments of one post: PostsService.createComment, getComments and   *)
(* deleteComment, and the list of PostCard, which loads them page by page  *)
(* and appends its own.  `createdAt` is finer in the database than in the  *)
(* cursor, which went through a JavaScript Date: Precision units of the    *)
(* database are a millisecond.                                             *)
(***************************************************************************)
EXTENDS Naturals, Sequences, FiniteSets

CONSTANTS
    MaxComments,   \* bound on the comments that are made
    PageSize,      \* COMMENTS_PAGE_SIZE
    Precision,
    Loads          \* loads that may be under way at once

ASSUME CommentsAssumption == MaxComments \in Nat /\ PageSize \in Nat \ {0} /\ Precision \in Nat \ {0}

VARIABLES
    made,       \* post_comments: createdAt of each, in the order they were made, and committed
    own,        \* those made on this card
    deleted,    \* those softly deleted
    comments,   \* PostCard: comments
    loaded,     \* commentsLoaded
    cursor,     \* commentsCursor (0: none); commentsHasMore says the same
    loading,    \* isLoadingComments
    shown,      \* showComments
    load,       \* the calls of loadComments
    posting,    \* handleSubmitComment: none, sent, or the comment it is told of
    forgotten,  \* own comments that a late first page replaced (history)
    doubled     \* two loads were under way at once (history)

cvars == <<made, own, deleted, comments, loaded, cursor, loading, shown, load, posting, forgotten, doubled>>

Ids     == 1 .. Len(made)
MaxTime == Precision * MaxComments
NoLoad  == [at |-> "none", after |-> 0, page |-> <<>>, next |-> 0]

CommentsTypeOK ==
    /\ made \in Seq(1 .. MaxTime) /\ own \subseteq Ids /\ deleted \subseteq Ids
    /\ comments \in Seq(Ids) /\ loaded \in BOOLEAN /\ loading \in BOOLEAN /\ shown \in BOOLEAN
    /\ cursor \in 0 .. MaxTime
    /\ load \in [Loads -> [at : {"none", "sent", "answered"}, after : 0 .. MaxTime,
                           page : UNION {[1 .. n -> Ids] : n \in 0 .. PageSize}, next : 0 .. MaxTime]]
    /\ posting \in 0 .. MaxComments + 1 /\ forgotten \subseteq own /\ doubled \in BOOLEAN

CommentsInit ==
    /\ made = <<>> /\ own = {} /\ deleted = {} /\ forgotten = {}
    /\ comments = <<>> /\ loaded = FALSE /\ cursor = 0 /\ loading = FALSE /\ shown = FALSE
    /\ load = [l \in Loads |-> NoLoad] /\ posting = 0 /\ doubled = FALSE

--------------------------------------------------------------------------------

Waiting == MaxComments + 1
Listed  == {comments[i] : i \in DOMAIN comments}
Insert(t) == made' = Append(made, t)
Last      == IF made = <<>> THEN 0 ELSE made[Len(made)]
NextTimes == Last + 1 .. Last + Precision
InMs(t)   == t - (t % Precision)

(* The server *)

OtherComments ==
    /\ Len(made) < MaxComments
    /\ \E t \in NextTimes : Insert(t)
    /\ UNCHANGED <<own, deleted, comments, loaded, cursor, loading, shown, load, posting, forgotten, doubled>>

\* createComment; when the topic refuses the comment, it is only in the database.
CreateComment ==
    /\ posting = Waiting /\ Len(made) < MaxComments
    /\ \E t \in NextTimes : Insert(t)
    /\ posting' = Len(made) + 1 /\ own' = own \cup {Len(made) + 1}
    /\ UNCHANGED <<deleted, comments, loaded, cursor, loading, shown, load, forgotten, doubled>>

After(t)   == {i \in Ids \ deleted : made[i] > t}
First(S)   == SelectSeq([i \in Ids |-> i], LAMBDA i : i \in S /\ Cardinality({j \in S : j < i}) < PageSize)

\* A slip: the cursor is rounded up.
RoundUp(l) ==
    LET S == After(load[l].after) p == First(S) IN
    /\ load[l].at = "sent"
    /\ load' = [load EXCEPT ![l] = [@ EXCEPT !.at = "answered", !.page = p,
                   !.next = IF Cardinality(S) > PageSize THEN InMs(made[p[Len(p)]]) + Precision - 1 ELSE 0]]
    /\ UNCHANGED <<made, own, deleted, comments, loaded, cursor, loading, shown, posting, forgotten, doubled>>

\* getComments: createdAt > cursor, one row more than the page to know of the next.
GetComments(l) ==
    LET S == After(load[l].after) p == First(S) IN
    /\ load[l].at = "sent"
    /\ load' = [load EXCEPT ![l] = [@ EXCEPT !.at = "answered", !.page = p,
                   !.next = IF Cardinality(S) > PageSize THEN InMs(made[p[Len(p)]]) ELSE 0]]
    /\ UNCHANGED <<made, own, deleted, comments, loaded, cursor, loading, shown, posting, forgotten, doubled>>

(* The card *)

Start(after) ==
    /\ loading' = TRUE
    /\ doubled' = (doubled \/ \E l \in Loads : load[l] # NoLoad)
    /\ \E l \in Loads : load[l] = NoLoad /\ load' = [load EXCEPT ![l] = [NoLoad EXCEPT !.at = "sent", !.after = after]]

\* handleToggleComments: the first page, each time the list is opened until it is there.
Toggle ==
    /\ shown' = ~shown
    /\ IF shown' /\ ~loaded THEN Start(0) ELSE UNCHANGED <<load, loading, doubled>>
    /\ UNCHANGED <<made, own, deleted, comments, loaded, cursor, posting, forgotten>>

LoadMore ==
    /\ cursor # 0 /\ ~loading /\ Start(cursor)
    /\ UNCHANGED <<made, own, deleted, comments, loaded, cursor, shown, posting, forgotten>>

Received(l) ==
    LET r == load[l] IN
    /\ r.at = "answered"
    /\ comments' = IF r.after = 0 THEN r.page ELSE comments \o r.page
    /\ forgotten' = IF r.after = 0 THEN forgotten \cup ((own \cap Listed) \ {r.page[i] : i \in DOMAIN r.page})
                    ELSE forgotten
    /\ cursor' = r.next /\ loaded' = TRUE /\ loading' = FALSE
    /\ load' = [load EXCEPT ![l] = NoLoad]
    /\ UNCHANGED <<made, own, deleted, shown, posting, doubled>>

LoadFails(l) ==
    /\ load[l].at # "none"
    /\ loading' = FALSE
    /\ load' = [load EXCEPT ![l] = NoLoad]
    /\ UNCHANGED <<made, own, deleted, comments, loaded, cursor, shown, posting, forgotten, doubled>>

Submit ==
    /\ shown /\ posting = 0 /\ Len(made) < MaxComments
    /\ posting' = Waiting
    /\ UNCHANGED <<made, own, deleted, comments, loaded, cursor, loading, shown, load, forgotten, doubled>>

Created ==
    /\ posting \in 1 .. MaxComments
    /\ comments' = Append(comments, posting) /\ posting' = 0
    /\ UNCHANGED <<made, own, deleted, loaded, cursor, loading, shown, load, forgotten, doubled>>

\* The answer is lost, or the comment was not made.
SubmitFails ==
    /\ posting # 0
    /\ posting' = 0
    /\ forgotten' = IF posting = Waiting THEN forgotten ELSE forgotten \cup {posting}
    /\ UNCHANGED <<made, own, deleted, comments, loaded, cursor, loading, shown, load, doubled>>

\* deleteComment and the filter of the list; who made it may also do so elsewhere.
DeleteHere(c) ==
    /\ c \in Listed \ deleted
    /\ deleted' = deleted \cup {c}
    /\ comments' = SelectSeq(comments, LAMBDA i : i # c)
    /\ UNCHANGED <<made, own, loaded, cursor, loading, shown, load, posting, forgotten, doubled>>

DeleteElsewhere(c) ==
    /\ c \in Ids \ deleted
    /\ deleted' = deleted \cup {c}
    /\ UNCHANGED <<made, own, comments, loaded, cursor, loading, shown, load, posting, forgotten, doubled>>

CommentsNext ==
    \/ OtherComments \/ CreateComment \/ Toggle \/ LoadMore \/ Submit \/ Created \/ SubmitFails
    \/ \E l \in Loads : GetComments(l) \/ Received(l) \/ LoadFails(l)
    \/ \E c \in Ids : DeleteHere(c) \/ DeleteElsewhere(c)

CommentsSpec == CommentsInit /\ [][CommentsNext]_cvars

--------------------------------------------------------------------------------

\* Paging skips nobody's comment: what is not deleted and not later than the page the
\* card has come to is on the card, however a load overlaps with deletions and own
\* comments.  Opening the list twice before the first page is there spoils it.
NoneSkipped ==
    ~doubled => \A i \in Ids \ deleted : cursor # 0 /\ InMs(made[i]) < cursor => i \in Listed

\* A comment made on the card stays on it until it is deleted, but for a first page that
\* was asked for earlier and comes later, or an answer that is lost.
OwnCommentStays ==
    \A i \in own \ deleted : i \in Listed \/ i \in forgotten \/ posting = i

\* What a card that is paged, written to and deleted from lists.
CommentsInv == CommentsTypeOK /\ NoneSkipped /\ OwnCommentStays

Twice(i) == Cardinality({k \in DOMAIN comments : comments[k] = i}) > 1

\* Not kept by the code (README.md, section 3): every comment is shown once.
ShownOnce == \A i \in Ids : ~Twice(i)

================================================================================
