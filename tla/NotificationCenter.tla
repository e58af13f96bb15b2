--------------------------- MODULE NotificationCenter ---------------------------
(***************************************************************************)
(* The notifications of one account: the rows that likes, follows and      *)
(* messages leave, the queries and updates of NotificationsService, and    *)
(* the notification store of the client behind the badge of AppLayout and  *)
(* the notifications page.  The audit trail is left out: nothing reads it. *)
(*                                                                         *)
(* The store also listens to 'notification' events of a namespace          *)
(* /notifications, which the API does not have (it sends                   *)
(* 'server_notification' on /chat): addNotification is never called.       *)
(***************************************************************************)
EXTENDS Naturals, Sequences, FiniteSets
LOCAL INSTANCE SequencesExt

CONSTANTS
    Refreshes,     \* calls of fetchNotifications that may be under way at once
    Marks,         \* calls of markAsRead and markAllAsRead that may be under way at once
    MaxNotices,    \* bound on the notifications that are made
    Chosen,        \* categories that are chosen: a bound
    Limit          \* notifications in an answer (50)

ASSUME NoticesAssumption == MaxNotices \in Nat /\ Limit \in Nat \ {0}

VARIABLES
    notices,       \* notifications, in the order of createdAt: category, isRead
    notifications, \* of the store, newest first: which, and whether it is shown as read
    unreadCount, activeCategory, isLoading,
    refresh,       \* fetchNotifications: at, filter, answer, plain: asked by AppLayout,
                   \* late: overtaken by a later one, repairs: asked
                   \* because a marking failed (both history)
    queue,         \* the refreshes under way in the order they were asked (history)
    mark,          \* markAsRead, markAllAsRead: at, ids
    excused,       \* what is shown was late, or asked by AppLayout, or the last refresh failed (history)
    unrepaired     \* the refresh after a failed marking failed as well (history)

noticeVars == <<notices, notifications, unreadCount, activeCategory, isLoading, refresh, queue,
                mark, excused, unrepaired>>

NoticeKinds == {"message", "social"}   \* a payment or a system notification is never sent
Filters     == NoticeKinds \cup {"all"}
Notices     == 1 .. MaxNotices
Items       == [id : Notices, read : BOOLEAN]
NoRefresh   == [at |-> "idle", filter |-> "all", answer |-> << >>, plain |-> FALSE, late |-> FALSE,
                repairs |-> FALSE]
NoMark      == [at |-> "idle", ids |-> {}]

ASSUME ChosenAssumption == Chosen \subseteq Filters

NoticesTypeOK ==
    /\ notices \in Seq([category : NoticeKinds, read : BOOLEAN]) /\ Len(notices) <= MaxNotices
    /\ notifications \in Seq(Items)
    /\ unreadCount \in Nat /\ activeCategory \in Filters /\ {isLoading, excused, unrepaired} \subseteq BOOLEAN
    /\ refresh \in [Refreshes -> [at : {"idle", "asked", "answered", "failed"}, filter : Filters,
                                  answer : Seq(Items), plain : BOOLEAN, late : BOOLEAN,
                                  repairs : BOOLEAN]]
    /\ queue \in Seq(Refreshes)
    /\ mark \in [Marks -> [at : {"idle", "one", "all", "failed"}, ids : SUBSET Notices]]

NoticesInit ==
    /\ notices = << >>
    /\ notifications = << >> /\ unreadCount = 0 /\ activeCategory = "all" /\ isLoading = FALSE
    /\ refresh = [f \in Refreshes |-> NoRefresh] /\ queue = << >> /\ mark = [k \in Marks |-> NoMark]
    /\ excused = FALSE /\ unrepaired = FALSE

display == <<notifications, unreadCount, activeCategory, isLoading>>
pending == <<refresh, queue, mark, excused, unrepaired>>

--------------------------------------------------------------------------------
(* NotificationsService *)

\* Nobody waits for it; a notification that cannot be saved is only logged.
SendNotification(category) ==
    /\ Len(notices) < MaxNotices
    /\ notices' = Append(notices, [category |-> category, read |-> FALSE])
    /\ UNCHANGED <<display, pending>>

NotifyNewMessage  == SendNotification("message")   \* at the end of sendMessage, to those who have not left
NotifyPostLiked   == SendNotification("social")    \* likePost, of a post of somebody else
NotifyNewFollower == SendNotification("social")    \* follow

\* getNotifications: newest first, without a cursor.
Newest(filter) ==
    LET all   == SelectSeq(Reverse([n \in 1 .. Len(notices) |-> n]),
                           LAMBDA n : filter = "all" \/ notices[n].category = filter)
        items == SubSeq(all, 1, IF Len(all) < Limit THEN Len(all) ELSE Limit)
    IN  [i \in 1 .. Len(items) |-> [id |-> items[i], read |-> notices[items[i]].read]]

GetNotifications(f) ==
    /\ refresh[f].at = "asked"
    /\ \/ refresh' = [refresh EXCEPT ![f].at = "answered", ![f].answer = Newest(refresh[f].filter),
                                      ![f].filter = "all"]
       \/ refresh' = [refresh EXCEPT ![f].at = "failed"]
    /\ UNCHANGED <<notices, display, queue, mark, excused, unrepaired>>

\* markAsRead of the service, and markAllAsRead: all that there are by now, shown or not.
\* The call may fail, or its answer be lost.
Marked(k) == IF mark[k].at = "all" THEN DOMAIN notices ELSE mark[k].ids
MarkOnServer(k) ==
    /\ mark[k].at \in {"one", "all"}
    /\ \/ mark' = [mark EXCEPT ![k] = NoMark]
       \/ mark' = [mark EXCEPT ![k].at = "failed"]
    /\ \/ notices' = [n \in DOMAIN notices |-> [notices[n] EXCEPT !.read = @ \/ n \in Marked(k)]]
       \/ mark'[k].at = "failed" /\ UNCHANGED notices
    /\ UNCHANGED <<display, refresh, queue, excused, unrepaired>>

--------------------------------------------------------------------------------
(* The notification store *)

\* fetchNotifications: the first of these refreshes that is free is asked before the others.
Asked(r, f, filter, plain, repairs) ==
    [r EXCEPT ![f] = [NoRefresh EXCEPT !.at = "asked", !.filter = filter, !.plain = plain, !.repairs = repairs]]
Free == {f \in Refreshes : refresh[f].at = "idle"}

\* AppLayout, whenever the user of the auth store is another object; it asks for all.
FetchForLayout(f) ==
    /\ f \in Free
    /\ refresh' = Asked(refresh, f, "all", TRUE, FALSE) /\ queue' = Append(queue, f)
    /\ isLoading' = TRUE
    /\ UNCHANGED <<notices, notifications, unreadCount, activeCategory, mark, excused, unrepaired>>

\* The effect of the notifications page, when it opens.
FetchForPage(f) ==
    /\ f \in Free
    /\ refresh' = Asked(refresh, f, activeCategory, FALSE, FALSE) /\ queue' = Append(queue, f)
    /\ isLoading' = TRUE
    /\ UNCHANGED <<notices, notifications, unreadCount, activeCategory, mark, excused, unrepaired>>

\* setActiveCategory asks, and the effect of the page asks again when the category is new.
SetActiveCategory(f, g, category) ==
    /\ {f, g} \subseteq Free
    /\ (f = g) <=> (category = activeCategory)
    /\ activeCategory' = category
    /\ refresh' = Asked(Asked(refresh, f, category, FALSE, FALSE), g, category, FALSE, FALSE)
    /\ queue' = IF f = g THEN Append(queue, f) ELSE queue \o <<f, g>>
    /\ isLoading' = TRUE
    /\ UNCHANGED <<notices, notifications, unreadCount, mark, excused, unrepaired>>

Unread(list) == Cardinality({i \in DOMAIN list : ~list[i].read})

\* The refreshes that were asked before f are late from now on.
Overtaken(f) == {queue[i] : i \in {j \in DOMAIN queue : \E h \in DOMAIN queue : j < h /\ queue[h] = f}}
Done(f) ==
    /\ refresh' = [g \in Refreshes |-> IF g = f THEN NoRefresh
                                       ELSE [refresh[g] EXCEPT !.late = @ \/ g \in Overtaken(f)]]
    /\ queue' = SelectSeq(queue, LAMBDA g : g # f)

\* Whatever was asked later, the list and the number are replaced.
TakeAnswer(f) ==
    /\ refresh[f].at = "answered"
    /\ notifications' = refresh[f].answer
    /\ unreadCount' = Unread(refresh[f].answer)
    /\ isLoading' = FALSE
    /\ excused' = (refresh[f].late \/ refresh[f].plain)
    /\ Done(f)
    /\ UNCHANGED <<notices, activeCategory, mark, unrepaired>>

RefreshFails(f) ==
    /\ refresh[f].at = "failed"
    /\ isLoading' = FALSE
    /\ excused' = (excused \/ ~refresh[f].late)
    /\ unrepaired' = (unrepaired \/ refresh[f].repairs)
    /\ Done(f)
    /\ UNCHANGED <<notices, notifications, unreadCount, activeCategory, mark>>

\* handleClick of NotificationItem: only what is shown, and shown as unread, is marked.
MarkAsRead(k, i) ==
    /\ mark[k].at = "idle" /\ ~isLoading
    /\ i \in DOMAIN notifications /\ ~notifications[i].read
    /\ notifications' = [notifications EXCEPT ![i].read = TRUE]
    /\ unreadCount' = IF unreadCount > 1 THEN unreadCount - 1 ELSE 0
    /\ mark' = [mark EXCEPT ![k] = [at |-> "one", ids |-> {notifications[i].id}]]
    /\ UNCHANGED <<notices, activeCategory, isLoading, refresh, queue, excused, unrepaired>>

\* "Mark all read", which is there while the number is not 0.
MarkAllAsRead(k) ==
    /\ mark[k].at = "idle" /\ unreadCount > 0
    /\ notifications' = [i \in DOMAIN notifications |-> [notifications[i] EXCEPT !.read = TRUE]]
    /\ unreadCount' = 0
    /\ mark' = [mark EXCEPT ![k] = [at |-> "all", ids |-> {notifications[i].id : i \in DOMAIN notifications}]]
    /\ UNCHANGED <<notices, activeCategory, isLoading, refresh, queue, excused, unrepaired>>

\* A slip: the failure is shown and nothing is fetched again.
FailureIsOnlyShown(k, f) ==
    /\ mark[k].at = "failed" /\ f \in Free
    /\ mark' = [mark EXCEPT ![k] = NoMark]
    /\ UNCHANGED <<notices, display, refresh, queue, excused, unrepaired>>

\* The optimistic marks are taken back by fetching the list again.
MarkFails(k, f) ==
    /\ mark[k].at = "failed" /\ f \in Free
    /\ mark' = [mark EXCEPT ![k] = NoMark]
    /\ refresh' = Asked(refresh, f, activeCategory, FALSE, TRUE) /\ queue' = Append(queue, f)
    /\ isLoading' = TRUE
    /\ UNCHANGED <<notices, notifications, unreadCount, activeCategory, excused, unrepaired>>

NoticesNext ==
    \/ NotifyNewMessage \/ NotifyPostLiked \/ NotifyNewFollower
    \/ \E f \in Refreshes : \/ GetNotifications(f) \/ TakeAnswer(f) \/ RefreshFails(f)
                            \/ FetchForLayout(f) \/ FetchForPage(f)
                            \/ \E g \in Refreshes, c \in Chosen : SetActiveCategory(f, g, c)
    \/ \E k \in Marks : \/ MarkOnServer(k) \/ MarkAllAsRead(k)
                        \/ \E i \in Notices : MarkAsRead(k, i)
                        \/ \E f \in Refreshes : MarkFails(k, f)

NoticesSpec == NoticesInit /\ [][NoticesNext]_noticeVars

--------------------------------------------------------------------------------
\* The badge is the number of the notifications that are shown as unread, although clicks
\* count it down and answers replace it in any order (markAsRead, fetchNotifications).
BadgeIsOfTheList == unreadCount = Unread(notifications)

\* What is shown as read is read in the database, or its marking or the refresh after a
\* failed marking is under way, or that refresh failed as well.
ReadIsKept ==
    \A i \in DOMAIN notifications :
        notifications[i].read =>
            LET n == notifications[i].id IN
            \/ notices[n].read \/ unrepaired
            \/ \E k \in Marks : n \in mark[k].ids
            \/ \E f \in Refreshes : refresh[f].repairs

\* When nothing is under way the list is of the active category, unless its answer came
\* late, the last refresh failed or AppLayout asked last (setActiveCategory).
ListIsOfCategory ==
    queue = << >> /\ ~excused /\ activeCategory # "all" =>
        \A i \in DOMAIN notifications : notices[notifications[i].id].category = activeCategory

NoticesInv == NoticesTypeOK /\ BadgeIsOfTheList /\ ReadIsKept /\ ListIsOfCategory

\* Not kept by the code (README.md, section 3): a notification is shown in the end.
NotificationArrives == \A n \in Notices :
    (n \in DOMAIN notices /\ activeCategory = "all") ~> \E i \in DOMAIN notifications : notifications[i].id = n

\* Not kept by the code (README.md, section 3): the badge is the number of unread
\* notifications; with a category chosen it is of that category, and it is never renewed.
BadgeIsTrue == queue = << >> => unreadCount = Cardinality({n \in DOMAIN notices : ~notices[n].read})

\* Not kept by the code (README.md, section 3): with nothing under way, the list is of the
\* category that is highlighted.
ListIsOfHighlighted ==
    queue = << >> => \A i \in DOMAIN notifications :
        activeCategory \in {"all", notices[notifications[i].id].category}

================================================================================
