---- MODULE FollowGraph ----
(***************************************************************************)
(* SocialGraphService.follow and unfollow of one target: the row, the event*)
(* on the HCS topic that nothing waits for, the follower count that is     *)
(* counted again after each change, and the three kinds of answers that    *)
(* Redis keeps.  The topic and the three kinds of keys never meet, so that *)
(* a behaviour looks at one of the four (`looked`).                        *)
(***************************************************************************)
EXTENDS Naturals, Sequences, FiniteSets

CONSTANTS
    Followers,     \* accounts that may follow the target
    Watched,       \* the one whose is-following answer is looked at
    Requests,      \* executions of follow and unfollow
    GraphFaults    \* may a query, a submission or a call to Redis fail?

ASSUME WatchedAssumption == Watched \in Followers
ASSUME FollowersAssumption == IsFiniteSet(Followers)
ASSUME GraphFaultsAssumption == GraphFaults \in BOOLEAN

VARIABLES
    looked,     \* what is looked at: the topic, or one kind of answer
    row,        \* social_follows: whether the row is there, and hcsSequenceNumber
    count,      \* follower_counts.followerCount of the target
    events,     \* the social graph topic
    req,        \* what each request does, and what it has counted
    at,         \* the await it has reached
    hcs,        \* its submission
    kept,       \* the answer in Redis
    reader,     \* a reader that missed, and what it has read
    late,       \* the answer may be old: a read overlapped with a write, or Redis failed (history)
    clashed,    \* requests that overlapped with another one, or failed (history)
    crossed     \* followers two of whose submissions were under way at once, or failed (history)

gvars == <<looked, row, count, events, req, at, hcs, kept, reader, late, clashed, crossed>>

Kinds   == {"topic", "is_following", "user_stats", "followers"}
Working == {"find", "write", "count", "save", "clear"}
NoFollow == [there |-> FALSE, number |-> 0]
NoReq   == [op |-> "follow", by |-> Watched, counted |-> 0]
Event   == [op : {"follow", "unfollow"}, by : Followers, of : Requests]
Nothing == [stored |-> FALSE, who |-> {}, total |-> 0]

GraphTypeOK ==
    /\ looked \in Kinds
    /\ row \in [Followers -> [there : BOOLEAN, number : Nat]]
    /\ count \in Nat /\ events \in Seq(Event)
    /\ req \in [Requests -> [op : {"follow", "unfollow"}, by : Followers, counted : Nat]]
    /\ at \in [Requests -> Working \cup {"idle", "done"}]
    /\ hcs \in [Requests -> {"none", "flight", "confirmed", "over"}]
    /\ {kept, reader} \subseteq [stored : BOOLEAN, who : SUBSET Followers, total : Nat]
    /\ late \in BOOLEAN /\ clashed \subseteq Requests /\ crossed \subseteq Followers

GraphInit ==
    /\ looked \in Kinds
    /\ row = [f \in Followers |-> NoFollow] /\ count = 0 /\ events = <<>>
    /\ req = [q \in Requests |-> NoReq] /\ at = [q \in Requests |-> "idle"]
    /\ hcs = [q \in Requests |-> "none"]
    /\ kept = Nothing /\ reader = Nothing /\ late = FALSE
    /\ clashed = {} /\ crossed = {}

--------------------------------------------------------------------------------

Following  == {f \in Followers : row[f].there}
Busy       == {q \in Requests : at[q] \in Working}
Next_(q, s) == at' = [at EXCEPT ![q] = s]

Request(q, op, by) ==
    /\ at[q] = "idle"
    /\ req' = [req EXCEPT ![q] = [NoReq EXCEPT !.op = op, !.by = by]]
    /\ Next_(q, "find")
    /\ clashed' = IF Busy = {} THEN clashed ELSE clashed \cup Busy \cup {q}
    /\ UNCHANGED <<looked, row, count, events, hcs, kept, reader, late, crossed>>

\* AlreadyFollowingException, NotFollowingException.
Find(q) ==
    /\ at[q] = "find"
    /\ Next_(q, IF row[req[q].by].there = (req[q].op = "follow") THEN "done" ELSE "write")
    /\ UNCHANGED <<looked, row, count, events, req, hcs, kept, reader, late, clashed, crossed>>

InFlight(f) == {p \in Requests : req[p].by = f /\ hcs[p] \in {"flight", "confirmed"}}

\* The primary key is the pair: save of a second one puts the placeholder over the number that
\* is there, or throws (RequestDies).
Inserted(f) == [NoFollow EXCEPT !.there = TRUE]

\* The row of the pair is gone, and with it its number.
Removed(f) == NoFollow

\* The row is written, and the event is submitted without await.
Write(q) ==
    LET f == req[q].by follow == req[q].op = "follow" IN
    /\ at[q] = "write"
    /\ row' = [row EXCEPT ![f] = IF follow THEN Inserted(f) ELSE Removed(f)]
    /\ hcs' = [hcs EXCEPT ![q] = IF looked = "topic" THEN "flight" ELSE "over"]
    /\ crossed' = IF InFlight(f) = {} THEN crossed ELSE crossed \cup {f}
    /\ late' = (late \/ reader.stored)
    /\ Next_(q, "count")
    /\ UNCHANGED <<looked, count, events, req, kept, reader, clashed>>

Consensus(q) ==
    /\ hcs[q] = "flight"
    /\ events' = Append(events, [op |-> req[q].op, by |-> req[q].by, of |-> q])
    /\ hcs' = [hcs EXCEPT ![q] = IF req[q].op = "follow" THEN "confirmed" ELSE "over"]
    /\ UNCHANGED <<looked, row, count, req, at, kept, reader, late, clashed, crossed>>

SubmissionLost(q) ==
    /\ GraphFaults /\ hcs[q] \in {"flight", "confirmed"}
    /\ hcs' = [hcs EXCEPT ![q] = "over"]
    /\ crossed' = crossed \cup {req[q].by}
    /\ UNCHANGED <<looked, row, count, events, req, at, kept, reader, late, clashed>>

Place(q) == CHOOSE n \in DOMAIN events : events[n].of = q

\* update of the pair: whatever row is there by now.
UpdateNumber(q) ==
    LET f == req[q].by IN
    /\ hcs[q] = "confirmed"
    /\ row' = IF row[f].there THEN [row EXCEPT ![f].number = Place(q)] ELSE row
    /\ hcs' = [hcs EXCEPT ![q] = "over"]
    /\ UNCHANGED <<looked, count, events, req, at, kept, reader, late, clashed, crossed>>

(* rebuildCountsForAccount of the target; the follower's own is rebuilt beside it *)

\* A slip: an unfollow leaves the count as it is.
CountFollows(q) ==
    /\ at[q] = "count"
    /\ req' = [req EXCEPT ![q].counted = IF req[q].op = "follow" THEN Cardinality(Following) ELSE count]
    /\ Next_(q, "save")
    /\ UNCHANGED <<looked, row, count, events, hcs, kept, reader, late, clashed, crossed>>

Count(q) ==
    /\ at[q] = "count"
    /\ req' = [req EXCEPT ![q].counted = Cardinality(Following)]
    /\ Next_(q, "save")
    /\ UNCHANGED <<looked, row, count, events, hcs, kept, reader, late, clashed, crossed>>

\* A failure is logged, and the request goes on.
SaveCount(q) ==
    /\ at[q] = "save"
    /\ \/ count' = req[q].counted /\ UNCHANGED clashed
       \/ GraphFaults /\ clashed' = clashed \cup {q} /\ UNCHANGED count
    /\ late' = (late \/ reader.stored)
    /\ req' = [req EXCEPT ![q].counted = 0]
    /\ Next_(q, "clear")
    /\ UNCHANGED <<looked, row, events, hcs, kept, reader, crossed>>

\* clearFollowCache; the is-following answer that is cleared is the follower's.
ClearFollowCache(q) ==
    LET mine == looked # "is_following" \/ req[q].by = Watched IN
    /\ at[q] = "clear"
    /\ \/ kept' = (IF mine THEN Nothing ELSE kept) /\ late' = (late \/ reader.stored)
       \/ GraphFaults /\ mine /\ kept.stored /\ UNCHANGED kept /\ late' = TRUE
    /\ Next_(q, "done")
    /\ UNCHANGED <<looked, row, count, events, req, hcs, reader, clashed, crossed>>

\* The process dies, or the write throws: also that of a pair inserted since it was looked for.
RequestDies(q) ==
    /\ at[q] \in Working
    /\ GraphFaults \/ (at[q] = "write" /\ req[q].op = "follow" /\ row[req[q].by].there)
    /\ Next_(q, "done")
    /\ clashed' = clashed \cup {q}
    /\ late' = (looked # "topic")
    /\ req' = [req EXCEPT ![q].counted = 0]
    /\ UNCHANGED <<looked, row, count, events, hcs, kept, reader, crossed>>

(* isFollowing, getUserStats, getFollowers: what Redis has, or a query and setex *)

Answer       == [Nothing EXCEPT !.stored = TRUE]
IsFollowing  == [Answer EXCEPT !.who = Following \cap {Watched}]
GetUserStats == [Answer EXCEPT !.total = count]
GetFollowers == [Answer EXCEPT !.who = Following]

Truth == CASE looked = "is_following" -> IsFollowing
           [] looked = "user_stats"   -> GetUserStats
           [] looked = "followers"    -> GetFollowers
           [] OTHER                   -> Answer

Miss ==
    /\ looked # "topic" /\ ~kept.stored /\ ~reader.stored
    /\ reader' = Truth
    /\ UNCHANGED <<looked, row, count, events, req, at, hcs, kept, late, clashed, crossed>>

Keep ==
    /\ reader.stored
    /\ kept' \in {reader} \cup (IF GraphFaults THEN {kept} ELSE {})
    /\ reader' = Nothing
    /\ UNCHANGED <<looked, row, count, events, req, at, hcs, late, clashed, crossed>>

\* The time to live of the answer.
Forget ==
    /\ kept.stored /\ ~reader.stored
    /\ kept' = Nothing /\ late' = FALSE
    /\ UNCHANGED <<looked, row, count, events, req, at, hcs, reader, clashed, crossed>>

GraphNext ==
    \/ \E q \in Requests :
          \/ \E f \in Followers, op \in {"follow", "unfollow"} : Request(q, op, f)
          \/ Find(q) \/ Write(q) \/ Count(q) \/ SaveCount(q) \/ ClearFollowCache(q) \/ RequestDies(q)
          \/ Consensus(q) \/ UpdateNumber(q) \/ SubmissionLost(q)
    \/ Miss \/ Keep \/ Forget

GraphSpec == GraphInit /\ [][GraphNext]_gvars

--------------------------------------------------------------------------------

\* A rebuild that nothing overlapped with leaves the count of the rows, whatever lost or
\* swapped updates had left there.
RebuildRepairs ==
    [][\A q \in Requests : at[q] = "save" /\ at'[q] = "clear" /\ q \notin clashed'
                           => count' = Cardinality(Following')]_gvars

\* While no request is under way, an answer from Redis is what the database would answer,
\* but for a read that overlapped with a write and was stored after it.
KeptIsTrue == Busy = {} /\ kept.stored /\ ~late => kept = Truth

\* The number of a follow is that of an event in which this account follows the target,
\* however follows, unfollows and late confirmations mix.
NumberIsOfFollow ==
    \A f \in Followers :
        LET n == row[f].number IN
        n # 0 => n \in DOMAIN events /\ events[n].op = "follow" /\ events[n].by = f

EventsOf(f) == {n \in DOMAIN events : events[n].by = f}

\* The topic, "the source of truth", ends with what the table has, unless two submissions
\* of one account were under way at once or one was lost.
TopicTellsTheSame ==
    \A f \in Followers \ crossed :
        InFlight(f) = {} /\ EventsOf(f) # {}
        => row[f].there = (events[CHOOSE n \in EventsOf(f) : \A m \in EventsOf(f) : m <= n].op = "follow")

\* Counts, numbers, topic and cached answers, as far as they follow the rows.
GraphSafety == /\ [](GraphTypeOK /\ KeptIsTrue /\ NumberIsOfFollow /\ TopicTellsTheSame)
               /\ RebuildRepairs

\* Not kept by the code (README.md, section 3): the number is that of the last follow; a
\* late confirmation of an earlier one writes its own over it.
NumberIsLatest ==
    \A f \in Followers, n \in DOMAIN events :
        row[f].number # 0 /\ events[n].op = "follow" /\ events[n].by = f /\ InFlight(f) = {}
        => n <= row[f].number

================================================================================
