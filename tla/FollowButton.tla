---- MODULE FollowButton ----
(***************************************************************************)
(* The follow buttons of the web client: that of the profile page, and     *)
(* those of the rows of the discover page.  Both ask once whether the      *)
(* account is followed, both send a request for a click, and they treat    *)
(* answers and failures differently.  SocialGraphService is here its table *)
(* alone (FollowGraph has the rest).                                       *)
(***************************************************************************)
EXTENDS Integers, FiniteSets

CONSTANTS
    Clicks,        \* requests of the button
    MaxElsewhere   \* how often the account is followed or unfollowed on another page

ASSUME MaxElsewhereAssumption == MaxElsewhere \in Nat
ASSUME ClicksAssumption       == IsFiniteSet(Clicks)

VARIABLES
    page,        \* which of the two pages it is
    edge,        \* whether the row of social_follows is there
    button,      \* isFollowing, followLoading; on discover, followState[accountId]
    followers,   \* profile.stats.followers, less those of other accounts
    lookup,      \* the call of checkIsFollowing, and what it answers
    click,       \* what each request asks for, and its fate
    elsewhere,   \* requests of other pages
    misled       \* the button could not know better (history)

bvars == <<page, edge, button, followers, lookup, click, elsewhere, misled>>

Pages   == {"profile", "discover"}
NoClick == [op |-> "follow", at |-> "unsent"]
One_(b) == IF b THEN 1 ELSE 0
Sent    == {k \in Clicks : click[k].at \in {"sent", "done", "failed"}}

ButtonTypeOK ==
    /\ page \in Pages /\ edge \in BOOLEAN /\ misled \in BOOLEAN
    /\ button \in [following : BOOLEAN, busy : BOOLEAN]
    /\ followers \in 0 - Cardinality(Clicks) .. 1 + Cardinality(Clicks)
    /\ lookup \in [at : {"none", "asked", "read"}, says : BOOLEAN]
    /\ click \in [Clicks -> [op : {"follow", "unfollow"}, at : {"unsent", "sent", "done", "failed", "over"}]]
    /\ elsewhere \in 0 .. MaxElsewhere

\* Both pages mount with "Follow" and ask.
ButtonInit ==
    /\ page \in Pages /\ edge \in BOOLEAN
    /\ button = [following |-> FALSE, busy |-> FALSE]
    /\ followers = One_(edge)
    /\ lookup = [at |-> "asked", says |-> FALSE]
    /\ click = [k \in Clicks |-> NoClick]
    /\ elsewhere = 0 /\ misled = FALSE

--------------------------------------------------------------------------------

\* isFollowing on the server.
ReadEdge ==
    /\ lookup.at = "asked"
    /\ lookup' = [at |-> "read", says |-> edge]
    /\ UNCHANGED <<page, edge, button, followers, click, elsewhere, misled>>

\* The profile page takes the answer; discover only takes "yes", even while a request runs.
TakeAnswer ==
    /\ lookup.at = "read"
    /\ button' = IF page = "profile" THEN [button EXCEPT !.following = lookup.says]
                 ELSE IF lookup.says THEN [following |-> TRUE, busy |-> FALSE]
                 ELSE button
    /\ lookup' = [lookup EXCEPT !.at = "none"]
    /\ UNCHANGED <<page, edge, followers, click, elsewhere, misled>>

\* .catch: "non-critical".
LookupFails ==
    /\ lookup.at # "none"
    /\ lookup' = [lookup EXCEPT !.at = "none"]
    /\ misled' = TRUE
    /\ UNCHANGED <<page, edge, button, followers, click, elsewhere>>

\* New results of a search: discover asks again about a row that says nothing.
SearchAgain ==
    /\ page = "discover" /\ lookup.at = "none"
    /\ ~button.following /\ ~button.busy
    /\ lookup' = [at |-> "asked", says |-> FALSE]
    /\ UNCHANGED <<page, edge, button, followers, click, elsewhere, misled>>

\* handleFollow, up to its await.
Click_(k) ==
    /\ click[k].at = "unsent" /\ ~button.busy
    /\ click' = [click EXCEPT ![k] = [op |-> IF button.following THEN "unfollow" ELSE "follow", at |-> "sent"]]
    /\ button' = [button EXCEPT !.busy = TRUE]
    /\ misled' = (misled \/ lookup.at # "none")
    /\ UNCHANGED <<page, edge, followers, lookup, elsewhere>>

\* SocialGraphService refuses to do what is done already.
Serve(k) ==
    LET wanted == click[k].op = "follow" IN
    /\ click[k].at = "sent"
    /\ edge' = wanted
    /\ click' = [click EXCEPT ![k].at = IF edge = wanted THEN "failed" ELSE "done"]
    /\ UNCHANGED <<page, button, followers, lookup, elsewhere, misled>>

\* The request fails, before or (its answer lost) after the server did it.
ClickFails(k) ==
    /\ click[k].at \in {"sent", "done"}
    /\ click' = [click EXCEPT ![k].at = "failed"]
    /\ misled' = (misled \/ click[k].at = "done")
    /\ UNCHANGED <<page, edge, button, followers, lookup, elsewhere>>

\* A slip: the number of followers is left as it was loaded.
SucceedUncounted(k) ==
    /\ click[k].at = "done"
    /\ button' = [following |-> click[k].op = "follow", busy |-> FALSE]
    /\ click' = [click EXCEPT ![k].at = "over"]
    /\ UNCHANGED <<page, edge, followers, lookup, elsewhere, misled>>

Succeed(k) ==
    /\ click[k].at = "done"
    /\ button' = [following |-> click[k].op = "follow", busy |-> FALSE]
    /\ followers' = IF page = "discover" THEN followers
                    ELSE IF click[k].op = "follow" THEN followers + 1 ELSE followers - 1
    /\ click' = [click EXCEPT ![k].at = "over"]
    /\ UNCHANGED <<page, edge, lookup, elsewhere, misled>>

\* The profile page leaves the button as it is; discover forgets what the row said.
Fail(k) ==
    /\ click[k].at = "failed"
    /\ button' = [following |-> page = "profile" /\ button.following, busy |-> FALSE]
    /\ misled' = (misled \/ (page = "discover" /\ click[k].op = "unfollow"))
    /\ click' = [click EXCEPT ![k].at = "over"]
    /\ UNCHANGED <<page, edge, followers, lookup, elsewhere>>

Elsewhere ==
    /\ elsewhere < MaxElsewhere
    /\ edge' = ~edge
    /\ elsewhere' = elsewhere + 1
    /\ misled' = TRUE
    /\ UNCHANGED <<page, button, followers, lookup, click>>

ButtonNext ==
    \/ \E k \in Clicks : Click_(k) \/ Serve(k) \/ ClickFails(k) \/ Succeed(k) \/ Fail(k)
    \/ ReadEdge \/ TakeAnswer \/ LookupFails \/ SearchAgain \/ Elsewhere

ButtonSpec == ButtonInit /\ [][ButtonNext]_bvars

--------------------------------------------------------------------------------

\* When nothing is under way, a button that was never misled says whether the account is
\* followed, after any mixture of clicks, failures and searches, and the profile page
\* counts this follower once.
ButtonIsTrue ==
    Sent = {} /\ lookup.at = "none" /\ ~misled
    => /\ button.following = edge
       /\ page = "profile" => followers = One_(edge)

\* A request that reaches the server asks for a change ("already following" and "not
\* following" are never the answer), unless the button was misled: a busy button takes no
\* second click.
SentIsAChange ==
    \A k \in Clicks : click[k].at = "sent" /\ ~misled => edge # (click[k].op = "follow")

\* The button, between what it shows and what it asks for.
ButtonInv == ButtonTypeOK /\ ButtonIsTrue /\ SentIsAChange

\* Not kept by the code (README.md, section 3): "UI resets optimistic state on failure".  An
\* unfollow that failed leaves "Follow" on the row of an account that is followed.
FailureRestoresButton ==
    [][\A k \in Clicks : click[k].at = "failed" /\ click'[k].at = "over"
                         => button'.following = (click[k].op = "unfollow")]_bvars

================================================================================
