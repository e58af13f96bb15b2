---- MODULE MCMessages ----
(* The index of a topic, the page that shows the messages of two topics, and    *)
(* the form of a profile do not meet in this run, which explores one of them    *)
(* (`part`): the page has an index of its own, without the placeholders'        *)
(* details.  What a reader has read stays as it is here, since nothing looks at *)
(* it (but see the run messages_live).  The index is explored without payments, *)
(* and with one while only one message is sent and runs of the job do not       *)
(* overlap ("paid"); the form while no save is under way ("hint"), and otherwise*)
(* with one of its fields left empty.                                           *)
EXTENDS MessageIndex, ChatScreen, ProfileForm, TLC
VARIABLE part

Saving   == {"bio", "handle"}
Indexing == {"index", "paid"}

MessagesInit == /\ Init /\ ScreenInit /\ ProfileInit
                /\ part \in {"index", "paid", "screen", "hint", "bio", "handle"}
                /\ part \notin Indexing => \A r, s \in Sends : send[r] = send[s]
                /\ part \notin {"hint", "handle"} => account.handle = NoHandle /\ rivalHandle = NoHandle
MessagesNext == \/ /\ part \in Indexing
                   /\ Next /\ UNCHANGED <<lastRead, screenVars, pvars, part>>
                   /\ part = "index" => \A n \in DOMAIN topic' : ~IsPayment(n)'
                   /\ part = "paid" => /\ \A r, s \in Sends : "idle" \in {pc'[r], pc'[s]} \/ r = s
                                       /\ \A p, q \in Passes : NoPass \in {pass'[p], pass'[q]} \/ p = q
                \/ part = "screen" /\ ScreenNext /\ UNCHANGED <<vars, pvars, part>>
                \/ /\ part \in Saving \cup {"hint"}
                   /\ ProfileNext /\ UNCHANGED <<vars, screenVars, part>>
                   /\ part = "hint" => update' = update /\ session' = session
                   /\ part \in Saving => check' = check
                   /\ part = "bio" => fields'.text = NoHandle
                   /\ part = "handle" => fields'.bio = NoText
MessagesSpec == MessagesInit /\ [][MessagesNext]_<<vars, screenVars, pvars, part>>

\* The index, and what the page makes of it (MessageIndex, ChatScreen); the profile form.
MessagesInv == IndexIsTrue /\ ChatScreenInv /\ ProfileFormInv

Symmetry == Permutations(Sends) \cup Permutations(Users) \cup Permutations(Passes)
================================================================================
