---- MODULE DirectConversations ----
(***************************************************************************)
(* ConversationsService.createConversation for one pair of users: look for *)
(* a conversation the two share, or else make a topic, announce the keys   *)
(* on it, and save the conversation and its members.  No constraint of the *)
(* database claims the pair.  leaveConversation ends a conversation for the*)
(* one who leaves.                                                         *)
(***************************************************************************)
EXTENDS Naturals, FiniteSets

CONSTANTS
    Pair,          \* the two users
    Creations,     \* calls of createConversation, each of which may make one conversation
    None,
    CreationFaults \* may Hedera or the database fail, and the process die?

ASSUME PairAssumption == Cardinality(Pair) = 2 /\ None \notin Creations

VARIABLES
    topics,     \* HCS topics that exist
    announced,  \* topics with a key exchange
    saved,      \* rows of conversations
    inside,     \* active members of each conversation
    stage,      \* the await each creation has reached
    found,      \* the conversation findExistingDirectConversation answered
    answer,     \* the conversation the creation returned
    crossed     \* creations that overlapped with another one (history)

dvars == <<topics, announced, saved, inside, stage, found, answer, crossed>>

Stages == {"find", "topic", "announce", "row", "members", "existing"}

DirectTypeOK ==
    /\ topics \subseteq Creations /\ announced \subseteq Creations /\ saved \subseteq Creations
    /\ inside \in [Creations -> SUBSET Pair]
    /\ stage \in [Creations -> Stages \cup {"idle", "returned", "threw"}]
    /\ found \in [Creations -> Creations \cup {None}]
    /\ answer \in [Creations -> Creations \cup {None}]
    /\ crossed \subseteq Creations

DirectInit ==
    /\ topics = {} /\ announced = {} /\ saved = {} /\ crossed = {}
    /\ inside = [c \in Creations |-> {}]
    /\ stage  = [c \in Creations |-> "idle"]
    /\ found  = [c \in Creations |-> None]
    /\ answer = [c \in Creations |-> None]

Creating  == {c \in Creations : stage[c] \in Stages}
To(c, s)  == stage' = [stage EXCEPT ![c] = s]

Begin(c) ==
    /\ stage[c] = "idle"
    /\ To(c, "find")
    /\ crossed' = IF Creating = {} THEN crossed ELSE crossed \cup Creating \cup {c}
    /\ UNCHANGED <<topics, announced, saved, inside, found, answer>>

Shared == {d \in saved : inside[d] = Pair}

\* A slip: nobody looks.
FindNothing(c) ==
    /\ stage[c] = "find"
    /\ To(c, "topic")
    /\ UNCHANGED <<topics, announced, saved, inside, found, answer, crossed>>

\* findExistingDirectConversation.
Find(c) ==
    /\ stage[c] = "find"
    /\ IF Shared = {}
       THEN To(c, "topic") /\ UNCHANGED found
       ELSE /\ To(c, "existing")
            /\ \E d \in Shared : found' = [found EXCEPT ![c] = d]
    /\ UNCHANGED <<topics, announced, saved, inside, answer, crossed>>

\* getConversation of what was found checks the membership of the initiator again.
Existing(c, by) ==
    /\ stage[c] = "existing"
    /\ IF by \in inside[found[c]]
       THEN To(c, "returned") /\ answer' = [answer EXCEPT ![c] = found[c]]
       ELSE To(c, "threw") /\ UNCHANGED answer
    /\ UNCHANGED <<topics, announced, saved, inside, found, crossed>>

\* An await either works, and the creation goes on, or throws: what it did stays.
\* The rows of the members are written together.
CreateTopic(c) ==
    /\ stage[c] = "topic"
    /\ topics' = topics \cup {c}
    /\ To(c, "announce")
    /\ UNCHANGED <<announced, saved, inside, found, answer, crossed>>

Announce(c) ==
    /\ stage[c] = "announce"
    /\ announced' = announced \cup {c}
    /\ To(c, "row")
    /\ UNCHANGED <<topics, saved, inside, found, answer, crossed>>

SaveRow(c) ==
    /\ stage[c] = "row"
    /\ saved' = saved \cup {c}
    /\ To(c, "members")
    /\ UNCHANGED <<topics, announced, inside, found, answer, crossed>>

SaveMembers(c) ==
    /\ stage[c] = "members"
    /\ inside' = [inside EXCEPT ![c] = Pair]
    /\ answer' = [answer EXCEPT ![c] = c]
    /\ To(c, "returned")
    /\ UNCHANGED <<topics, announced, saved, found, crossed>>

Throw(c) ==
    /\ CreationFaults
    /\ stage[c] \in Stages
    /\ To(c, "threw")
    /\ UNCHANGED <<topics, announced, saved, inside, found, answer, crossed>>

Leave(d, u) ==
    /\ u \in inside[d]
    /\ inside' = [inside EXCEPT ![d] = @ \ {u}]
    /\ UNCHANGED <<topics, announced, saved, stage, found, answer, crossed>>

DirectNext ==
    \/ \E c \in Creations : \/ Begin(c) \/ Find(c) \/ CreateTopic(c) \/ Announce(c)
                            \/ SaveRow(c) \/ SaveMembers(c) \/ Throw(c)
                            \/ \E u \in Pair : Existing(c, u)
    \/ \E d \in saved, u \in Pair : Leave(d, u)

DirectSpec == DirectInit /\ [][DirectNext]_dvars

--------------------------------------------------------------------------------

\* "check no existing conversation between these 2 users": a second conversation of
\* the pair comes only from two creations that overlapped, whatever failed before.
SecondOnlyFromOverlap ==
    [][\A c \in Creations :
          Shared # {} /\ inside[c] # Pair /\ inside'[c] = Pair => c \in crossed]_dvars

\* A conversation that anybody can find or was told of is complete: its topic exists
\* and carries the keys.  What a creation that failed has left behind is never found.
FoundIsComplete ==
    \A c, d \in Creations : d \in {found[c], answer[c]} => d \in saved \cap announced \cap topics

\* One conversation of a pair, and a complete one.
DirectSafety == [](DirectTypeOK /\ FoundIsComplete) /\ SecondOnlyFromOverlap

\* Not kept by the code (README.md, section 3): the same without the excuse.
OneDirect == Cardinality(Shared) <= 1

================================================================================
