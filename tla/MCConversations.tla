---- MODULE MCConversations ----
(* Groups, direct conversations, the keys of a user, broadcasts, the key of a   *)
(* chat page and its typing indicator do not meet: the run explores one of them *)
(* (`part`), and not their product.                                             *)
EXTENDS ConversationMembership, DirectConversations, DeviceKeys, Broadcasts,
        ConversationKey, TypingIndicator, TLC
CONSTANTS ann, bob, cat, c1, c2, c3, d1, d2, b1, f1, f2
VARIABLE part

allVars == <<vars, dvars, kvars, broadcastVars, keyVars, typingVars, part>>
Before  == <<b1>>

AllInit == /\ Init /\ DirectInit /\ KeysInit /\ BroadcastInit /\ KeyInit /\ TypingInit
           /\ part \in {"group", "direct", "keys", "broadcasts", "key", "typing"}
           /\ part # "keys" => made = 0
           /\ fetch[f2].at = "idle" /\ (part # "broadcasts" => subscribed = {})
           /\ part # "key" => privateKey = "none"
AllNext == \/ part = "group" /\ Next
              /\ UNCHANGED <<dvars, kvars, broadcastVars, keyVars, typingVars, part>>
           \/ part = "direct" /\ DirectNext
              /\ UNCHANGED <<vars, kvars, broadcastVars, keyVars, typingVars, part>>
           \/ part = "keys" /\ KeysNext
              /\ UNCHANGED <<vars, dvars, broadcastVars, keyVars, typingVars, part>>
           \/ part = "broadcasts" /\ BroadcastNext
              /\ UNCHANGED <<vars, dvars, kvars, keyVars, typingVars, part>>
           \/ part = "key" /\ KeyNext
              /\ UNCHANGED <<vars, dvars, kvars, broadcastVars, typingVars, part>>
           \/ part = "typing" /\ TypingNext
              /\ UNCHANGED <<vars, dvars, kvars, broadcastVars, keyVars, part>>
AllSpec == AllInit /\ [][AllNext]_allVars

\* What the pages show: of broadcasts, of the messages' key and of who is typing.
ScreensInv == BroadcastInv /\ ConversationKeyInv /\ TypingInv

Symmetry  == Permutations(Calls)
================================================================================
