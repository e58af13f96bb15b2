---- MODULE MCAccounts ----
(* The login, the onboarding of the demo mode, the follow graph, the follow  *)
(* button and the like button do not meet: the run explores one of them      *)
(* (`part`).                                                                 *)
EXTENDS OtpLogin, KycOnboarding, FollowGraph, FollowButton, LikeButton, TLC
CONSTANTS ann, bob, h1, h2, h3, h4, t1, t2
VARIABLE part

accountVars == <<ovars_, vars, gvars, bvars, lvars, part>>

AccountsInit == /\ OtpInit /\ Init /\ GraphInit /\ ButtonInit /\ LikeInit
                /\ part \in {"login", "demo", "graph", "button", "like"}
                /\ part # "graph" => looked = "topic"
                /\ part # "button" => page = "profile" /\ ~ edge
                /\ part # "like" => others = 0
AccountsNext == \/ part = "login" /\ OtpNext /\ UNCHANGED <<vars, gvars, bvars, lvars, part>>
                \/ part = "demo" /\ Next /\ UNCHANGED <<ovars_, gvars, bvars, lvars, part>>
                \/ part = "graph" /\ GraphNext /\ UNCHANGED <<ovars_, vars, bvars, lvars, part>>
                \/ part = "button" /\ ButtonNext /\ UNCHANGED <<ovars_, vars, gvars, lvars, part>>
                \/ part = "like" /\ LikeNext /\ UNCHANGED <<ovars_, vars, gvars, bvars, part>>
AccountsSpec == AccountsInit /\ [][AccountsNext]_accountVars

\* The two buttons, between what they show and what the database has (FollowButton, LikeButton).
ButtonsInv == ButtonInv /\ HeartInv

AccountSymmetry == Permutations(Requests)
================================================================================
