---- MODULE SplitPayment ----
(* A split payment: the modal in which its draft is made                     *)
(* (components/payments/SplitPaymentModal.tsx), the store that sends it      *)
(* (stores/payment.store.ts) and createSplitPayment (payments.service.ts),   *)
(* which makes one payment request after the other.  Amounts are in cents.   *)
EXTENDS Integers, FiniteSets, FiniteSetsExt

CONSTANTS Participants,  \* accounts that can be asked
          Totals,        \* totals that are entered, in cents
          Amounts,       \* custom amounts that are entered, in cents
          MaxAsked,      \* bound: how often one draft is confirmed
          SplitFaults    \* requests can get lost and saves can fail

ASSUME SplitAssumption == /\ Totals \subseteq Nat \ {0} /\ Amounts \subseteq Nat /\ MaxAsked \in Nat
                          /\ SplitFaults \in BOOLEAN

VARIABLES draft,    \* total (0: none), method, who takes part, custom amounts
          step,     \* the step of the modal
          success,  \* the modal says "Split Created"
          sending,  \* isSending of the store: the stage of its call, or "no"
          body,     \* what the call under way asks for
          left,     \* the participants for whom no request is made yet
          made,     \* how many requests each participant got for this draft
          told,     \* the amount that the last of them asks for (0: none)
          failed,   \* a call for this draft failed
          moved     \* the draft was changed, or closed, since the call under way, or done, began

plvars == <<draft, step, success, sending, body, left, told, made, failed, moved>>

Blank    == [total |-> 0, method |-> "equal", who |-> {}, custom |-> [p \in Participants |-> 0]]
NoneYet  == [p \in Participants |-> 0]

SplitTypeOK ==
    /\ {draft, body} \subseteq
           [total : Totals \cup {0}, method : {"equal", "custom"},
            who : SUBSET Participants, custom : [Participants -> Amounts \cup {0}]]
    /\ step \in {"input", "confirm"} /\ success \in BOOLEAN
    /\ sending \in {"no", "asked", "creating", "ok", "error"}
    /\ left \subseteq Participants
    /\ told \in [Participants -> Nat] /\ made \in [Participants -> Nat]
    /\ failed \in BOOLEAN /\ moved \in BOOLEAN

SplitInit ==
    /\ draft = Blank /\ step = "input" /\ success = FALSE
    /\ sending = "no" /\ body = Blank /\ left = {}
    /\ told = NoneYet /\ made = NoneYet /\ failed = FALSE /\ moved = FALSE

--------------------------------------------------------------------------------
(* The draft *)

\* Math.round((total / n) * 100) / 100
EqualShare(total, n) == IF n = 0 THEN 0 ELSE ((2 * total) + n) \div (2 * n)

\* What the confirmation shows beside a participant.
Shown(d, p) == IF d.method = "equal" THEN EqualShare(d.total, Cardinality(d.who)) ELSE d.custom[p]
Sum(f, S)   == MapThenSumSet(LAMBDA p : f[p], S)
Distance(a, b) == IF a > b THEN a - b ELSE b - a

\* A draft that has changed is another one: nothing is made for it yet.
Becomes(d) ==
    /\ step = "input" /\ ~ success
    /\ draft' = d
    /\ made' = NoneYet /\ told' = NoneYet /\ failed' = FALSE /\ moved' = (sending # "no")
    /\ UNCHANGED <<step, success, sending, body, left>>

EnterTotal(t)           == draft.total # t /\ Becomes([draft EXCEPT !.total = t])
ChooseMethod(m)         == draft.method # m /\ Becomes([draft EXCEPT !.method = m])
AddParticipant(p)       == p \notin draft.who /\ Becomes([draft EXCEPT !.who = @ \cup {p}])
\* The amount that was entered goes with the participant.
RemoveParticipant(p) ==
    p \in draft.who /\ Becomes([draft EXCEPT !.who = @ \ {p}, !.custom[p] = 0])
CustomAmountChange(p, a) ==
    /\ p \in draft.who /\ draft.method = "custom" /\ draft.custom[p] # a
    /\ Becomes([draft EXCEPT !.custom[p] = a])

Review ==
    /\ step = "input" /\ ~ success
    /\ draft.total > 0 /\ draft.who # {} /\ sending = "no"
    /\ draft.method = "custom" => Distance(Sum(draft.custom, draft.who), draft.total) <= 1
    /\ step' = "confirm"
    /\ UNCHANGED <<draft, success, sending, body, left, told, made, failed, moved>>

Back ==
    /\ step = "confirm" /\ ~ success
    /\ step' = "input"
    /\ UNCHANGED <<draft, success, sending, body, left, told, made, failed, moved>>

\* handleClose; the call goes on.
Close ==
    /\ draft' = Blank /\ step' = "input" /\ success' = FALSE
    /\ made' = NoneYet /\ told' = NoneYet /\ failed' = FALSE /\ moved' = (sending # "no")
    /\ UNCHANGED <<sending, body, left>>

\* A slip: the button is not disabled while the store is sending.
ConfirmAgain ==
    /\ step = "confirm" /\ ~ success /\ sending \in {"no", "creating"}
    /\ \A p \in Participants : made[p] < MaxAsked
    /\ sending' = "asked"
    /\ body' = draft
    /\ moved' = FALSE
    /\ UNCHANGED <<draft, step, success, left, told, made, failed>>

\* handleConfirm: the button is disabled while the store is sending.
Confirm ==
    /\ step = "confirm" /\ ~ success /\ sending = "no"
    /\ \A p \in Participants : made[p] < MaxAsked
    /\ sending' = "asked"
    /\ body' = draft
    /\ moved' = FALSE
    /\ UNCHANGED <<draft, step, success, left, told, made, failed>>

--------------------------------------------------------------------------------
(* createSplitPayment: all amounts are computed and checked, then the requests are made *)

\* Only amounts above zero are in the map of custom amounts.
Asks(b, p) ==
    IF b.method = "equal" THEN ((2 * b.total) + Cardinality(b.who)) \div (2 * Cardinality(b.who))
    ELSE b.custom[p]

Price ==
    /\ sending = "asked"
    /\ IF \A p \in body.who : Asks(body, p) > 0
       THEN sending' = "creating" /\ left' = body.who
       ELSE sending' = "error" /\ UNCHANGED left
    /\ UNCHANGED <<draft, step, success, body, told, made, failed, moved>>

CreateRequest(p) ==
    /\ sending = "creating" /\ p \in left
    /\ left' = left \ {p}
    /\ told' = (IF moved THEN told ELSE [told EXCEPT ![p] = Asks(body, p)])
    /\ made' = (IF moved THEN made ELSE [made EXCEPT ![p] = @ + 1])
    /\ UNCHANGED <<draft, step, success, sending, body, failed, moved>>

AllCreated ==
    /\ sending = "creating" /\ left = {}
    /\ sending' = "ok"
    /\ UNCHANGED <<draft, step, success, body, left, told, made, failed, moved>>

\* A request that cannot be made ends the call; what was made stays.
CreationFails ==
    /\ SplitFaults /\ sending = "creating" /\ left # {}
    /\ sending' = "error"
    /\ UNCHANGED <<draft, step, success, body, left, told, made, failed, moved>>

\* The answer gets lost, or the request on its way.  (The user does not retry before the
\* server is done.)
AnswerLost ==
    /\ SplitFaults /\ sending \in {"asked", "ok"}
    /\ sending' = "error"
    /\ UNCHANGED <<draft, step, success, body, left, told, made, failed, moved>>

\* setSuccess in a modal that is still mounted, whatever it holds by now.
Succeed_ ==
    /\ sending = "ok"
    /\ sending' = "no" /\ success' = TRUE /\ body' = Blank
    /\ UNCHANGED <<draft, step, left, told, made, failed, moved>>

Fail_ ==
    /\ sending = "error"
    /\ sending' = "no" /\ failed' = (failed \/ ~ moved) /\ moved' = FALSE
    /\ left' = {} /\ body' = Blank
    /\ UNCHANGED <<draft, step, success, told, made>>

SplitNext ==
    \/ \E t \in Totals : EnterTotal(t)
    \/ \E m \in {"equal", "custom"} : ChooseMethod(m)
    \/ \E p \in Participants : \/ AddParticipant(p) \/ RemoveParticipant(p) \/ CreateRequest(p)
                               \/ \E a \in Amounts : CustomAmountChange(p, a)
    \/ Review \/ Back \/ Close \/ Confirm
    \/ Price \/ AllCreated \/ CreationFails \/ AnswerLost
    \/ Succeed_ \/ Fail_

SplitSpec == SplitInit /\ [][SplitNext]_plvars

--------------------------------------------------------------------------------
(* Properties *)

\* What the modal says has happened has: after "Split Created" everybody of the draft has
\* been asked for what the confirmation showed beside him, and what is asked for differs
\* from the total by what rounding, or the tolerance of handleReview, can explain.
CreatedIsAsked ==
    success /\ ~ moved =>
        LET asked == Sum(told, draft.who) IN
        /\ \A p \in draft.who : made[p] > 0 /\ told[p] = Shown(draft, p)
        /\ IF draft.method = "equal" THEN 2 * Distance(asked, draft.total) <= Cardinality(draft.who)
           ELSE Distance(asked, draft.total) <= 1

\* Nobody is asked twice for one draft, unless a call for it failed and was made again.
AskedTwiceOnlyAfterFailure == \A p \in Participants : made[p] > 1 => failed

\* What a split shows and what it leaves behind.
SplitSafety == SplitTypeOK /\ CreatedIsAsked /\ AskedTwiceOnlyAfterFailure

\* Not kept by the code (README.md, section 3): a draft that is changed, or closed, while
\* its call is under way is shown as created when the call ends.
CreatedIsThisDraft == success => ~ moved

\* Not kept by the code (README.md, section 3): shares are rounded, and none takes the rest.
SharesAddUp ==
    success /\ ~ moved /\ draft.method = "equal" => Sum(told, draft.who) = draft.total

================================================================================
