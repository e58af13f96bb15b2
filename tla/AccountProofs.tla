---- MODULE AccountProofs ----
(***************************************************************************)
(* Proofs that the properties of OtpLogin hold for every number of         *)
(* handlers and of attempts, those of FollowGraph for every number of      *)
(* requests and of followers, and those of the two buttons (FollowButton,  *)
(* LikeButton) for every number of clicks and of tabs.                     *)
(***************************************************************************)
EXTENDS MCAccounts, FiniteSetTheorems, TLAPS

--------------------------------------------------------------------------------
(* Codes (OtpLogin) *)

\* Two handlers that run at the same time have met.
MeetInv ==
    \A g, h \in Logins : step[g] \notin {"idle", "done"} /\ step[h] \notin {"idle", "done"} /\ g # h
                         => g \in met /\ h \in met

\* An account is made by who found none: two of them by handlers that met.
AccountInv ==
    /\ IsFiniteSet(accounts)
    /\ \A h \in Logins, a \in accounts : step[h] = "create" => a \in met /\ h \in met
    /\ \A a, b \in accounts : a # b => a \in met /\ b \in met

\* A mail is sent when there is an account, which only its own maker takes back; who makes one
\* found none, so that nobody had been sent a mail before.
MailInv ==
    /\ \A h \in Logins \ met : step[h] \in {"check", "store", "reset", "mail"} => accounts # {}
    /\ \A h \in Logins : step[h] = "create" \/ login[h].made => mailed \subseteq met
    /\ \A h \in Logins : /\ step[h] = "rollback" => login[h].made
                         /\ login[h].made => step[h] \notin {"idle", "done"}

\* A code is stored once, by its maker, and known to nobody before it is mailed.
CodeInv ==
    /\ \A o \in Logins : otp = o \/ tried[o] # 0 => step[o] \in {"reset", "mail", "rollback", "done"}
    /\ \A o \in mailed : step[o] = "done"
    /\ \A h \in Logins : login[h].typed \in mailed \cup {NoCode}

\* The verifications that read the code that was typed, until they end.
Passing(h, o) == step[h] \in {"use", "clear", "account"} /\ login[h].typed = o

\* A verification that deleted its code was the only one, or met the others.
UseInv ==
    /\ \A h \in Logins : step[h] \in {"use", "clear", "account"} => login[h].typed # NoCode
    /\ \A h, o \in Logins : Passing(h, o) /\ step[h] # "use" => otp # o
    /\ \A o \in Logins : won[o] # {} => otp # o /\ o \in mailed
    /\ \A g, h, o \in Logins : Passing(h, o) /\ g \in won[o] => g \in met /\ h \in met
    /\ \A g, h, o \in Logins : g \in won[o] /\ h \in won[o] /\ g # h => g \in met /\ h \in met
    /\ \A o \in Logins : IsFiniteSet(won[o])

\* Verifications that are counted and have not read the code yet.
Pending == {h \in Logins : step[h] \in {"expire", "read"}}

\* While a code that was made alone is in Redis, nothing starts the count of its attempts anew.
CountInv ==
    /\ IsFiniteSet(Pending)
    /\ \A o \in Logins \ (met \cup failed) :
          /\ tried[o] <= MaxAttempts
          /\ otp = o =>
                /\ step[o] # "rollback"
                /\ step[o] = "reset" => tried[o] = 0
                /\ step[o] # "reset" => /\ ~attempts.older
                                        /\ tried[o] + Cardinality(Pending) <= attempts.n
                                        /\ tried[o] + Cardinality(Pending) <= MaxAttempts
                /\ \A h \in Logins \ {o} : step[h] \notin {"reset", "dropCount", "clear"}

LoginIInv == OtpTypeOK /\ MeetInv /\ AccountInv /\ MailInv /\ CodeInv /\ UseInv /\ CountInv

\* Where a handler goes, and what is left of it.
LEMMA ToTypes ==
    ASSUME OtpTypeOK, NEW h \in Logins, NEW s \in Sending \cup Verifying \cup {"idle", "done"}, To(h, s)
    PROVE  /\ step' \in [Logins -> Sending \cup Verifying \cup {"idle", "done"}]
           /\ login' \in [Logins -> [op : {"register", "login", "verify"}, typed : Logins \cup {NoCode}, made : BOOLEAN]]
  BY DEF OtpTypeOK, To, NoLogin

LEMMA LoginTypes == OtpTypeOK /\ UseInv /\ [OtpNext]_ovars_ => OtpTypeOK'
  <1> SUFFICES ASSUME OtpTypeOK, UseInv, [OtpNext]_ovars_ PROVE OtpTypeOK'
    OBVIOUS
  <1> USE DEF Proof, Redis, People
  <1>1. ASSUME NEW h \in Logins, NEW op \in {"register", "login", "verify"}, NEW typed \in mailed \cup {NoCode},
               Arrive(h, op, typed)
        PROVE  OtpTypeOK'
    BY <1>1 DEF Arrive, UnderWay_, OtpTypeOK, NoLogin, Sending, Verifying
  <1>2. ASSUME NEW h \in Logins, FindUser(h) \/ CheckCooldown(h) \/ CheckLocked(h)
        PROVE  OtpTypeOK'
    <2>1. PICK s \in Sending \cup Verifying \cup {"idle", "done"} : To(h, s)
      BY <1>2 DEF FindUser, CheckCooldown, CheckLocked, Caught, Sending, Verifying
    <2> QED BY <1>2, <2>1, ToTypes DEF FindUser, CheckCooldown, CheckLocked, OtpTypeOK
  <1>3. ASSUME NEW h \in Logins, CreateUser(h)
        PROVE  OtpTypeOK'
    <2>1. [login[h] EXCEPT !.made = TRUE] \in [op : {"register", "login", "verify"}, typed : Logins \cup {NoCode}, made : BOOLEAN]
      <3>1. login[h] \in [op : {"register", "login", "verify"}, typed : Logins \cup {NoCode}, made : BOOLEAN]
        BY DEF OtpTypeOK
      <3> QED BY <3>1
    <2>2. login' = [login EXCEPT ![h] = [login[h] EXCEPT !.made = TRUE]]
      BY <1>3 DEF CreateUser, OtpTypeOK
    <2>3. /\ login' \in [Logins -> [op : {"register", "login", "verify"}, typed : Logins \cup {NoCode}, made : BOOLEAN]]
          /\ step' \in [Logins -> Sending \cup Verifying \cup {"idle", "done"}]
      BY <1>3, <2>1, <2>2 DEF CreateUser, OtpTypeOK, Sending
    <2> QED BY <1>3, <2>3 DEF CreateUser, OtpTypeOK
  <1>4. ASSUME NEW h \in Logins, StoreCode(h) \/ ResetAttempts(h) \/ CountAttempt(h) \/ ExpireAttempts(h) \/ DropAttempts(h)
        PROVE  OtpTypeOK'
    <2>1. PICK s \in Sending \cup Verifying \cup {"idle", "done"} : To(h, s)
      BY <1>4 DEF StoreCode, ResetAttempts, CountAttempt, ExpireAttempts, DropAttempts, Sending, Verifying
    <2>2. attempts' \in [n : Nat, ttl : BOOLEAN, older : BOOLEAN]
      <3>1. attempts.n + 1 \in Nat /\ (attempts.n > 0) \in BOOLEAN
        BY DEF OtpTypeOK
      <3>2. CASE StoreCode(h) \/ ExpireAttempts(h)
        BY <3>1, <3>2 DEF StoreCode, ExpireAttempts, OtpTypeOK
      <3>3. CASE CountAttempt(h)
        BY <3>1, <3>3 DEF CountAttempt, OtpTypeOK
      <3>4. CASE ResetAttempts(h) \/ DropAttempts(h)
        <4>1. Zero \in [n : Nat, ttl : BOOLEAN, older : BOOLEAN]
          BY DEF Zero
        <4> QED BY <3>4, <4>1 DEF ResetAttempts, DropAttempts
      <3> QED BY <1>4, <3>2, <3>3, <3>4
    <2> QED BY <1>4, <2>1, <2>2, ToTypes DEF StoreCode, ResetAttempts, CountAttempt, ExpireAttempts, DropAttempts, OtpTypeOK
  <1>5. ASSUME NEW h \in Logins, SendMail(h) \/ Rollback(h) \/ Lock(h) \/ DropCode(h)
        PROVE  OtpTypeOK'
    <2>1. PICK s \in Sending \cup Verifying \cup {"idle", "done"} : To(h, s)
      BY <1>5 DEF SendMail, Rollback, Lock, DropCode, Sending, Verifying
    <2> QED BY <1>5, <2>1, ToTypes DEF SendMail, Rollback, Lock, DropCode, OtpTypeOK
  <1>6. ASSUME NEW h \in Logins, ReadCode(h) \/ IssueTokens(h)
        PROVE  OtpTypeOK'
    <2>1. PICK s \in Sending \cup Verifying \cup {"idle", "done"} : To(h, s)
      BY <1>6 DEF ReadCode, IssueTokens, Sending, Verifying
    <2>2. won' \in [Logins -> SUBSET Logins] /\ tried' \in [Logins -> Nat]
      BY <1>6 DEF ReadCode, IssueTokens, OtpTypeOK, UseInv
    <2> QED BY <1>6, <2>1, <2>2, ToTypes DEF ReadCode, IssueTokens, OtpTypeOK
  <1>7. ASSUME NEW h \in Logins, HandlerFails(h) \/ HandlerDies(h)
        PROVE  OtpTypeOK'
    <2>1. PICK s \in Sending \cup Verifying \cup {"idle", "done"} : To(h, s)
      BY <1>7 DEF HandlerFails, HandlerDies, Caught, Sending, Verifying
    <2> QED BY <1>7, <2>1, ToTypes DEF HandlerFails, HandlerDies, Throws, OtpTypeOK
  <1>8. CASE CodeExpires \/ AttemptsExpire \/ CooldownExpires \/ \E h \in Logins : EndRegistration(h)
    <2>1. CASE AttemptsExpire
      BY <2>1 DEF AttemptsExpire, OtpTypeOK, Zero
    <2>2. CASE CodeExpires \/ CooldownExpires
      BY <2>2 DEF CodeExpires, CooldownExpires, OtpTypeOK
    <2>3. ASSUME NEW h \in Logins, EndRegistration(h) PROVE OtpTypeOK'
      BY <2>3 DEF EndRegistration, OtpTypeOK
    <2> QED BY <1>8, <2>1, <2>2, <2>3
  <1>9. CASE UNCHANGED ovars_
    BY <1>9 DEF ovars_, OtpTypeOK
  <1> QED BY <1>1, <1>2, <1>3, <1>4, <1>5, <1>6, <1>7, <1>8, <1>9 DEF OtpNext

\* What a step that is not an arrival does to the handlers: one that runs goes on.
LEMMA GoesOn ==
    ASSUME OtpTypeOK, [OtpNext]_ovars_,
           ~ \E h \in Logins, op \in {"register", "login", "verify"}, typed \in mailed \cup {NoCode} : Arrive(h, op, typed)
    PROVE  /\ met' = met
           /\ \A h \in Logins : /\ step[h] \in {"idle", "done"} => step'[h] = step[h] /\ login'[h] = login[h]
                                /\ login'[h].typed \in {login[h].typed, NoCode}
  <1> USE DEF OtpTypeOK, To, NoLogin, Sending, Verifying
  <1>1. CASE UNCHANGED <<step, login, met>>
    BY <1>1
  <1>2. ASSUME NEW h \in Logins, FindUser(h) \/ CreateUser(h) \/ CheckCooldown(h) \/ StoreCode(h)
                                \/ ResetAttempts(h) \/ SendMail(h) \/ Rollback(h)
        PROVE  /\ met' = met /\ step[h] \notin {"idle", "done"} /\ login'[h].typed \in {login[h].typed, NoCode}
               /\ \A g \in Logins \ {h} : step'[g] = step[g] /\ login'[g] = login[g]
    BY <1>2 DEF FindUser, CreateUser, CheckCooldown, StoreCode, ResetAttempts, SendMail, Rollback
  <1>3. ASSUME NEW h \in Logins, CheckLocked(h) \/ CountAttempt(h) \/ ExpireAttempts(h) \/ Lock(h) \/ DropCode(h)
                                \/ DropAttempts(h) \/ ReadCode(h) \/ IssueTokens(h)
        PROVE  /\ met' = met /\ step[h] \notin {"idle", "done"} /\ login'[h].typed \in {login[h].typed, NoCode}
               /\ \A g \in Logins \ {h} : step'[g] = step[g] /\ login'[g] = login[g]
    BY <1>3 DEF CheckLocked, CountAttempt, ExpireAttempts, Lock, DropCode, DropAttempts, ReadCode, IssueTokens
  <1>4. ASSUME NEW h \in Logins, HandlerFails(h) \/ HandlerDies(h)
        PROVE  /\ met' = met /\ step[h] \notin {"idle", "done"} /\ login'[h].typed \in {login[h].typed, NoCode}
               /\ \A g \in Logins \ {h} : step'[g] = step[g] /\ login'[g] = login[g]
    BY <1>4 DEF HandlerFails, HandlerDies
  <1>5. CASE CodeExpires \/ AttemptsExpire \/ CooldownExpires \/ UNCHANGED ovars_ \/ \E h \in Logins : EndRegistration(h)
    BY <1>1, <1>5 DEF CodeExpires, AttemptsExpire, CooldownExpires, ovars_, EndRegistration
  <1>6. CASE \E h \in Logins : \/ \E op \in {"register", "login"} : Arrive(h, op, NoCode)
                               \/ \E typed \in mailed \cup {NoCode} : Arrive(h, "verify", typed)
    BY <1>6
  <1> HIDE DEF OtpTypeOK, To, NoLogin, Sending, Verifying
  <1> QED BY <1>2, <1>3, <1>4, <1>5, <1>6 DEF OtpNext

\* A handler that starts meets those that run.
LEMMA MeetStep == OtpTypeOK /\ MeetInv /\ [OtpNext]_ovars_ => MeetInv' /\ met \subseteq met'
  <1> SUFFICES ASSUME OtpTypeOK, MeetInv, [OtpNext]_ovars_ PROVE MeetInv' /\ met \subseteq met'
    OBVIOUS
  <1>1. ASSUME NEW h \in Logins, NEW op, NEW typed, Arrive(h, op, typed)
        PROVE  MeetInv' /\ met \subseteq met'
    BY <1>1 DEF Arrive, UnderWay_, OtpTypeOK, MeetInv
  <1> QED BY <1>1, GoesOn DEF MeetInv

\* Accounts are made one after the other, or by handlers that met.
LEMMA AccountStep ==
    ASSUME OtpTypeOK, MeetInv, AccountInv, [OtpNext]_ovars_
    PROVE  AccountInv'
  <1> USE DEF OtpTypeOK
  <1>1. ASSUME NEW h \in Logins, FindUser(h)
        PROVE  AccountInv'
    BY <1>1 DEF FindUser, To, People, AccountInv
  <1>2. ASSUME NEW h \in Logins, CreateUser(h)
        PROVE  AccountInv'
    <2>1. IsFiniteSet(accounts')
      BY <1>2, FS_AddElement DEF CreateUser, AccountInv
    <2> QED BY <1>2, <2>1 DEF CreateUser, AccountInv, MeetInv
  <1>3. ASSUME NEW h \in Logins, Rollback(h)
        PROVE  AccountInv'
    <2>1. IsFiniteSet(accounts')
      BY <1>3, FS_RemoveElement DEF Rollback, AccountInv
    <2> QED BY <1>3, <2>1 DEF Rollback, To, AccountInv
  <1>4. CASE ~ \E h \in Logins : FindUser(h) \/ CreateUser(h) \/ Rollback(h)
    <2>1. accounts' = accounts
      BY <1>4 DEF OtpNext, ovars_, People, Arrive, CheckCooldown, StoreCode, ResetAttempts, SendMail, CheckLocked, CountAttempt,
         ExpireAttempts, Lock, DropCode, DropAttempts, ReadCode, IssueTokens, HandlerFails, HandlerDies, EndRegistration,
         CodeExpires, AttemptsExpire, CooldownExpires
    <2>2. \A h \in Logins : step'[h] = "create" => step[h] = "create"
      <3>1. ASSUME NEW h \in Logins, NEW op, NEW typed, Arrive(h, op, typed)
            PROVE  \A g \in Logins : step'[g] = "create" => step[g] = "create"
        BY <3>1 DEF Arrive
      <3>2. ASSUME NEW h \in Logins, CheckCooldown(h) \/ StoreCode(h) \/ ResetAttempts(h) \/ SendMail(h)
            PROVE  \A g \in Logins : step'[g] = "create" => step[g] = "create"
        BY <3>2 DEF CheckCooldown, StoreCode, ResetAttempts, SendMail, To, Caught
      <3>3. ASSUME NEW h \in Logins, CheckLocked(h) \/ CountAttempt(h) \/ ExpireAttempts(h) \/ Lock(h)
            PROVE  \A g \in Logins : step'[g] = "create" => step[g] = "create"
        BY <3>3 DEF CheckLocked, CountAttempt, ExpireAttempts, Lock, To
      <3>4. ASSUME NEW h \in Logins, DropCode(h) \/ DropAttempts(h) \/ ReadCode(h) \/ IssueTokens(h)
            PROVE  \A g \in Logins : step'[g] = "create" => step[g] = "create"
        BY <3>4 DEF DropCode, DropAttempts, ReadCode, IssueTokens, To
      <3>5. ASSUME NEW h \in Logins, HandlerFails(h) \/ HandlerDies(h) \/ EndRegistration(h)
            PROVE  \A g \in Logins : step'[g] = "create" => step[g] = "create"
        BY <3>5 DEF HandlerFails, HandlerDies, EndRegistration, To, Caught
      <3>6. CASE CodeExpires \/ AttemptsExpire \/ CooldownExpires \/ UNCHANGED ovars_
        BY <3>6 DEF CodeExpires, AttemptsExpire, CooldownExpires, ovars_
      <3> QED BY <1>4, <3>1, <3>2, <3>3, <3>4, <3>5, <3>6 DEF OtpNext
    <2> QED BY <2>1, <2>2, MeetStep DEF AccountInv
  <1> QED BY <1>1, <1>2, <1>3, <1>4

\* A handler has made nothing when it begins and when it ends.
LEMMA NothingMade ==
    /\ NoLogin \in [op : {"register", "login", "verify"}, typed : Logins \cup {NoCode}, made : BOOLEAN]
    /\ NoLogin.made = FALSE
    /\ \A op, typed : [NoLogin EXCEPT !.op = op, !.typed = typed].made = FALSE
  BY DEF NoLogin

LEMMA ToMade ==
    ASSUME OtpTypeOK, NEW h \in Logins, NEW s, To(h, s)
    PROVE  /\ step'[h] = s /\ (s = "done" => ~login'[h].made) /\ (login'[h].made => login[h].made)
           /\ \A g \in Logins \ {h} : step'[g] = step[g] /\ login'[g] = login[g]
           /\ s # "done" => login' = login
  <1>1. CASE s = "done"
    <2>1. login'[h] = NoLogin
      BY <1>1 DEF To, OtpTypeOK
    <2> QED BY <1>1, <2>1, NothingMade DEF To, OtpTypeOK
  <1>2. CASE s # "done"
    BY <1>2 DEF To, OtpTypeOK
  <1> QED BY <1>1, <1>2

\* Mails, and the accounts that their readers have.
LEMMA MailStep ==
    ASSUME OtpTypeOK, MeetInv, MailInv, MailedHasAccount, [OtpNext]_ovars_
    PROVE  MailInv' /\ MailedHasAccount'
  <1> USE DEF OtpTypeOK
  <1>0. met \subseteq met' /\ \A h \in Logins : login[h].made => step[h] \notin {"idle", "done"}
    BY MeetStep DEF MailInv
  <1>1. ASSUME NEW h \in Logins, FindUser(h)
        PROVE  MailInv' /\ MailedHasAccount'
    BY <1>1, ToMade DEF FindUser, People, MailInv, MailedHasAccount
  <1>2. ASSUME NEW h \in Logins, CreateUser(h)
        PROVE  MailInv' /\ MailedHasAccount'
    BY <1>2 DEF CreateUser, MailInv, MailedHasAccount
  <1>3. ASSUME NEW h \in Logins, Rollback(h)
        PROVE  MailInv' /\ MailedHasAccount'
    <2>1. mailed' \subseteq met'
      <3>1. step[h] = "rollback" /\ mailed' = mailed
        BY <1>3 DEF Rollback
      <3>2. login[h].made
        BY <3>1 DEF MailInv
      <3>3. mailed \subseteq met
        BY <3>2 DEF MailInv
      <3> QED BY <1>0, <3>1, <3>3
    <2>2. step'[h] = "done" /\ ~login'[h].made
      BY <1>3, ToMade DEF Rollback
    <2>3. ASSUME NEW g \in Logins, g # h
          PROVE  step'[g] = step[g] /\ login'[g] = login[g] /\ (step[g] \notin {"idle", "done"} => g \in met)
      BY <1>3, <2>3, ToMade DEF Rollback, MeetInv
    <2>4. MailInv'
      BY <1>0, <2>1, <2>2, <2>3 DEF MailInv
    <2> QED BY <2>1, <2>4 DEF MailedHasAccount
  <1>4. ASSUME NEW h \in Logins, SendMail(h)
        PROVE  MailInv' /\ MailedHasAccount'
    <2>1. /\ step[h] = "mail" /\ mailed' = mailed \cup {h} /\ UNCHANGED <<accounts, met>>
          /\ step'[h] = "done" /\ ~login'[h].made
          /\ \A g \in Logins \ {h} : step'[g] = step[g] /\ login'[g] = login[g]
      BY <1>4, ToMade DEF SendMail, People
    <2>2. ASSUME NEW g \in Logins, step'[g] = "create" \/ login'[g].made
          PROVE  mailed' \subseteq met'
      <3>1. g # h /\ step[g] \notin {"idle", "done"} /\ mailed \subseteq met
        BY <2>1, <2>2 DEF MailInv
      <3>2. h \in met
        BY <2>1, <3>1 DEF MeetInv
      <3> QED BY <2>1, <3>1, <3>2
    <2>3. \A g \in Logins \ met' : step'[g] \in {"check", "store", "reset", "mail"} => accounts' # {}
      BY <2>1 DEF MailInv
    <2>4. \A g \in Logins : /\ step'[g] = "rollback" => login'[g].made
                            /\ login'[g].made => step'[g] \notin {"idle", "done"}
      BY <2>1 DEF MailInv
    <2>5. MailedHasAccount'
      BY <2>1 DEF MailInv, MailedHasAccount
    <2> QED BY <2>2, <2>3, <2>4, <2>5 DEF MailInv
  <1>5. ASSUME NEW h \in Logins, HandlerFails(h) \/ CheckCooldown(h)
        PROVE  MailInv' /\ MailedHasAccount'
    BY <1>5, ToMade DEF HandlerFails, CheckCooldown, Caught, People, MailInv, MailedHasAccount, Sending, Verifying
  <1>6. CASE ~ \E h \in Logins : \/ FindUser(h) \/ CreateUser(h) \/ Rollback(h) \/ SendMail(h)
                                 \/ HandlerFails(h) \/ CheckCooldown(h)
    <2>1. UNCHANGED <<accounts, mailed>>
      BY <1>6 DEF OtpNext, ovars_, People, Arrive, StoreCode, ResetAttempts, CheckLocked, CountAttempt,
         ExpireAttempts, Lock, DropCode, DropAttempts, ReadCode, IssueTokens, HandlerDies, EndRegistration,
         CodeExpires, AttemptsExpire, CooldownExpires
    <2> DEFINE Q == \A g \in Logins :
              /\ step'[g] \in {"check", "store", "reset", "mail"} => step[g] \in {"check", "store", "reset", "mail"}
              /\ step'[g] \in {"create", "rollback"} => step'[g] = step[g] /\ login'[g] = login[g]
              /\ login'[g].made => login[g].made /\ step'[g] \notin {"idle", "done"}
    <2>2. Q
      <3>1. ASSUME NEW h \in Logins, NEW op \in {"register", "login", "verify"}, NEW typed, Arrive(h, op, typed)
            PROVE  Q
        <4>1. login'[h].made = FALSE /\ \A g \in Logins \ {h} : step'[g] = step[g] /\ login'[g] = login[g]
          BY <3>1, NothingMade DEF Arrive
        <4> QED BY <1>0, <3>1, <4>1 DEF Arrive
      <3>2. ASSUME NEW h \in Logins, StoreCode(h) \/ ResetAttempts(h)
            PROVE  Q
        BY <1>0, ToMade, <3>2 DEF StoreCode, ResetAttempts
      <3>3. ASSUME NEW h \in Logins, CheckLocked(h) \/ CountAttempt(h) \/ ExpireAttempts(h) \/ Lock(h)
            PROVE  Q
        BY <1>0, ToMade, <3>3 DEF CheckLocked, CountAttempt, ExpireAttempts, Lock
      <3>4. ASSUME NEW h \in Logins, DropCode(h) \/ DropAttempts(h) \/ ReadCode(h) \/ IssueTokens(h)
            PROVE  Q
        BY <1>0, ToMade, <3>4 DEF DropCode, DropAttempts, ReadCode, IssueTokens
      <3>5. ASSUME NEW h \in Logins, HandlerDies(h)
            PROVE  Q
        BY <1>0, ToMade, <3>5 DEF HandlerDies
      <3>6. CASE CodeExpires \/ AttemptsExpire \/ CooldownExpires \/ UNCHANGED ovars_ \/ \E h \in Logins : EndRegistration(h)
        BY <1>0, ToMade, <3>6 DEF CodeExpires, AttemptsExpire, CooldownExpires, ovars_, EndRegistration
      <3> QED BY <1>6, <3>1, <3>2, <3>3, <3>4, <3>5, <3>6 DEF OtpNext
    <2> QED BY <1>0, <2>1, <2>2 DEF MailInv, MailedHasAccount
  <1> QED BY <1>1, <1>2, <1>3, <1>4, <1>5, <1>6

\* A code is stored before it is mailed, and typed after it.
LEMMA CodeStep ==
    ASSUME OtpTypeOK, CodeInv, [OtpNext]_ovars_
    PROVE  CodeInv'
  <1> USE NoCodeAssumption DEF OtpTypeOK
  <1>1. ASSUME NEW h \in Logins, NEW op \in {"register", "login", "verify"}, NEW typed \in mailed \cup {NoCode},
               Arrive(h, op, typed)
        PROVE  CodeInv'
    BY <1>1 DEF Arrive, NoLogin, CodeInv, Redis, Proof
  <1> DEFINE Late == {"reset", "mail", "rollback", "done"}
  <1> DEFINE Q == /\ \A g \in Logins : step[g] \in Late => step'[g] \in Late
                  /\ \A g \in Logins : step[g] = "done" => step'[g] = "done"
                  /\ \A g \in mailed' \ mailed : step'[g] = "done"
                  /\ mailed \subseteq mailed'
                  /\ \A o \in Logins : otp' = o => otp = o \/ step'[o] \in Late
                  /\ \A o \in Logins : tried'[o] # 0 => tried[o] # 0 \/ otp = o
                  /\ \A g \in Logins : login'[g].typed \in {login[g].typed, NoCode}
  <1>2. ASSUME NEW h \in Logins, FindUser(h) \/ CreateUser(h) \/ CheckCooldown(h) \/ StoreCode(h)
        PROVE  Q
    BY <1>2 DEF FindUser, CreateUser, CheckCooldown, StoreCode, To, Caught, NoLogin, Redis, Proof
  <1>3. ASSUME NEW h \in Logins, ResetAttempts(h) \/ SendMail(h) \/ Rollback(h)
        PROVE  Q
    BY <1>3 DEF ResetAttempts, SendMail, Rollback, To, NoLogin, Redis, Proof
  <1>4. ASSUME NEW h \in Logins, CheckLocked(h) \/ CountAttempt(h) \/ ExpireAttempts(h) \/ Lock(h)
        PROVE  Q
    BY <1>4 DEF CheckLocked, CountAttempt, ExpireAttempts, Lock, To, NoLogin, Redis, Proof
  <1>5. ASSUME NEW h \in Logins, DropCode(h) \/ DropAttempts(h) \/ ReadCode(h) \/ IssueTokens(h)
        PROVE  Q
    BY <1>5 DEF DropCode, DropAttempts, ReadCode, IssueTokens, To, NoLogin, Redis, Proof
  <1>6. ASSUME NEW h \in Logins, HandlerFails(h) \/ HandlerDies(h)
        PROVE  Q
    BY <1>6 DEF HandlerFails, HandlerDies, To, Caught, NoLogin, Redis, Proof, Sending, Verifying
  <1>7. CASE CodeExpires \/ AttemptsExpire \/ CooldownExpires \/ UNCHANGED ovars_ \/ \E h \in Logins : EndRegistration(h)
    <2>1. UNCHANGED <<step, login, mailed, tried>> /\ otp' \in {otp, NoCode}
      BY <1>7 DEF CodeExpires, AttemptsExpire, CooldownExpires, ovars_, EndRegistration, Redis, Proof
    <2> QED BY <2>1 DEF CodeInv
  <1>8. Q => CodeInv'
    BY DEF CodeInv
  <1> QED BY <1>1, <1>2, <1>3, <1>4, <1>5, <1>6, <1>7, <1>8 DEF OtpNext

\* A verification opens a session with a code that it deleted.
LEMMA UseStep ==
    ASSUME OtpTypeOK, MeetInv, CodeInv, UseInv, [OtpNext]_ovars_
    PROVE  UseInv'
  <1> USE NoCodeAssumption DEF OtpTypeOK
  <1>0. met \subseteq met'
    BY MeetStep
  <1>1. ASSUME NEW h \in Logins, ReadCode(h)
        PROVE  UseInv'
    <2>1. /\ UNCHANGED <<otp, won, mailed, met>> /\ login'[h].typed \in {login[h].typed, NoCode}
          /\ \A g \in Logins \ {h} : step'[g] = step[g] /\ login'[g] = login[g]
          /\ \/ step'[h] = "done"
             \/ step'[h] = "use" /\ otp = login[h].typed /\ login' = login /\ otp # NoCode
      BY <1>1 DEF ReadCode, To, NoLogin, Redis
    <2>2. CASE step'[h] = "done"
      BY <2>1, <2>2 DEF UseInv, Passing
    <2>3. CASE step'[h] = "use"
      BY <2>1, <2>3 DEF UseInv, Passing
    <2> QED BY <2>1, <2>2, <2>3
  <1>2. ASSUME NEW h \in Logins, DropCode(h)
        PROVE  UseInv'
    BY <1>2 DEF DropCode, To, UseInv, Passing, Proof
  <1>3. ASSUME NEW h \in Logins, DropAttempts(h)
        PROVE  UseInv'
    BY <1>3 DEF DropAttempts, To, NoLogin, UseInv, Passing, Proof
  <1>4. ASSUME NEW h \in Logins, IssueTokens(h)
        PROVE  UseInv'
    <2>1. PICK o \in mailed : Passing(h, o)
      BY <1>4 DEF IssueTokens, Passing, UseInv, CodeInv
    <2>2. /\ UNCHANGED <<otp, mailed, met>> /\ step'[h] = "done"
          /\ \A g \in Logins \ {h} : step'[g] = step[g] /\ login'[g] = login[g]
          /\ \A p \in Logins \ {o} : won'[p] = won[p]
          /\ won'[o] \in {won[o], won[o] \cup {h}}
      BY <1>4, <2>1 DEF IssueTokens, To, Passing, Redis
    <2>3. \A g \in Logins : Passing(g, o) /\ g # h => g \in met /\ h \in met
      BY <2>1 DEF Passing, MeetInv
    <2>4. \A p \in Logins : IsFiniteSet(won'[p])
      <3>1. IsFiniteSet(won[o] \cup {h})
        BY FS_AddElement DEF UseInv
      <3> QED BY <2>2, <3>1 DEF UseInv
    <2>5. \A g, p \in Logins : Passing(g, p)' => Passing(g, p) /\ g # h
      BY <2>2 DEF Passing
    <2>6. otp # o /\ \A g \in won[o] : g \in met /\ h \in met
      BY <1>4, <2>1 DEF UseInv, IssueTokens
    <2>7. \A g, p \in Logins : Passing(g, p)' /\ step'[g] # "use" => otp' # p
      BY <2>2, <2>5 DEF UseInv
    <2>8. \A p \in Logins : won'[p] # {} => otp' # p /\ p \in mailed'
      BY <2>1, <2>2, <2>6 DEF UseInv
    <2>9. \A g, f, p \in Logins : Passing(g, p)' /\ f \in won'[p] => f \in met /\ g \in met
      BY <2>2, <2>3, <2>5 DEF UseInv
    <2>10. \A g, f, p \in Logins : f \in won'[p] /\ g \in won'[p] /\ f # g => f \in met /\ g \in met
      BY <2>2, <2>6 DEF UseInv
    <2>11. \A g \in Logins : step'[g] \in {"use", "clear", "account"} => login'[g].typed # NoCode
      BY <2>2 DEF UseInv
    <2> QED BY <2>2, <2>4, <2>7, <2>8, <2>9, <2>10, <2>11 DEF UseInv
  <1>5. ASSUME NEW h \in Logins, StoreCode(h)
        PROVE  UseInv'
    BY <1>5 DEF StoreCode, To, UseInv, CodeInv, Passing, Proof
  <1>6. ASSUME UNCHANGED won, otp' \in {otp, NoCode}, mailed \subseteq mailed',
               \A h \in Logins : step'[h] \in {"use", "clear", "account"} => step'[h] = step[h] /\ login'[h] = login[h]
        PROVE  UseInv'
    BY <1>0, <1>6 DEF UseInv, Passing
  <1> DEFINE Q == /\ UNCHANGED won /\ otp' \in {otp, NoCode} /\ mailed \subseteq mailed'
                  /\ \A h \in Logins : step'[h] \in {"use", "clear", "account"} => step'[h] = step[h] /\ login'[h] = login[h]
  <1>7. ASSUME NEW h \in Logins, NEW op, NEW typed, Arrive(h, op, typed)
        PROVE  Q
    BY <1>7 DEF Arrive, Redis, Proof
  <1>8. ASSUME NEW h \in Logins, FindUser(h) \/ CreateUser(h) \/ CheckCooldown(h)
        PROVE  Q
    BY <1>8 DEF FindUser, CreateUser, CheckCooldown, To, Caught, Redis, Proof
  <1>9. ASSUME NEW h \in Logins, ResetAttempts(h) \/ SendMail(h) \/ Rollback(h)
        PROVE  Q
    BY <1>9 DEF ResetAttempts, SendMail, Rollback, To, Redis, Proof
  <1>10. ASSUME NEW h \in Logins, CheckLocked(h) \/ CountAttempt(h) \/ ExpireAttempts(h) \/ Lock(h)
         PROVE  Q
    BY <1>10 DEF CheckLocked, CountAttempt, ExpireAttempts, Lock, To, Redis, Proof
  <1>11. ASSUME NEW h \in Logins, HandlerFails(h) \/ HandlerDies(h)
         PROVE  Q
    BY <1>11 DEF HandlerFails, HandlerDies, To, Caught, Redis, Proof
  <1>12. CASE CodeExpires \/ AttemptsExpire \/ CooldownExpires \/ UNCHANGED ovars_ \/ \E h \in Logins : EndRegistration(h)
    <2>1. Q
      BY <1>12 DEF CodeExpires, AttemptsExpire, CooldownExpires, ovars_, EndRegistration, Redis, Proof
    <2> QED BY <1>6, <2>1
  <1> QED BY <1>1, <1>2, <1>3, <1>4, <1>5, <1>6, <1>7, <1>8, <1>9, <1>10, <1>11, <1>12 DEF OtpNext

\* What one code and its attempts owe to CountInv.
Counted(o) ==
    /\ tried[o] <= MaxAttempts
    /\ otp = o =>
          /\ step[o] # "rollback"
          /\ step[o] = "reset" => tried[o] = 0
          /\ step[o] # "reset" => /\ ~attempts.older
                                  /\ tried[o] + Cardinality(Pending) <= attempts.n
                                  /\ tried[o] + Cardinality(Pending) <= MaxAttempts
          /\ \A h \in Logins \ {o} : step[h] \notin {"reset", "dropCount", "clear"}

\* Steps that neither count nor forget an attempt.
LEMMA QuietStep ==
    ASSUME OtpTypeOK, CountInv, UNCHANGED <<attempts, tried>>, otp' \in {otp, NoCode},
           met \subseteq met', failed \subseteq failed', Pending' \subseteq Pending,
           \A h \in Logins : step'[h] \in {"reset", "dropCount", "clear"} => step'[h] = step[h],
           \A h \in Logins \ failed' : /\ step'[h] = "rollback" => step[h] = "rollback"
                                       /\ step[h] = "reset" => step'[h] = "reset"
    PROVE  CountInv'
  <1> USE MaxAttemptsAssumption, NoCodeAssumption DEF OtpTypeOK, Counted
  <1>1. IsFiniteSet(Pending') /\ Cardinality(Pending') \in Nat /\ Cardinality(Pending) \in Nat
        /\ Cardinality(Pending') <= Cardinality(Pending)
    BY FS_Subset, FS_CardinalityType DEF CountInv
  <1>2. ASSUME NEW o \in Logins, o \notin met' \cup failed'
        PROVE  Counted(o)'
    <2>1. Counted(o)
      BY <1>2 DEF CountInv
    <2> QED BY <1>1, <1>2, <2>1
  <1> QED BY <1>1, <1>2 DEF CountInv

LEMMA CountStep ==
    ASSUME OtpTypeOK, MeetInv, CodeInv, CountInv, [OtpNext]_ovars_
    PROVE  CountInv'
  <1> USE MaxAttemptsAssumption, NoCodeAssumption DEF OtpTypeOK
  <1>1. met \subseteq met'
    BY MeetStep
  <1>2. IsFiniteSet(Pending) /\ Cardinality(Pending) \in Nat
    BY FS_CardinalityType DEF CountInv
  <1>3. SUFFICES ASSUME ~ CountInv' PROVE FALSE
    OBVIOUS
  <1>4. ASSUME NEW h \in Logins, StoreCode(h) PROVE FALSE
    <2>1. Pending' = Pending
      BY <1>4 DEF StoreCode, To, Pending
    <2>2. ASSUME NEW o \in Logins, o \notin met' \cup failed' PROVE Counted(o)'
      <3>1. CASE o = h
        <4>1. tried'[o] = 0 /\ otp' = o /\ step'[o] = "reset"
          BY <1>4, <3>1 DEF StoreCode, To, CodeInv, Proof
        <4>2. \A g \in Logins \ {o} : step'[g] \in {"idle", "done"}
          BY <1>1, <1>4, <2>2, <3>1 DEF StoreCode, To, MeetInv
        <4> QED BY <4>1, <4>2 DEF Counted
      <3>2. CASE o # h
        BY <1>4, <2>2, <3>2 DEF StoreCode, CountInv, Counted, Proof
      <3> QED BY <3>1, <3>2
    <2> QED BY <1>2, <1>3, <2>1, <2>2 DEF CountInv, Counted
  <1>5. ASSUME NEW h \in Logins, ResetAttempts(h) PROVE FALSE
    <2>1. Pending' = Pending
      BY <1>5 DEF ResetAttempts, To, Pending
    <2>2. ASSUME NEW o \in Logins, o \notin met' \cup failed' PROVE Counted(o)'
      <3>1. Counted(o)
        BY <1>1, <1>5, <2>2 DEF ResetAttempts, CountInv, Counted
      <3>2. CASE otp = o
        <4>1. h = o /\ tried[o] = 0
          BY <1>5, <3>1, <3>2 DEF ResetAttempts, Counted
        <4>2. \A g \in Logins \ {o} : step[g] \in {"idle", "done"}
          BY <1>1, <1>5, <2>2, <4>1 DEF ResetAttempts, MeetInv
        <4>3. Pending = {}
          BY <1>5, <4>1, <4>2 DEF Pending, ResetAttempts
        <4>4. Cardinality(Pending') = 0
          BY <2>1, <4>3, FS_EmptySet
        <4> QED BY <1>5, <4>1, <4>2, <4>4 DEF ResetAttempts, To, Counted, Zero, Proof
      <3>3. CASE otp # o
        BY <1>5, <3>1, <3>3 DEF ResetAttempts, Counted, Proof
      <3> QED BY <3>2, <3>3
    <2> QED BY <1>2, <1>3, <2>1, <2>2 DEF CountInv, Counted
  <1>6. ASSUME NEW h \in Logins, CountAttempt(h) PROVE FALSE
    <2>1. PICK n \in Nat : n = attempts.n
      OBVIOUS
    <2>2. /\ attempts'.n = n + 1 /\ attempts'.older = attempts.older
          /\ step' = [step EXCEPT ![h] = IF n + 1 > MaxAttempts THEN "lock" ELSE IF n + 1 = 1 THEN "expire" ELSE "read"]
          /\ UNCHANGED <<otp, tried, met, failed>> /\ step[h] = "count"
      BY <1>6, <2>1 DEF CountAttempt, To, Proof
    <2>3. IsFiniteSet(Pending') /\ Cardinality(Pending') \in Nat /\ Cardinality(Pending') <= Cardinality(Pending) + 1
          /\ (n + 1 > MaxAttempts => Cardinality(Pending') = Cardinality(Pending))
      <3>1. Pending' = IF n + 1 > MaxAttempts THEN Pending ELSE Pending \cup {h}
        BY <2>2 DEF Pending
      <3>2. CASE n + 1 > MaxAttempts
        BY <1>2, <3>1, <3>2
      <3>3. CASE ~(n + 1 > MaxAttempts)
        <4>1. h \notin Pending
          BY <2>2 DEF Pending
        <4>2. IsFiniteSet(Pending \cup {h}) /\ Cardinality(Pending \cup {h}) = Cardinality(Pending) + 1
          BY <1>2, <4>1, FS_AddElement
        <4> QED BY <1>2, <3>1, <3>3, <4>2
      <3> QED BY <3>2, <3>3
    <2>4. ASSUME NEW o \in Logins, o \notin met' \cup failed' PROVE Counted(o)'
      <3>1. Counted(o)
        BY <2>2, <2>4 DEF CountInv, Counted
      <3>2. CASE step[o] = "reset"
        BY <2>2, <3>1, <3>2 DEF Counted
      <3>3. CASE step[o] # "reset"
        BY <1>2, <2>1, <2>2, <2>3, <3>1, <3>3 DEF Counted
      <3> QED BY <3>2, <3>3
    <2> QED BY <1>3, <2>3, <2>4 DEF CountInv, Counted
  <1>7. ASSUME NEW h \in Logins, ExpireAttempts(h) PROVE FALSE
    <2>1. Pending' = Pending
      BY <1>7 DEF ExpireAttempts, To, Pending
    <2>2. /\ attempts'.n = attempts.n /\ attempts'.older = attempts.older /\ UNCHANGED <<otp, tried, met, failed>>
          /\ step' = [step EXCEPT ![h] = "read"] /\ step[h] = "expire"
      BY <1>7 DEF ExpireAttempts, To, Proof
    <2> QED BY <1>3, <2>1, <2>2 DEF CountInv
  <1>8. ASSUME NEW h \in Logins, ReadCode(h) PROVE FALSE
    <2>1. Pending' = Pending \ {h} /\ h \in Pending
      BY <1>8 DEF ReadCode, To, Pending
    <2>2. IsFiniteSet(Pending') /\ Cardinality(Pending') = Cardinality(Pending) - 1 /\ Cardinality(Pending') \in Nat
      BY <1>2, <2>1, FS_RemoveElement, FS_CardinalityType
    <2>3. /\ UNCHANGED <<otp, attempts, met, failed>> /\ step[h] = "read" /\ step'[h] \in {"use", "done"}
          /\ \A g \in Logins \ {h} : step'[g] = step[g]
          /\ \A o \in Logins : tried'[o] \in Nat /\ tried'[o] \in {tried[o], tried[o] + 1} /\ (otp # o => tried'[o] = tried[o])
      BY <1>8 DEF ReadCode, To, Redis
    <2>4. ASSUME NEW o \in Logins, o \notin met' \cup failed' PROVE Counted(o)'
      <3>1. Counted(o)
        BY <2>3, <2>4 DEF CountInv, Counted
      <3>2. CASE otp # o
        BY <2>3, <3>1, <3>2 DEF Counted
      <3>3. CASE otp = o
        <4>1. step[o] \in {"mail", "done"}
          <5>1. step[o] # "reset"
            BY <1>1, <2>3, <2>4 DEF MeetInv
          <5> QED BY <3>1, <3>3, <5>1 DEF Counted, CodeInv
        <4> QED BY <1>2, <2>2, <2>3, <3>1, <3>3, <4>1 DEF Counted
      <3> QED BY <3>2, <3>3
    <2> QED BY <1>3, <2>2, <2>4 DEF CountInv, Counted
  <1>9. ASSUME NEW h \in Logins, DropCode(h) \/ DropAttempts(h) PROVE FALSE
    <2>1. Pending' = Pending
      BY <1>9 DEF DropCode, DropAttempts, To, Pending
    <2>2. /\ UNCHANGED <<tried, met, failed>> /\ step[h] \in {"dropCode", "use", "dropCount", "clear"}
          /\ \A g \in Logins \ {h} : step'[g] = step[g]
          /\ step'[h] \in {"clear", "dropCount", "account", "done"}
          /\ \/ otp' = NoCode
             \/ otp' = otp /\ step[h] \in {"dropCount", "clear"}
      BY <1>9 DEF DropCode, DropAttempts, To, Proof
    <2>3. ASSUME NEW o \in Logins, o \notin met' \cup failed' PROVE Counted(o)'
      <3>1. tried'[o] <= MaxAttempts
        BY <2>2, <2>3 DEF CountInv
      <3>2. otp' # o
        BY <2>2, <2>3 DEF CountInv, CodeInv
      <3> QED BY <3>1, <3>2 DEF Counted
    <2> QED BY <1>2, <1>3, <2>1, <2>3 DEF CountInv, Counted
  <1>10. CASE AttemptsExpire
    <2>1. Pending' = Pending
      BY <1>10 DEF AttemptsExpire, Pending
    <2>2. ASSUME NEW o \in Logins, o \notin met' \cup failed' PROVE Counted(o)'
      <3>1. Counted(o)
        BY <1>10, <2>2 DEF AttemptsExpire, CountInv, Counted
      <3> QED BY <1>10, <3>1 DEF AttemptsExpire, Counted, Proof
    <2> QED BY <1>2, <1>3, <2>1, <2>2 DEF CountInv, Counted
  <1>11. ASSUME NEW h \in Logins, NEW op, NEW typed, Arrive(h, op, typed) PROVE FALSE
    BY <1>1, <1>3, <1>11, QuietStep DEF Arrive, Pending, Redis, Proof
  <1>12. ASSUME NEW h \in Logins, FindUser(h) \/ CreateUser(h) \/ CheckCooldown(h) PROVE FALSE
    BY <1>1, <1>3, <1>12, QuietStep DEF FindUser, CreateUser, CheckCooldown, Caught, To, Pending, Redis, Proof
  <1>13. ASSUME NEW h \in Logins, SendMail(h) \/ Rollback(h) \/ CheckLocked(h) \/ Lock(h) \/ IssueTokens(h) PROVE FALSE
    BY <1>1, <1>3, <1>13, QuietStep DEF SendMail, Rollback, CheckLocked, Lock, IssueTokens, To, Pending, Redis, Proof
  <1>14. ASSUME NEW h \in Logins, HandlerFails(h) \/ HandlerDies(h) PROVE FALSE
    BY <1>1, <1>3, <1>14, QuietStep DEF HandlerFails, HandlerDies, Caught, Throws, To, Pending, Redis, Proof
  <1>15. CASE CodeExpires \/ CooldownExpires \/ UNCHANGED ovars_ \/ \E h \in Logins : EndRegistration(h)
    BY <1>1, <1>3, <1>15, QuietStep DEF CodeExpires, CooldownExpires, ovars_, EndRegistration, Pending, Redis, Proof
  <1> QED BY <1>4, <1>5, <1>6, <1>7, <1>8, <1>9, <1>10, <1>11, <1>12, <1>13, <1>14, <1>15 DEF OtpNext

\* The inductive invariant holds of every reachable state.
THEOREM LoginInductive == OtpSpec => [](LoginIInv /\ MailedHasAccount)
  <1>1. OtpInit => LoginIInv /\ MailedHasAccount
    <2> SUFFICES ASSUME OtpInit PROVE LoginIInv /\ MailedHasAccount
      OBVIOUS
    <2> USE NoCodeAssumption, MaxAttemptsAssumption DEF OtpInit
    <2>1. OtpTypeOK
      BY DEF OtpTypeOK, NoLogin, Zero
    <2>2. AccountInv /\ MeetInv /\ CodeInv
      BY FS_EmptySet DEF AccountInv, MeetInv, CodeInv, NoLogin
    <2>3. MailInv
      BY NothingMade DEF MailInv
    <2>4. UseInv
      BY FS_EmptySet DEF UseInv, Passing
    <2>5. Pending = {}
      BY DEF Pending
    <2>6. CountInv
      BY <2>5, FS_EmptySet DEF CountInv
    <2>7. MailedHasAccount
      BY DEF MailedHasAccount
    <2> QED BY <2>1, <2>2, <2>3, <2>4, <2>6, <2>7 DEF LoginIInv
  <1>2. LoginIInv /\ MailedHasAccount /\ [OtpNext]_ovars_ => (LoginIInv /\ MailedHasAccount)'
    <2> SUFFICES ASSUME LoginIInv, MailedHasAccount, [OtpNext]_ovars_ PROVE LoginIInv' /\ MailedHasAccount'
      OBVIOUS
    <2> USE DEF LoginIInv
    <2>1. OtpTypeOK' /\ MeetInv'
      BY LoginTypes, MeetStep
    <2>2. AccountInv' /\ MailInv' /\ MailedHasAccount'
      BY AccountStep, MailStep
    <2>3. CodeInv' /\ UseInv' /\ CountInv'
      BY CodeStep, UseStep, CountStep
    <2> QED BY <2>1, <2>2, <2>3
  <1> QED BY <1>1, <1>2, PTL DEF OtpSpec

\* Two elements, if a set has more than one.
LEMMA TwoElements ==
    ASSUME NEW S, IsFiniteSet(S), Cardinality(S) > 1, NEW a \in S
    PROVE  \E b \in S : a # b
  <1>1. SUFFICES ASSUME S = {a} PROVE FALSE
    OBVIOUS
  <1>2. Cardinality({a}) = 1
    BY FS_Singleton
  <1> QED BY <1>1, <1>2

\* With any number of handlers, in whatever way they overlap and fail: a code opens one session
\* and bounds the wrong guesses, an email has one account, and who was sent a code has one;
\* but for the handlers that met another one or failed.
THEOREM LoginInvHolds == OtpSpec => []LoginInv
  <1>1. LoginIInv /\ MailedHasAccount => LoginInv
    <2> SUFFICES ASSUME LoginIInv, MailedHasAccount PROVE LoginInv
      OBVIOUS
    <2>1. OtpUsedOnce
      <3> SUFFICES ASSUME NEW o \in Logins, Cardinality(won[o]) > 1, NEW g \in won[o] PROVE g \in met
        BY DEF OtpUsedOnce
      <3>1. PICK h \in won[o] : g # h
        BY TwoElements DEF LoginIInv, UseInv
      <3>2. g \in Logins /\ h \in Logins
        BY DEF LoginIInv, OtpTypeOK
      <3> QED BY <3>1, <3>2 DEF LoginIInv, UseInv
    <2>2. OneAccount
      <3> SUFFICES ASSUME Cardinality(accounts) > 1, NEW a \in accounts PROVE a \in met
        BY DEF OneAccount
      <3>1. PICK b \in accounts : a # b
        BY TwoElements DEF LoginIInv, AccountInv
      <3> QED BY <3>1 DEF LoginIInv, AccountInv
    <2>3. GuessesBounded
      BY DEF GuessesBounded, LoginIInv, CountInv
    <2> QED BY <2>1, <2>2, <2>3 DEF LoginInv, LoginIInv
  <1> QED BY <1>1, LoginInductive, PTL

--------------------------------------------------------------------------------
(* Follows of one target (FollowGraph) *)

\* Requests that run at the same time are counted as overlapping; a count that is read with
\* no other request beside it is that of the rows until it is saved.
RebuildInv ==
    /\ \A p, q \in Requests : at[p] \in Working /\ at[q] \in Working /\ p # q => q \in clashed
    /\ \A q \in Requests \ clashed : at[q] = "save" => req[q].counted = Cardinality(Following)

\* The requests that are still to clear the answer.
Clearing == {q \in Requests : /\ at[q] \in {"count", "save", "clear"}
                              /\ looked = "is_following" => req[q].by = Watched}

\* What a reader holds, and what Redis holds unless it is still to be cleared, is the truth.
AnswerInv ==
    /\ looked = "topic" => ~kept.stored /\ ~reader.stored
    /\ reader.stored /\ ~late => reader = Truth
    /\ kept.stored /\ ~late => kept = Truth \/ Clearing # {}

\* An event is of a request whose submission has left, and tells what it did.
EventInv ==
    /\ looked # "topic" => events = <<>> /\ \A q \in Requests : hcs[q] \in {"none", "over"}
    /\ \A n \in DOMAIN events :
          LET q == events[n].of IN
          events[n].op = req[q].op /\ events[n].by = req[q].by /\ hcs[q] \in {"confirmed", "over"}
    /\ \A q \in Requests : at[q] \in {"idle", "find", "write"} => hcs[q] = "none"
    /\ \A q \in Requests : hcs[q] = "confirmed" =>
          req[q].op = "follow" /\ \E n \in DOMAIN events : events[n].of = q

IsLast(f, n) == n \in EventsOf(f) /\ \A m \in EventsOf(f) : m <= n
OnTheWay(f)  == {q \in Requests : req[q].by = f /\ hcs[q] = "flight"}

\* Unless two submissions of a follower crossed, the row is what the one under way tells, or
\* else what the last event tells.
TopicInv ==
    \A f \in Followers :
       /\ EventsOf(f) # {} => \E n \in EventsOf(f) : IsLast(f, n)
       /\ f \notin crossed =>
             /\ \A q \in OnTheWay(f) : InFlight(f) = {q} /\ row[f].there = (req[q].op = "follow")
             /\ OnTheWay(f) = {} => \A n \in EventsOf(f) :
                                       IsLast(f, n) => row[f].there = (events[n].op = "follow")

GraphIInv == GraphTypeOK /\ RebuildInv /\ AnswerInv /\ EventInv /\ NumberIsOfFollow /\ TopicInv


ReqRec == [op : {"follow", "unfollow"}, by : Followers, counted : Nat]

Steps(q) == \/ \E f \in Followers, op \in {"follow", "unfollow"} : Request(q, op, f)
            \/ Find(q) \/ Write(q) \/ Count(q) \/ SaveCount(q) \/ ClearFollowCache(q) \/ RequestDies(q)
            \/ Consensus(q) \/ UpdateNumber(q) \/ SubmissionLost(q)

\* The followers can be counted.
LEMMA FollowingIsFinite ==
    IsFiniteSet(Following) /\ Cardinality(Following) \in Nat
  <1>1. Following \subseteq Followers
    BY DEF Following
  <1>2. IsFiniteSet(Following)
    BY <1>1, FollowersAssumption, FS_Subset
  <1> QED BY <1>2, FS_CardinalityType

\* The first event of a request is one.
LEMMA PlaceIsAnEvent ==
    ASSUME NEW q, \E n \in DOMAIN events : events[n].of = q
    PROVE  Place(q) \in DOMAIN events /\ events[Place(q)].of = q
  BY DEF Place

LEMMA PlacesAreNumbers == \A s \in Seq(Event) : DOMAIN s \subseteq Nat
  OBVIOUS

LEMMA GraphTypeStep ==
    ASSUME GraphTypeOK, EventInv, [GraphNext]_gvars
    PROVE  GraphTypeOK'
  <1> USE DEF GraphTypeOK
  <1>r. req \in [Requests -> ReqRec]
    BY DEF ReqRec
  <1>1. ASSUME NEW q \in Requests, NEW f \in Followers, NEW op \in {"follow", "unfollow"}, Request(q, op, f)
        PROVE  GraphTypeOK'
    <2>1. [NoReq EXCEPT !.op = op, !.by = f] \in ReqRec
      BY DEF NoReq, ReqRec
    <2>2. req' \in [Requests -> ReqRec]
      BY <1>1, <1>r, <2>1 DEF Request
    <2>3. clashed' \subseteq Requests /\ at' \in [Requests -> Working \cup {"idle", "done"}]
      BY <1>1 DEF Request, Busy, Next_, Working
    <2> QED BY <1>1, <2>2, <2>3 DEF Request, ReqRec
  <1>2. ASSUME NEW q \in Requests, Find(q) PROVE GraphTypeOK'
    BY <1>2 DEF Find, Next_, Working
  <1>3. ASSUME NEW q \in Requests, Write(q) PROVE GraphTypeOK'
    <2>1. PICK f \in Followers : f = req[q].by
      OBVIOUS
    <2>2. Inserted(f) \in [there : BOOLEAN, number : Nat] /\ Removed(f) \in [there : BOOLEAN, number : Nat]
      BY DEF Inserted, Removed, NoFollow
    <2>3. row' \in [Followers -> [there : BOOLEAN, number : Nat]]
      BY <1>3, <2>1, <2>2 DEF Write
    <2>4. hcs' \in [Requests -> {"none", "flight", "confirmed", "over"}] /\ crossed' \subseteq Followers
      BY <1>3, <2>1 DEF Write
    <2>5. late' \in BOOLEAN /\ at' \in [Requests -> Working \cup {"idle", "done"}]
      BY <1>3 DEF Write, Next_, Working
    <2> QED BY <1>3, <2>3, <2>4, <2>5 DEF Write
  <1>4. ASSUME NEW q \in Requests, Count(q) PROVE GraphTypeOK'
    <2>1. PICK c \in Nat : c = Cardinality(Following)
      BY FollowingIsFinite
    <2>2. [req[q] EXCEPT !.counted = c] \in ReqRec
      BY <1>r DEF ReqRec
    <2>3. req' = [req EXCEPT ![q] = [req[q] EXCEPT !.counted = c]]
      BY <1>4, <2>1 DEF Count
    <2>4. req' \in [Requests -> ReqRec]
      BY <1>r, <2>2, <2>3
    <2> QED BY <1>4, <2>4 DEF Count, Next_, Working, ReqRec
  <1>5. ASSUME NEW q \in Requests, SaveCount(q) PROVE GraphTypeOK'
    <2>1. [req[q] EXCEPT !.counted = 0] \in ReqRec
      BY <1>r DEF ReqRec
    <2>2. req' \in [Requests -> ReqRec]
      BY <1>5, <1>r, <2>1 DEF SaveCount
    <2>3. count' \in Nat /\ clashed' \subseteq Requests /\ late' \in BOOLEAN
      BY <1>5 DEF SaveCount
    <2> QED BY <1>5, <2>2, <2>3 DEF SaveCount, Next_, Working, ReqRec
  <1>6. ASSUME NEW q \in Requests, ClearFollowCache(q) PROVE GraphTypeOK'
    <2>1. Nothing \in [stored : BOOLEAN, who : SUBSET Followers, total : Nat]
      BY DEF Nothing
    <2>2. kept' \in {Nothing, kept} /\ late' \in BOOLEAN
      BY <1>6 DEF ClearFollowCache
    <2>3. at' \in [Requests -> Working \cup {"idle", "done"}]
      BY <1>6 DEF ClearFollowCache, Next_
    <2> QED BY <1>6, <2>1, <2>2, <2>3 DEF ClearFollowCache
  <1>7. ASSUME NEW q \in Requests, RequestDies(q) PROVE GraphTypeOK'
    <2>1. [req[q] EXCEPT !.counted = 0] \in ReqRec
      BY <1>r DEF ReqRec
    <2>2. req' \in [Requests -> ReqRec]
      BY <1>7, <1>r, <2>1 DEF RequestDies
    <2> QED BY <1>7, <2>2 DEF RequestDies, Next_, ReqRec
  <1>8. ASSUME NEW q \in Requests, Consensus(q) PROVE GraphTypeOK'
    <2>1. PICK e \in Event : e = [op |-> req[q].op, by |-> req[q].by, of |-> q]
      BY DEF Event
    <2>2. events' \in Seq(Event)
      BY <1>8, <2>1 DEF Consensus
    <2> QED BY <1>8, <2>2 DEF Consensus
  <1>9. ASSUME NEW q \in Requests, UpdateNumber(q) PROVE GraphTypeOK'
    <2>0. \E n \in DOMAIN events : events[n].of = q
      BY <1>9 DEF EventInv, UpdateNumber
    <2>1. Place(q) \in Nat
      <3>1. Place(q) \in DOMAIN events
        BY <2>0, PlaceIsAnEvent
      <3>2. events \in Seq(Event)
        OBVIOUS
      <3> QED BY <3>1, <3>2, PlacesAreNumbers
    <2>2. PICK f \in Followers : f = req[q].by
      OBVIOUS
    <2>3. row' = IF row[f].there THEN [row EXCEPT ![f] = [row[f] EXCEPT !.number = Place(q)]] ELSE row
      BY <1>9, <2>2 DEF UpdateNumber
    <2>4. row' \in [Followers -> [there : BOOLEAN, number : Nat]]
      BY <2>1, <2>2, <2>3
    <2> QED BY <1>9, <2>4 DEF UpdateNumber
  <1>l. ASSUME NEW q \in Requests, SubmissionLost(q) PROVE GraphTypeOK'
    BY <1>l DEF SubmissionLost
  <1>10. CASE Miss \/ Keep \/ Forget
    <2>1. /\ Nothing \in [stored : BOOLEAN, who : SUBSET Followers, total : Nat]
          /\ Truth \in [stored : BOOLEAN, who : SUBSET Followers, total : Nat]
      BY DEF Nothing, Truth, Answer, IsFollowing, GetUserStats, GetFollowers, Following, Kinds
    <2>2. {kept', reader'} \subseteq {kept, reader, Nothing, Truth} /\ late' \in BOOLEAN
      BY <1>10 DEF Miss, Keep, Forget
    <2> QED BY <1>10, <2>1, <2>2 DEF Miss, Keep, Forget
  <1>11. CASE UNCHANGED gvars
    BY <1>11 DEF gvars
  <1> HIDE DEF GraphTypeOK
  <1>12. \A q \in Requests : Steps(q) => GraphTypeOK'
    BY <1>1, <1>2, <1>3, <1>4, <1>5, <1>6, <1>7, <1>8, <1>9, <1>l DEF Steps
  <1> QED BY <1>10, <1>11, <1>12 DEF GraphNext, Steps


\* Only a write changes who follows.
LEMMA OnlyWriteMoves ==
    ASSUME GraphTypeOK, [GraphNext]_gvars, \A q \in Requests : ~Write(q)
    PROVE  Following' = Following /\ \A f \in Followers : row'[f].there = row[f].there
  <1>1. \A f \in Followers : row'[f].there = row[f].there
    <2>1. ASSUME NEW q \in Requests, UpdateNumber(q)
          PROVE  \A f \in Followers : row'[f].there = row[f].there
      <3>1. PICK f \in Followers : f = req[q].by
        BY DEF GraphTypeOK
      <3>2. row' = IF row[f].there THEN [row EXCEPT ![f] = [row[f] EXCEPT !.number = Place(q)]] ELSE row
        BY <2>1, <3>1 DEF UpdateNumber
      <3> QED BY <3>1, <3>2 DEF GraphTypeOK
    <2>2. CASE UNCHANGED row
      BY <2>2
    <2>3. ASSUME NEW q \in Requests, Steps(q), ~UpdateNumber(q) PROVE UNCHANGED row
      BY <2>3 DEF Steps, Request, Find, Count, SaveCount, ClearFollowCache, RequestDies, Consensus, SubmissionLost
    <2>4. CASE Miss \/ Keep \/ Forget \/ UNCHANGED gvars
      BY <2>4 DEF Miss, Keep, Forget, gvars
    <2> QED BY <2>1, <2>2, <2>3, <2>4 DEF GraphNext, Steps
  <1> QED BY <1>1 DEF Following

\* Only a request that starts, in "find", joins those that run; the others stay counted as
\* overlapping, and only a count is saved later.
LEMMA WhoRuns ==
    ASSUME GraphTypeOK, [GraphNext]_gvars, NEW p \in Requests
    PROVE  /\ clashed \subseteq clashed'
           /\ at'[p] \in Working /\ at[p] \notin Working =>
                 /\ at[p] = "idle" /\ at'[p] = "find"
                 /\ \A q \in Requests \ {p} : at'[q] = at[q]
                 /\ Busy # {} => Busy \cup {p} \subseteq clashed'
           /\ at'[p] = "save" => \/ at[p] = "save" /\ req'[p] = req[p]
                                 \/ at[p] = "count" /\ req'[p].counted = Cardinality(Following)
  <1> USE DEF GraphTypeOK, Next_, Working
  <1> DEFINE Runs ==
           /\ clashed \subseteq clashed'
           /\ at'[p] \in Working /\ at[p] \notin Working =>
                 /\ at[p] = "idle" /\ at'[p] = "find"
                 /\ \A q \in Requests \ {p} : at'[q] = at[q]
                 /\ Busy # {} => Busy \cup {p} \subseteq clashed'
           /\ at'[p] = "save" => \/ at[p] = "save" /\ req'[p] = req[p]
                                 \/ at[p] = "count" /\ req'[p].counted = Cardinality(Following)
  <1> SUFFICES Runs
    OBVIOUS
  <1>1. ASSUME NEW q \in Requests, NEW f \in Followers, NEW op \in {"follow", "unfollow"}, Request(q, op, f)
        PROVE  Runs
    BY <1>1 DEF Request
  <1>2. ASSUME NEW q \in Requests, Find(q) \/ Write(q) \/ Consensus(q) \/ UpdateNumber(q) \/ SubmissionLost(q)
        PROVE  Runs
    BY <1>2 DEF Find, Write, Consensus, UpdateNumber, SubmissionLost
  <1>3. ASSUME NEW q \in Requests, Count(q) PROVE Runs
    BY <1>3 DEF Count
  <1>4. ASSUME NEW q \in Requests, SaveCount(q) \/ ClearFollowCache(q) \/ RequestDies(q) PROVE Runs
    BY <1>4 DEF SaveCount, ClearFollowCache, RequestDies
  <1>5. CASE Miss \/ Keep \/ Forget \/ UNCHANGED gvars
    BY <1>5 DEF Miss, Keep, Forget, gvars
  <1> HIDE DEF Runs
  <1>6. \A q \in Requests : Steps(q) => Runs
    BY <1>1, <1>2, <1>3, <1>4 DEF Steps
  <1> QED BY <1>5, <1>6 DEF GraphNext, Steps

\* A rebuild beside which nothing runs saves the count of the rows, and one that is to save it
\* holds that count.
LEMMA RebuildStep ==
    ASSUME GraphTypeOK, RebuildInv, [GraphNext]_gvars
    PROVE  /\ RebuildInv'
           /\ \A q \in Requests : at[q] = "save" /\ at'[q] = "clear" /\ q \notin clashed'
                                  => count' = Cardinality(Following')
  <1>1. ASSUME NEW p \in Requests, NEW q \in Requests, at'[p] \in Working, at'[q] \in Working, p # q
        PROVE  q \in clashed'
    <2>1. CASE at[p] \in Working /\ at[q] \in Working
      BY <1>1, <2>1, WhoRuns DEF RebuildInv
    <2>2. CASE at[p] \notin Working
      BY <1>1, <2>2, WhoRuns DEF Busy
    <2>3. CASE at[q] \notin Working
      BY <1>1, <2>3, WhoRuns DEF Busy
    <2> QED BY <2>1, <2>2, <2>3
  <1>2. ASSUME NEW q \in Requests, q \notin clashed', at[q] \in {"count", "save"}
        PROVE  Following' = Following
    <2>1. ASSUME NEW p \in Requests, Write(p) PROVE FALSE
      <3>1. p # q /\ at[p] \in Working /\ at[q] \in Working
        BY <1>2, <2>1 DEF Write, Working
      <3> QED BY <1>2, <3>1, WhoRuns DEF RebuildInv
    <2> QED BY <2>1, OnlyWriteMoves
  <1>3. ASSUME NEW q \in Requests, q \notin clashed', at'[q] = "save"
        PROVE  req'[q].counted = Cardinality(Following')
    BY <1>2, <1>3, WhoRuns DEF RebuildInv
  <1>4. ASSUME NEW q \in Requests, at[q] = "save", at'[q] = "clear", q \notin clashed'
        PROVE  count' = Cardinality(Following')
    <2>1. q \notin clashed /\ Following' = Following
      BY <1>2, <1>4, WhoRuns
    <2>2. req[q].counted = Cardinality(Following)
      BY <1>4, <2>1 DEF RebuildInv
    <2>3. ASSUME NEW p \in Requests, Steps(p) PROVE p = q /\ SaveCount(q)
      BY <1>4, <2>3 DEF Steps, GraphTypeOK, Next_, Request, Find, Write, Count, SaveCount, ClearFollowCache,
                        RequestDies, Consensus, UpdateNumber, SubmissionLost
    <2>4. ~(Miss \/ Keep \/ Forget \/ UNCHANGED gvars)
      BY <1>4 DEF Miss, Keep, Forget, gvars
    <2>5. SaveCount(q)
      BY <2>3, <2>4 DEF GraphNext, Steps
    <2> QED BY <1>4, <2>1, <2>2, <2>5 DEF SaveCount
  <1> QED BY <1>1, <1>3, <1>4 DEF RebuildInv


\* What the database would answer is a function of the rows, the count and the kind.
LEMMA TruthStands ==
    ASSUME Following' = Following, count' = count, looked' = looked
    PROVE  Truth' = Truth
  BY DEF Truth, Answer, IsFollowing, GetUserStats, GetFollowers

LEMMA AnswerStep ==
    ASSUME GraphTypeOK, AnswerInv, [GraphNext]_gvars
    PROVE  AnswerInv'
  <1> USE DEF AnswerInv
  <1>1. ASSUME Truth' = Truth, UNCHANGED <<looked, kept, reader, late>>, Clearing \subseteq Clearing'
        PROVE  AnswerInv'
    BY <1>1
  <1>2. ASSUME NEW q \in Requests, Steps(q), ~Write(q), ~SaveCount(q), ~ClearFollowCache(q), ~RequestDies(q)
        PROVE  AnswerInv'
    <2>1. /\ UNCHANGED <<looked, kept, reader, late, count>>
          /\ \A p \in Requests : at[p] \in {"count", "save", "clear"}
                                 => at'[p] \in {"count", "save", "clear"} /\ req'[p].by = req[p].by
      <3> DEFINE Waits == /\ UNCHANGED <<looked, kept, reader, late, count>>
                           /\ \A p \in Requests : at[p] \in {"count", "save", "clear"}
                                 => at'[p] \in {"count", "save", "clear"} /\ req'[p].by = req[p].by
      <3>1. ASSUME NEW f \in Followers, NEW op \in {"follow", "unfollow"}, Request(q, op, f) PROVE Waits
        BY <3>1 DEF GraphTypeOK, Next_, Request
      <3>2. ASSUME Find(q) \/ Consensus(q) \/ UpdateNumber(q) \/ SubmissionLost(q) PROVE Waits
        BY <3>2 DEF GraphTypeOK, Next_, Find, Consensus, UpdateNumber, SubmissionLost
      <3>3. ASSUME Count(q) PROVE Waits
        BY <3>3 DEF GraphTypeOK, Next_, Count
      <3> HIDE DEF Waits
      <3>4. Waits
        BY <1>2, <3>1, <3>2, <3>3 DEF Steps
      <3> QED BY <3>4 DEF Waits
    <2>2. Clearing \subseteq Clearing'
      BY <2>1 DEF Clearing
    <2>3. \A p \in Requests : ~Write(p)
      <3>1. ASSUME NEW p \in Requests PROVE ~Write(p)
        <4>1. ASSUME at[p] = "write" PROVE at'[p] # "count"
          <5>1. CASE UNCHANGED at
            BY <4>1, <5>1
          <5>2. CASE Find(q) \/ (\E op \in {"follow", "unfollow"}, f \in Followers : Request(q, op, f)) \/ Count(q)
            BY <4>1, <5>2 DEF GraphTypeOK, Next_, Find, Request, Count
          <5>3. CASE Consensus(q) \/ UpdateNumber(q) \/ SubmissionLost(q)
            BY <5>1, <5>3 DEF Consensus, UpdateNumber, SubmissionLost
          <5> HIDE DEF GraphTypeOK
          <5> QED BY <1>2, <5>2, <5>3 DEF Steps
        <4>2. Write(p) => at[p] = "write" /\ at'[p] = "count"
          BY DEF Write, Next_, GraphTypeOK
        <4> QED BY <4>1, <4>2
      <3> QED BY <3>1
    <2>4. Following' = Following
      BY <2>3, OnlyWriteMoves
    <2> QED BY <1>1, <2>1, <2>2, <2>4, TruthStands
  <1>3. ASSUME NEW q \in Requests, Write(q) PROVE AnswerInv'
    <2>1. /\ UNCHANGED <<looked, kept, reader, count>> /\ late' = (late \/ reader.stored)
          /\ at[q] = "write" /\ at'[q] = "count" /\ req' = req
          /\ \A p \in Requests \ {q} : at'[p] = at[p]
      BY <1>3 DEF Write, GraphTypeOK, Next_
    <2>2. Clearing \subseteq Clearing'
      BY <2>1 DEF Clearing
    <2>3. CASE looked = "is_following" => req[q].by = Watched
      <3>1. q \in Clearing'
        BY <2>1, <2>3 DEF Clearing
      <3> QED BY <2>1, <3>1 DEF GraphTypeOK
    <2>4. CASE looked = "is_following" /\ req[q].by # Watched
      <3>1. \A f \in Followers \ {req[q].by} : row'[f] = row[f]
        BY <1>3 DEF Write, GraphTypeOK
      <3>2. Following' \cap {Watched} = Following \cap {Watched}
        BY <2>4, <3>1, WatchedAssumption DEF Following
      <3>3. Truth' = Truth
        BY <2>1, <2>4, <3>2 DEF Truth, IsFollowing, Answer
      <3> QED BY <2>1, <2>2, <3>3 DEF GraphTypeOK
    <2> QED BY <2>3, <2>4
  <1>4. ASSUME NEW q \in Requests, SaveCount(q) PROVE AnswerInv'
    <2>1. /\ UNCHANGED <<looked, kept, reader, row>> /\ late' = (late \/ reader.stored)
          /\ at[q] = "save" /\ at'[q] = "clear"
          /\ \A p \in Requests : req'[p].by = req[p].by
          /\ \A p \in Requests \ {q} : at'[p] = at[p]
      BY <1>4 DEF SaveCount, GraphTypeOK, Next_
    <2>2. Clearing \subseteq Clearing'
      BY <2>1 DEF Clearing
    <2>3. CASE looked = "user_stats"
      <3>1. q \in Clearing'
        BY <2>1, <2>3 DEF Clearing
      <3> QED BY <2>1, <3>1 DEF GraphTypeOK
    <2>4. CASE looked # "user_stats"
      <3>1. Following' = Following
        BY <2>1 DEF Following
      <3>2. Truth' = Truth
        BY <2>1, <2>4, <3>1 DEF Truth, Answer, IsFollowing, GetFollowers
      <3> QED BY <2>1, <2>2, <3>2 DEF GraphTypeOK
    <2> QED BY <2>3, <2>4
  <1>5. ASSUME NEW q \in Requests, ClearFollowCache(q) PROVE AnswerInv'
    <2>1. /\ UNCHANGED <<looked, reader, row, count, req>>
          /\ \A p \in Requests \ {q} : at'[p] = at[p]
      BY <1>5 DEF ClearFollowCache, GraphTypeOK, Next_
    <2>2. Truth' = Truth
      BY <2>1, TruthStands DEF Following
    <2>3. CASE late' = TRUE
      <3>1. kept' \in {Nothing, kept}
        BY <1>5 DEF ClearFollowCache
      <3> QED BY <2>1, <2>3, <3>1 DEF Nothing
    <2>4. CASE late' # TRUE
      <3>1. ~reader.stored /\ ~late /\ ~late'
        BY <1>5, <2>4 DEF ClearFollowCache, GraphTypeOK
      <3>2. CASE looked # "is_following" \/ req[q].by = Watched
        BY <1>5, <2>1, <3>1, <3>2, <2>4 DEF ClearFollowCache, Nothing
      <3>3. CASE looked = "is_following" /\ req[q].by # Watched
        <4>1. Clearing \subseteq Clearing' /\ kept' = kept
          BY <1>5, <2>1, <3>3, <2>4 DEF Clearing, ClearFollowCache
        <4> QED BY <2>1, <2>2, <3>1, <4>1
      <3> QED BY <3>2, <3>3
    <2> QED BY <2>3, <2>4
  <1>6. ASSUME NEW q \in Requests, RequestDies(q) PROVE AnswerInv'
    BY <1>6 DEF RequestDies
  <1>7. CASE Miss
    <2>1. Truth' = Truth /\ Clearing' = Clearing
      BY <1>7, TruthStands DEF Miss, Following, Clearing
    <2> QED BY <1>7, <2>1 DEF Miss
  <1>8. CASE Keep
    <2>1. Truth' = Truth /\ Clearing' = Clearing
      BY <1>8, TruthStands DEF Keep, Following, Clearing
    <2> QED BY <1>8, <2>1 DEF Keep, Nothing
  <1>9. CASE Forget
    BY <1>9 DEF Forget, Nothing
  <1>10. CASE UNCHANGED gvars
    <2>1. Truth' = Truth /\ Clearing' = Clearing
      BY <1>10, TruthStands DEF gvars, Following, Clearing
    <2> QED BY <1>10, <2>1 DEF gvars
  <1> HIDE DEF AnswerInv
  <1>11. \A q \in Requests : Steps(q) => AnswerInv'
    BY <1>2, <1>3, <1>4, <1>5, <1>6
  <1> QED BY <1>7, <1>8, <1>9, <1>10, <1>11 DEF GraphNext, Steps


\* A request keeps its operation and its follower once it has started; it is at work on them
\* until its submission leaves.
LEMMA ReqStands ==
    ASSUME GraphTypeOK, [GraphNext]_gvars, NEW p \in Requests
    PROVE  /\ at[p] # "idle" => req'[p].op = req[p].op /\ req'[p].by = req[p].by
           /\ at'[p] \in {"idle", "find", "write"} => at[p] \in {"idle", "find", "write"} /\ ~Write(p)
  <1> DEFINE Stands == /\ at[p] # "idle" => req'[p].op = req[p].op /\ req'[p].by = req[p].by
                       /\ at'[p] \in {"idle", "find", "write"} => at[p] \in {"idle", "find", "write"} /\ ~Write(p)
  <1> USE DEF GraphTypeOK, Next_, Working
  <1> SUFFICES Stands
    OBVIOUS
  <1>1. ASSUME NEW q \in Requests, NEW f \in Followers, NEW op \in {"follow", "unfollow"}, Request(q, op, f)
        PROVE  Stands
    BY <1>1 DEF Request, Write
  <1>2. ASSUME NEW q \in Requests, Consensus(q) \/ UpdateNumber(q) \/ SubmissionLost(q) PROVE Stands
    BY <1>2 DEF Write, Consensus, UpdateNumber, SubmissionLost
  <1>3. ASSUME NEW q \in Requests, Find(q) \/ Write(q) PROVE Stands
    BY <1>3 DEF Find, Write
  <1>4. ASSUME NEW q \in Requests, Count(q) \/ SaveCount(q) PROVE Stands
    BY <1>4 DEF Count, SaveCount, Write
  <1>a. Write(p) => at'[p] = "count"
    BY DEF Write
  <1>5. ASSUME NEW q \in Requests, ClearFollowCache(q) \/ RequestDies(q) PROVE Stands
    <2>1. /\ \A r \in Requests : req'[r].op = req[r].op /\ req'[r].by = req[r].by
          /\ at'[p] = at[p] \/ at'[p] = "done"
      <3>1. CASE ClearFollowCache(q)
        BY <3>1 DEF ClearFollowCache
      <3>2. CASE RequestDies(q)
        <4>1. req' = [req EXCEPT ![q].counted = 0] /\ at' = [at EXCEPT ![q] = "done"]
          BY <3>2 DEF RequestDies
        <4> QED BY <4>1
      <3> QED BY <1>5, <3>1, <3>2
    <2> QED BY <1>a, <2>1
  <1>6. CASE Miss \/ Keep \/ Forget \/ UNCHANGED gvars
    BY <1>6 DEF Miss, Keep, Forget, gvars, Write
  <1> HIDE DEF Stands
  <1>7. \A q \in Requests : Steps(q) => Stands
    BY <1>1, <1>2, <1>3, <1>4, <1>5 DEF Steps
  <1> QED BY <1>6, <1>7 DEF GraphNext, Steps

\* The topic only grows, by the request whose submission gets there; a submission is under way
\* since its row was written.
LEMMA TopicGrows ==
    ASSUME GraphTypeOK, [GraphNext]_gvars
    PROVE  /\ looked' = looked
           /\ \/ UNCHANGED <<events, hcs, crossed>>
              \/ \E q \in Requests : Write(q) \/ Consensus(q) \/ SubmissionLost(q) \/ UpdateNumber(q)
  BY DEF GraphNext, gvars, Request, Find, Count, SaveCount, ClearFollowCache, RequestDies, Miss, Keep, Forget,
         Write, Consensus, SubmissionLost, UpdateNumber

LEMMA EventStep ==
    ASSUME GraphTypeOK, EventInv, [GraphNext]_gvars
    PROVE  EventInv'
  <1>1. \A p \in Requests : hcs[p] # "none" => req'[p].op = req[p].op /\ req'[p].by = req[p].by
    BY ReqStands DEF EventInv
  <1>2. ASSUME NEW p \in Requests, at'[p] \in {"idle", "find", "write"}
        PROVE  hcs[p] = "none" /\ ~Write(p)
    BY <1>2, ReqStands DEF EventInv
  <1>3. \A n \in DOMAIN events : events[n] \in Event
    BY DEF GraphTypeOK
  <1>4. CASE UNCHANGED <<events, hcs>>
    <2>1. \A n \in DOMAIN events : events[n].of \in Requests
      BY <1>3 DEF Event
    <2> QED BY <1>1, <1>2, <1>4, <2>1, TopicGrows DEF EventInv
  <1>5. ASSUME NEW q \in Requests, Write(q) \/ SubmissionLost(q) \/ UpdateNumber(q)
        PROVE  EventInv'
    <2>1. /\ events' = events
          /\ \A p \in Requests \ {q} : hcs'[p] = hcs[p]
          /\ hcs'[q] \in {"flight", "over"}
          /\ Write(q) => hcs[q] = "none" /\ at'[q] = "count"
          /\ ~Write(q) => hcs[q] \in {"flight", "confirmed"} /\ hcs'[q] = "over"
          /\ looked # "topic" => hcs'[q] = "over"
      BY <1>5 DEF EventInv, GraphTypeOK, Next_, Write, SubmissionLost, UpdateNumber
    <2>2. \A n \in DOMAIN events : events[n].of \in Requests
      BY <1>3 DEF Event
    <2> QED BY <1>1, <1>2, <2>1, <2>2, TopicGrows DEF EventInv
  <1>6. ASSUME NEW q \in Requests, Consensus(q)
        PROVE  EventInv'
    <2>0. PICK e \in Event : e = [op |-> req[q].op, by |-> req[q].by, of |-> q]
      BY DEF Event, GraphTypeOK
    <2>1. /\ req' = req /\ at' = at
          /\ \A p \in Requests \ {q} : hcs'[p] = hcs[p]
          /\ hcs[q] = "flight" /\ hcs'[q] = IF req[q].op = "follow" THEN "confirmed" ELSE "over"
      BY <1>6 DEF Consensus, GraphTypeOK
    <2>2. /\ DOMAIN events' = DOMAIN events \cup {Len(events) + 1}
          /\ \A n \in DOMAIN events : events'[n] = events[n]
          /\ events'[Len(events) + 1] = e
      BY <1>6, <2>0 DEF Consensus, GraphTypeOK
    <2>3. \A n \in DOMAIN events : events[n].of \in Requests
      BY <1>3 DEF Event
    <2>4. ASSUME NEW n \in DOMAIN events'
          PROVE  /\ events'[n].op = req'[events'[n].of].op
                 /\ events'[n].by = req'[events'[n].of].by
                 /\ hcs'[events'[n].of] \in {"confirmed", "over"}
      <3>1. CASE n \in DOMAIN events
        BY <2>1, <2>2, <2>3, <3>1 DEF EventInv
      <3>2. CASE n = Len(events) + 1
        BY <2>0, <2>1, <2>2, <3>2
      <3> QED BY <2>2, <3>1, <3>2
    <2>5. ASSUME NEW p \in Requests, at'[p] \in {"idle", "find", "write"}
          PROVE  hcs'[p] = "none"
      BY <1>2, <2>1, <2>5
    <2>6. ASSUME NEW p \in Requests, hcs'[p] = "confirmed"
          PROVE  req'[p].op = "follow" /\ \E n \in DOMAIN events' : events'[n].of = p
      BY <2>0, <2>1, <2>2, <2>6 DEF EventInv
    <2>7. looked' = looked /\ looked = "topic"
      BY <1>6, <2>1 DEF EventInv, Consensus
    <2> QED BY <2>4, <2>5, <2>6, <2>7 DEF EventInv
  <1> QED BY <1>4, <1>5, <1>6, TopicGrows

\* The number that is written is that of an event of the request, which is a follow.
LEMMA NumberStep ==
    ASSUME GraphTypeOK, EventInv, NumberIsOfFollow, [GraphNext]_gvars
    PROVE  NumberIsOfFollow'
  <1>1. /\ DOMAIN events \subseteq DOMAIN events'
        /\ \A n \in DOMAIN events : events'[n] = events[n]
    <2>1. CASE UNCHANGED events
      BY <2>1
    <2>2. ASSUME NEW q \in Requests, Consensus(q)
          PROVE  /\ DOMAIN events \subseteq DOMAIN events'
                 /\ \A n \in DOMAIN events : events'[n] = events[n]
      <3>1. PICK e \in Event : e = [op |-> req[q].op, by |-> req[q].by, of |-> q]
        BY DEF Event, GraphTypeOK
      <3> QED BY <2>2, <3>1 DEF Consensus, GraphTypeOK
    <2> QED BY <2>1, <2>2, TopicGrows DEF Write, SubmissionLost, UpdateNumber
  <1>2. SUFFICES ASSUME NEW f \in Followers, row'[f].number # 0
                 PROVE  /\ row'[f].number \in DOMAIN events
                        /\ events[row'[f].number].op = "follow" /\ events[row'[f].number].by = f
    BY <1>1 DEF NumberIsOfFollow
  <1>3. CASE row'[f].number = row[f].number
    BY <1>2, <1>3 DEF NumberIsOfFollow
  <1>4. ASSUME NEW q \in Requests, Write(q) PROVE row'[f].number = row[f].number
    <2>1. PICK g \in Followers : g = req[q].by
      BY DEF GraphTypeOK
    <2>2. CASE f = g
      BY <1>2, <1>4, <2>1, <2>2 DEF Write, GraphTypeOK, Inserted, Removed, NoFollow
    <2>3. CASE f # g
      BY <1>4, <2>1, <2>3 DEF Write, GraphTypeOK
    <2> QED BY <2>2, <2>3
  <1>5. ASSUME NEW q \in Requests, UpdateNumber(q), row'[f].number # row[f].number
        PROVE  /\ row'[f].number \in DOMAIN events
               /\ events[row'[f].number].op = "follow" /\ events[row'[f].number].by = f
    <2>1. PICK g \in Followers : g = req[q].by
      BY DEF GraphTypeOK
    <2>2. row' = IF row[g].there THEN [row EXCEPT ![g] = [row[g] EXCEPT !.number = Place(q)]] ELSE row
      BY <1>5, <2>1 DEF UpdateNumber
    <2>3. f = g /\ row'[f].number = Place(q)
      BY <1>5, <2>2 DEF GraphTypeOK
    <2>4. req[q].op = "follow" /\ \E n \in DOMAIN events : events[n].of = q
      BY <1>5 DEF UpdateNumber, EventInv
    <2>5. Place(q) \in DOMAIN events /\ events[Place(q)].of = q
      BY <2>4, PlaceIsAnEvent
    <2> QED BY <2>1, <2>3, <2>4, <2>5 DEF EventInv
  <1>6. ASSUME NEW q \in Requests, Steps(q), ~Write(q), ~UpdateNumber(q) PROVE UNCHANGED row
    BY <1>6 DEF Steps, Request, Find, Count, SaveCount, ClearFollowCache, RequestDies, Consensus, SubmissionLost
  <1>7. CASE Miss \/ Keep \/ Forget \/ UNCHANGED gvars
    BY <1>3, <1>7 DEF Miss, Keep, Forget, gvars
  <1> QED BY <1>3, <1>4, <1>5, <1>6, <1>7 DEF GraphNext, Steps


\* One follower's part of TopicInv.
Told(f) == \A n \in EventsOf(f) : IsLast(f, n) => row[f].there = (events[n].op = "follow")

LEMMA TopicStep ==
    ASSUME GraphTypeOK, EventInv, TopicInv, [GraphNext]_gvars
    PROVE  TopicInv'
  <1>1. \A p \in Requests : hcs[p] # "none" => req'[p].op = req[p].op /\ req'[p].by = req[p].by
    BY ReqStands DEF EventInv
  <1> SUFFICES ASSUME NEW f \in Followers
               PROVE  /\ EventsOf(f)' # {} => \E n \in EventsOf(f)' : IsLast(f, n)'
                      /\ f \notin crossed' =>
                            /\ \A q \in OnTheWay(f)' : InFlight(f)' = {q} /\ row'[f].there = (req'[q].op = "follow")
                            /\ OnTheWay(f)' = {} => Told(f)'
    BY DEF TopicInv, Told
  <1> DEFINE Holds == /\ EventsOf(f)' # {} => \E n \in EventsOf(f)' : IsLast(f, n)'
                      /\ f \notin crossed' =>
                            /\ \A q \in OnTheWay(f)' : InFlight(f)' = {q} /\ row'[f].there = (req'[q].op = "follow")
                            /\ OnTheWay(f)' = {} => Told(f)'
  <1>2. ASSUME UNCHANGED events
        PROVE  /\ EventsOf(f)' = EventsOf(f) /\ \A n : IsLast(f, n)' = IsLast(f, n)
               /\ row'[f].there = row[f].there => Told(f)' = Told(f)
    BY <1>2 DEF EventsOf, IsLast, Told
  <1>3. ASSUME UNCHANGED <<events, hcs, crossed>> PROVE Holds
    <2>1. ASSUME NEW q \in Requests PROVE ~Write(q)
      BY <1>3, <2>1 DEF Write, EventInv, GraphTypeOK
    <2>2. row'[f].there = row[f].there
      BY <2>1, OnlyWriteMoves
    <2>3. OnTheWay(f)' = OnTheWay(f) /\ InFlight(f)' = InFlight(f)
      BY <1>1, <1>3, ReqStands DEF OnTheWay, InFlight
    <2>4. \A q \in OnTheWay(f) : req'[q].op = req[q].op
      BY <1>1 DEF OnTheWay
    <2> QED BY <1>2, <1>3, <2>2, <2>3, <2>4 DEF TopicInv, Told
  <1>4. ASSUME NEW q \in Requests, Write(q) PROVE Holds
    <2>1. /\ UNCHANGED <<events, req>> /\ hcs[q] = "none" /\ hcs'[q] \in {"flight", "over"}
          /\ \A p \in Requests \ {q} : hcs'[p] = hcs[p]
          /\ crossed' = IF InFlight(req[q].by) = {} THEN crossed ELSE crossed \cup {req[q].by}
      BY <1>4 DEF Write, GraphTypeOK, EventInv
    <2>2. CASE f # req[q].by
      <3>1. OnTheWay(f)' = OnTheWay(f) /\ InFlight(f)' = InFlight(f) /\ (f \in crossed') = (f \in crossed)
        BY <2>1, <2>2 DEF OnTheWay, InFlight
      <3>2. row'[f] = row[f]
        BY <1>4, <2>2 DEF Write, GraphTypeOK
      <3> QED BY <1>2, <2>1, <3>1, <3>2 DEF TopicInv, Told
    <2>3. CASE f = req[q].by
      <3>1. row'[f].there = (req[q].op = "follow")
        BY <1>4, <2>3 DEF Write, GraphTypeOK, Inserted, Removed, NoFollow
      <3>2. CASE InFlight(f) # {}
        BY <1>2, <2>1, <2>3, <3>2 DEF TopicInv
      <3>3. CASE InFlight(f) = {} /\ hcs'[q] = "flight"
        <4>1. InFlight(f)' = {q} /\ OnTheWay(f)' = {q}
          BY <2>1, <2>3, <3>3 DEF InFlight, OnTheWay
        <4> QED BY <1>2, <2>1, <3>1, <4>1 DEF TopicInv
      <3>4. CASE hcs'[q] = "over"
        <4>1. looked # "topic"
          BY <1>4, <3>4 DEF Write, GraphTypeOK
        <4>2. EventsOf(f) = {} /\ OnTheWay(f)' = {}
          BY <2>1, <3>4, <4>1 DEF EventInv, EventsOf, OnTheWay
        <4> QED BY <1>2, <2>1, <4>2 DEF Told
      <3> QED BY <2>1, <3>2, <3>3, <3>4
    <2> QED BY <2>2, <2>3
  <1>5. ASSUME NEW q \in Requests, SubmissionLost(q) \/ UpdateNumber(q) PROVE Holds
    <2>1. /\ UNCHANGED <<events, req>> /\ hcs[q] \in {"flight", "confirmed"} /\ hcs'[q] = "over"
          /\ \A p \in Requests \ {q} : hcs'[p] = hcs[p]
          /\ \/ crossed' = crossed \cup {req[q].by}
             \/ crossed' = crossed /\ hcs[q] = "confirmed"
      BY <1>5 DEF SubmissionLost, UpdateNumber, GraphTypeOK
    <2>2. ASSUME NEW p \in Requests PROVE ~Write(p)
      <3>1. at[p] = "write" /\ hcs[p] = "none" => hcs'[p] = hcs[p]
        BY <2>1
      <3>2. at[p] = "write" => hcs[p] = "none"
        BY DEF EventInv
      <3>3. Write(p) => at[p] = "write" /\ hcs'[p] # "none"
        BY DEF Write, GraphTypeOK
      <3> QED BY <3>1, <3>2, <3>3
    <2>3. row'[f].there = row[f].there
      BY <2>2, OnlyWriteMoves
    <2>4. CASE f \in crossed'
      BY <1>2, <2>1, <2>4 DEF TopicInv
    <2>5. CASE f \notin crossed'
      <3>1. OnTheWay(f)' = OnTheWay(f) /\ f \notin crossed
        BY <2>1, <2>5 DEF OnTheWay
      <3>2. ASSUME NEW p \in OnTheWay(f) PROVE InFlight(f)' = {p}
        <4>1. InFlight(f) = {p} /\ p \in Requests /\ hcs[p] = "flight"
          BY <3>1, <3>2 DEF TopicInv, OnTheWay
        <4>2. req[q].by # f
          BY <2>1, <2>5, <4>1 DEF InFlight
        <4> QED BY <2>1, <4>1, <4>2 DEF InFlight
      <3> QED BY <1>2, <2>1, <2>3, <3>1, <3>2 DEF TopicInv, Told
    <2> QED BY <2>4, <2>5
  <1>6. ASSUME NEW q \in Requests, Consensus(q) PROVE Holds
    <2>1. /\ UNCHANGED <<row, req, crossed>> /\ hcs[q] = "flight" /\ hcs'[q] \in {"confirmed", "over"}
          /\ \A p \in Requests \ {q} : hcs'[p] = hcs[p]
      BY <1>6 DEF Consensus, GraphTypeOK
    <2>2. PICK e \in Event : e = [op |-> req[q].op, by |-> req[q].by, of |-> q]
      BY DEF Event, GraphTypeOK
    <2>3. PICK l \in Nat : l = Len(events) + 1
      BY DEF GraphTypeOK
    <2>4. /\ DOMAIN events' = DOMAIN events \cup {l} /\ \A n \in DOMAIN events : n \in Nat /\ n < l
          /\ \A n \in DOMAIN events : events'[n] = events[n]
          /\ events'[l] = e
      BY <1>6, <2>2, <2>3 DEF Consensus, GraphTypeOK
    <2>5. CASE f = req[q].by
      <3>1. IsLast(f, l)'
        BY <2>2, <2>3, <2>4, <2>5 DEF IsLast, EventsOf
      <3>2. ASSUME NEW n, IsLast(f, n)' PROVE n = l
        BY <2>3, <2>4, <3>1, <3>2 DEF IsLast, EventsOf
      <3>3. f \notin crossed => row[f].there = (req[q].op = "follow")
        BY <2>1, <2>5 DEF TopicInv, OnTheWay
      <3>4. f \notin crossed => OnTheWay(f)' = {}
        BY <2>1, <2>5 DEF TopicInv, OnTheWay, InFlight
      <3>5. f \notin crossed => Told(f)'
        BY <2>1, <2>2, <2>4, <3>2, <3>3 DEF Told
      <3> QED BY <2>1, <3>1, <3>4, <3>5 DEF IsLast
    <2>6. CASE f # req[q].by
      <3>1. OnTheWay(f)' = OnTheWay(f) /\ InFlight(f)' = InFlight(f)
        BY <2>1, <2>6 DEF OnTheWay, InFlight
      <3>2. EventsOf(f)' = EventsOf(f)
        BY <2>2, <2>4, <2>6 DEF EventsOf
      <3>3. \A n : IsLast(f, n)' = IsLast(f, n)
        BY <3>2 DEF IsLast
      <3>4. Told(f)' = Told(f)
        BY <2>1, <2>4, <3>2, <3>3 DEF Told, EventsOf
      <3> QED BY <2>1, <3>1, <3>2, <3>3, <3>4 DEF TopicInv, Told
    <2> QED BY <2>5, <2>6
  <1> HIDE DEF Holds
  <1>7. Holds
    BY <1>3, <1>4, <1>5, <1>6, TopicGrows
  <1> QED BY <1>7 DEF Holds

\* The invariant that carries GraphSafety holds in every state.
THEOREM GraphInductive == GraphSpec => []GraphIInv
  <1>1. GraphInit => GraphIInv
    <2> SUFFICES ASSUME GraphInit PROVE GraphIInv
      OBVIOUS
    <2>1. GraphTypeOK
      <3>1. NoReq \in ReqRec /\ NoFollow \in [there : BOOLEAN, number : Nat]
        BY WatchedAssumption DEF NoReq, ReqRec, NoFollow
      <3>2. Nothing \in [stored : BOOLEAN, who : SUBSET Followers, total : Nat]
        BY DEF Nothing
      <3>3. row \in [Followers -> [there : BOOLEAN, number : Nat]] /\ req \in [Requests -> ReqRec]
        BY <3>1 DEF GraphInit
      <3>4. /\ at \in [Requests -> Working \cup {"idle", "done"}] /\ events \in Seq(Event)
            /\ hcs \in [Requests -> {"none", "flight", "confirmed", "over"}]
        BY DEF GraphInit
      <3>5. /\ {kept, reader} \subseteq [stored : BOOLEAN, who : SUBSET Followers, total : Nat]
            /\ late \in BOOLEAN /\ clashed \subseteq Requests /\ crossed \subseteq Followers
            /\ looked \in Kinds /\ count \in Nat
        BY <3>2 DEF GraphInit
      <3> QED BY <3>3, <3>4, <3>5 DEF GraphTypeOK, ReqRec
    <2> QED BY <2>1, WatchedAssumption DEF GraphInit, GraphIInv, RebuildInv, AnswerInv, EventInv, NumberIsOfFollow,
               TopicInv, EventsOf, OnTheWay, NoFollow, Nothing, Working
  <1>2. GraphIInv /\ [GraphNext]_gvars => GraphIInv'
    BY GraphTypeStep, RebuildStep, AnswerStep, EventStep, NumberStep, TopicStep DEF GraphIInv
  <1> QED BY <1>1, <1>2, PTL DEF GraphSpec

\* However many follows and unfollows overlap and fail: the count, the numbers, the topic and
\* the cached answers follow the rows.
THEOREM GraphSafetyHolds == GraphSpec => GraphSafety
  <1>1. GraphIInv => GraphTypeOK /\ KeptIsTrue /\ NumberIsOfFollow /\ TopicTellsTheSame
    <2> SUFFICES ASSUME GraphIInv PROVE KeptIsTrue /\ TopicTellsTheSame
      BY DEF GraphIInv
    <2>1. KeptIsTrue
      BY DEF GraphIInv, AnswerInv, KeptIsTrue, Clearing, Busy, Working
    <2>2. ASSUME NEW f \in Followers \ crossed, InFlight(f) = {}, EventsOf(f) # {}
          PROVE  row[f].there = (events[CHOOSE n \in EventsOf(f) : \A m \in EventsOf(f) : m <= n].op = "follow")
      <3>1. OnTheWay(f) = {}
        BY <2>2 DEF OnTheWay, InFlight
      <3>2. \E n \in EventsOf(f) : \A m \in EventsOf(f) : m <= n
        BY <2>2 DEF GraphIInv, TopicInv, IsLast
      <3>3. PICK n \in EventsOf(f) : n = CHOOSE k \in EventsOf(f) : \A m \in EventsOf(f) : m <= k
        BY <3>2
      <3>4. IsLast(f, n)
        BY <3>2, <3>3 DEF IsLast
      <3> QED BY <2>2, <3>1, <3>3, <3>4 DEF GraphIInv, TopicInv
    <2> QED BY <2>1, <2>2 DEF TopicTellsTheSame
  <1>2. GraphIInv /\ [GraphNext]_gvars
        => [\A q \in Requests : at[q] = "save" /\ at'[q] = "clear" /\ q \notin clashed'
                                => count' = Cardinality(Following')]_gvars
    BY RebuildStep DEF GraphIInv
  <1> QED BY <1>1, <1>2, GraphInductive, PTL DEF GraphSpec, GraphSafety, RebuildRepairs

--------------------------------------------------------------------------------
(* The heart of a post (LikeButton) *)

Going == {"find", "write", "ok", "refused"}

\* A card is busy while its request is under way, and shows what the click asked for; its
\* number is that of the others and the heart.
CardOK(t) ==
    /\ card[t].busy <=> request[t].at \in Going
    /\ request[t].at \in Going => card[t].open /\ card[t].liked = ~request[t].wasLiked
    /\ request[t].at = "counted" => ~card[t].open
    /\ card[t].likes - One(card[t].liked) = card[t].base

\* A tab that no write has passed knows what is in the database.
KnowsRow(t) ==
    /\ card[t].open /\ ~card[t].busy => card[t].liked = (mine # 0)
    /\ request[t].at \in {"find", "write", "refused"} => request[t].wasLiked = (mine # 0)
    /\ request[t].at = "write" => request[t].id = mine
    /\ request[t].at = "ok" => card[t].liked = (mine # 0)

LikeIInv ==
    /\ LikeTypeOK /\ mine <= rows
    /\ \A t \in Tabs : CardOK(t)
    /\ \A t \in Tabs \ unaware : KnowsRow(t)

CardRec == [open : BOOLEAN, liked : BOOLEAN, likes : -1 .. 3, busy : BOOLEAN, base : -1 .. 2]
CallRec == [at : {"none", "counted", "find", "write", "ok", "refused"},
            wasLiked : BOOLEAN, id : 0 .. MaxLikes, likes : 0 .. 2]

LEMMA LikeStarts == LikeInit => LikeIInv
  BY MaxLikesAssumption DEF LikeInit, LikeIInv, LikeTypeOK, CardOK, KnowsRow, NoCard, NoCall, One, Going

\* A step of one tab leaves the cards and the requests of the others.
LikeAct(t) == \/ OpenHome(t) \/ CountLikes(t) \/ OpenOther(t) \/ Close(t) \/ Click(t)
              \/ FindLike(t) \/ InsertLike(t) \/ RemoveLike(t) \/ Answered(t) \/ Revert(t)

LEMMA LikeFrame ==
    ASSUME LikeTypeOK, NEW t \in Tabs, LikeAct(t)
    PROVE  \A s \in Tabs \ {t} : card'[s] = card[s] /\ request'[s] = request[s]
  <1>1. card \in [Tabs -> CardRec] /\ request \in [Tabs -> CallRec]
    BY DEF LikeTypeOK, CardRec, CallRec
  <1>2. CASE OpenHome(t) \/ CountLikes(t) \/ OpenOther(t) \/ Close(t)
    BY <1>1, <1>2 DEF OpenHome, CountLikes, OpenOther, Close
  <1>3. CASE Click(t) \/ FindLike(t)
    BY <1>1, <1>3 DEF Click, FindLike
  <1>4. CASE InsertLike(t) \/ RemoveLike(t)
    BY <1>1, <1>4 DEF InsertLike, RemoveLike, Send
  <1>5. CASE Answered(t) \/ Revert(t)
    BY <1>1, <1>5 DEF Answered, Revert
  <1> QED BY <1>2, <1>3, <1>4, <1>5 DEF LikeAct

\* What the step does to the tab's own card and request.
LEMMA LikeOwn ==
    ASSUME LikeIInv, NEW t \in Tabs, LikeAct(t)
    PROVE  /\ card' \in [Tabs -> CardRec] /\ request' \in [Tabs -> CallRec]
           /\ CardOK(t)' /\ (t \notin unaware' => KnowsRow(t)')
  <1>1. /\ card \in [Tabs -> CardRec] /\ request \in [Tabs -> CallRec]
        /\ mine \in 0 .. MaxLikes /\ rows \in 0 .. MaxLikes /\ others \in 0 .. 1
    BY DEF LikeIInv, LikeTypeOK, CardRec, CallRec
  <1>2. card[t] \in CardRec /\ request[t] \in CallRec
    BY <1>1
  <1>3. CardOK(t) /\ (t \notin unaware => KnowsRow(t)) /\ mine <= rows
    BY DEF LikeIInv
  <1>4. ASSUME NEW c \in CardRec, NEW q \in CallRec, card' = [card EXCEPT ![t] = c], request' = [request EXCEPT ![t] = q]
        PROVE  card' \in [Tabs -> CardRec] /\ request' \in [Tabs -> CallRec] /\ card'[t] = c /\ request'[t] = q
    BY <1>1, <1>4
  <1> USE MaxLikesAssumption
  <1>5. NoCall \in CallRec /\ NoCard \in CardRec /\ NoCall.at = "none"
    BY DEF NoCall, NoCard, CallRec, CardRec
  <1>6. CASE OpenHome(t)
    <2> DEFINE c == [open |-> TRUE, liked |-> FALSE, likes |-> 0, busy |-> FALSE, base |-> 0]
    <2>1. card' = [card EXCEPT ![t] = c] /\ request' = [request EXCEPT ![t] = request[t]] /\ request[t] = NoCall
          /\ t \in unaware'
      BY <1>1, <1>6 DEF OpenHome, Mounted, One
    <2>2. c \in CardRec
      BY DEF CardRec
    <2>3. c.open /\ ~c.busy /\ ~c.liked /\ c.likes = 0 /\ c.base = 0
      OBVIOUS
    <2> HIDE DEF c
    <2>4. /\ card' \in [Tabs -> CardRec] /\ request' \in [Tabs -> CallRec]
          /\ card'[t] = c /\ request'[t] = NoCall
      BY <1>2, <1>4, <2>1, <2>2
    <2>5. CardOK(t)'
      BY <1>5, <2>3, <2>4 DEF CardOK, One, Going
    <2> QED BY <2>1, <2>4, <2>5
  <1>7. CASE CountLikes(t)
    <2> DEFINE q == [NoCall EXCEPT !.at = "counted", !.likes = others + One(mine # 0)]
    <2>0. others + One(mine # 0) \in 0 .. 2
      BY <1>1 DEF One
    <2>a. ASSUME NEW n \in 0 .. 2
          PROVE  LET k == [NoCall EXCEPT !.at = "counted", !.likes = n] IN k \in CallRec /\ k.at = "counted"
      BY <2>a, <1>5 DEF CallRec
    <2>1. q \in CallRec /\ q.at = "counted"
      BY <2>0, <2>a
    <2>2. card' = [card EXCEPT ![t] = card[t]] /\ request' = [request EXCEPT ![t] = q]
      BY <1>1, <1>7 DEF CountLikes
    <2> HIDE DEF q
    <2> QED BY <1>2, <1>3, <1>4, <1>5, <1>7, <2>1, <2>2 DEF CountLikes, CardOK, KnowsRow, Going
  <1>8. CASE OpenOther(t)
    <2>0. request[t].likes \in 0 .. 2
      BY <1>2 DEF CallRec
    <2>1. ASSUME NEW b \in BOOLEAN, NEW n \in 0 .. 2
          PROVE  LET c == Mounted(b, n)
                 IN  c \in CardRec /\ c.open /\ ~c.busy /\ c.liked = b /\ c.likes - One(c.liked) = c.base
      <3>1. n \in -1 .. 3 /\ n - 1 \in -1 .. 2 /\ n - 0 \in -1 .. 2
        BY <2>1
      <3>2. CASE b = TRUE
        BY <3>1, <3>2 DEF Mounted, One, CardRec
      <3>3. CASE b = FALSE
        BY <3>1, <3>3 DEF Mounted, One, CardRec
      <3> QED BY <2>1, <3>2, <3>3
    <2> DEFINE c == Mounted(mine # 0, request[t].likes)
    <2>2. c \in CardRec /\ c.open /\ ~c.busy /\ c.liked = (mine # 0) /\ c.likes - One(c.liked) = c.base
      BY <2>0, <2>1
    <2>3. card' = [card EXCEPT ![t] = c] /\ request' = [request EXCEPT ![t] = NoCall] /\ mine' = mine
      BY <1>8 DEF OpenOther
    <2> HIDE DEF c
    <2> QED BY <1>4, <1>5, <2>2, <2>3 DEF CardOK, KnowsRow, Going
  <1>9. CASE Close(t)
    <2>1. card' = [card EXCEPT ![t] = NoCard] /\ request' = [request EXCEPT ![t] = request[t]]
      BY <1>1, <1>9 DEF Close
    <2>2. /\ card' \in [Tabs -> CardRec] /\ request' \in [Tabs -> CallRec]
          /\ card'[t] = NoCard /\ request'[t] = NoCall
      BY <1>2, <1>4, <1>5, <1>9, <2>1 DEF Close
    <2>3. CardOK(t)'
      BY <1>5, <2>2 DEF CardOK, Going, NoCard, One
    <2>4. ~card'[t].open
      BY <2>2 DEF NoCard
    <2> QED BY <1>5, <2>2, <2>3, <2>4 DEF KnowsRow
  <1>10. CASE Click(t)
    <2> DEFINE c == [card[t] EXCEPT !.liked = ~@, !.busy = TRUE, !.likes = @ + (IF card[t].liked THEN -1 ELSE 1)]
               q == [NoCall EXCEPT !.at = "find", !.wasLiked = card[t].liked]
    <2>0. /\ card[t].likes \in -1 .. 3 /\ card[t].base \in -1 .. 2 /\ card[t].liked \in BOOLEAN
          /\ card[t].likes - One(card[t].liked) = card[t].base
      BY <1>2, <1>3 DEF CardRec, CardOK
    <2>1. c \in CardRec /\ c.open = card[t].open /\ c.busy /\ c.liked = ~card[t].liked /\ c.likes - One(c.liked) = c.base
      <3>1. CASE card[t].liked = TRUE
        <4>1. card[t].likes - 1 \in -1 .. 3 /\ card[t].likes - 1 = card[t].base
          BY <2>0, <3>1 DEF One
        <4>2. c = [card[t] EXCEPT !.liked = FALSE, !.busy = TRUE, !.likes = card[t].likes - 1]
          BY <1>2, <2>0, <3>1 DEF CardRec
        <4>3. c \in CardRec /\ c.open = card[t].open /\ c.busy = TRUE /\ c.liked = FALSE /\ c.likes = card[t].likes - 1 /\ c.base = card[t].base
          BY <1>2, <4>1, <4>2 DEF CardRec
        <4> QED BY <2>0, <3>1, <4>1, <4>3 DEF One
      <3>2. CASE card[t].liked = FALSE
        <4>1. card[t].likes + 1 \in -1 .. 3 /\ card[t].likes + 1 - 1 = card[t].base
          BY <2>0, <3>2 DEF One
        <4>2. c = [card[t] EXCEPT !.liked = TRUE, !.busy = TRUE, !.likes = card[t].likes + 1]
          BY <1>2, <2>0, <3>2 DEF CardRec
        <4>3. c \in CardRec /\ c.open = card[t].open /\ c.busy = TRUE /\ c.liked = TRUE /\ c.likes = card[t].likes + 1 /\ c.base = card[t].base
          BY <1>2, <4>1, <4>2 DEF CardRec
        <4> QED BY <2>0, <3>2, <4>1, <4>3 DEF One
      <3> QED BY <2>0, <3>1, <3>2
    <2>2. q \in CallRec /\ q.at = "find" /\ q.wasLiked = card[t].liked
      <3>1. ASSUME NEW b \in BOOLEAN
            PROVE  LET k == [NoCall EXCEPT !.at = "find", !.wasLiked = b] IN k \in CallRec /\ k.at = "find" /\ k.wasLiked = b
        BY <3>1, <1>5 DEF CallRec
      <3> QED BY <2>0, <3>1
    <2>3. card' = [card EXCEPT ![t] = c] /\ request' = [request EXCEPT ![t] = q] /\ UNCHANGED <<mine, unaware>> /\ card[t].open /\ ~card[t].busy
      BY <1>1, <1>10 DEF Click
    <2> HIDE DEF c, q
    <2> QED BY <1>3, <1>4, <2>1, <2>2, <2>3 DEF CardOK, KnowsRow, Going
  <1>11. CASE FindLike(t)
    <2> DEFINE q == [request[t] EXCEPT !.at = IF request[t].wasLiked = (mine # 0) THEN "write" ELSE "refused", !.id = mine]
    <2>1. q \in CallRec /\ q.at \in {"write", "refused"} /\ q.wasLiked = request[t].wasLiked /\ q.id = mine
      BY <1>1, <1>2 DEF CallRec
    <2>2. card' = [card EXCEPT ![t] = card[t]] /\ request' = [request EXCEPT ![t] = q] /\ UNCHANGED <<mine, unaware>> /\ request[t].at = "find"
      BY <1>1, <1>11 DEF FindLike
    <2> HIDE DEF q
    <2> QED BY <1>2, <1>3, <1>4, <2>1, <2>2 DEF CardOK, KnowsRow, Going
  <1>12. CASE InsertLike(t) \/ RemoveLike(t)
    <2>1. ASSUME NEW s \in {"ok", "refused"}
          PROVE  LET q == [request[t] EXCEPT !.at = s] IN q \in CallRec /\ q.at = s /\ q.wasLiked = request[t].wasLiked
      BY <1>2 DEF CallRec
    <2>2. PICK s \in {"ok", "refused"} : Send(t, s)
      BY <1>12 DEF InsertLike, RemoveLike
    <2> DEFINE q == [request[t] EXCEPT !.at = s]
    <2>3. q \in CallRec /\ q.at = s /\ q.wasLiked = request[t].wasLiked
      BY <2>1
    <2>4. card' = [card EXCEPT ![t] = card[t]] /\ request' = [request EXCEPT ![t] = q]
      BY <1>1, <1>12, <2>2 DEF InsertLike, RemoveLike, Send
    <2>5. request[t].at = "write" /\ (t \notin unaware' => t \notin unaware)
      BY <1>12 DEF InsertLike, RemoveLike, Mislead
    <2> HIDE DEF q
    <2>6. card' \in [Tabs -> CardRec] /\ request' \in [Tabs -> CallRec] /\ card'[t] = card[t] /\ request'[t] = q
      BY <1>2, <1>4, <2>3, <2>4
    <2>7. CardOK(t)'
      BY <1>3, <2>3, <2>5, <2>6 DEF CardOK, Going
    <2>8. ASSUME t \notin unaware PROVE s = "ok" /\ (mine' # 0) = ~request[t].wasLiked
      <3>0. request[t].wasLiked = (mine # 0) /\ request[t].id = mine
        BY <1>3, <2>5, <2>8 DEF KnowsRow
      <3>1. CASE InsertLike(t)
        <4>1. mine = 0 /\ ~request[t].wasLiked
          BY <3>0, <3>1 DEF InsertLike
        <4>2. mine' = rows + 1 /\ Send(t, "ok")
          BY <3>1, <4>1 DEF InsertLike
        <4>3. request'[t].at = "ok"
          BY <1>1, <1>2, <4>2 DEF Send, CallRec
        <4> QED BY <1>1, <2>3, <2>6, <4>1, <4>2, <4>3
      <3>2. CASE RemoveLike(t)
        <4>1. request[t].wasLiked /\ mine' = 0 /\ Send(t, "ok")
          BY <3>0, <3>2 DEF RemoveLike
        <4>2. request'[t].at = "ok"
          BY <1>1, <1>2, <4>1 DEF Send, CallRec
        <4> QED BY <2>3, <2>6, <4>1, <4>2
      <3> QED BY <1>12, <3>1, <3>2
    <2> QED BY <1>3, <2>3, <2>5, <2>6, <2>7, <2>8 DEF KnowsRow, CardOK, Going
  <1>13. CASE Answered(t)
    <2> DEFINE c == [card[t] EXCEPT !.busy = FALSE]
    <2>1. c \in CardRec /\ c.open = card[t].open /\ ~c.busy /\ c.liked = card[t].liked /\ c.likes = card[t].likes /\ c.base = card[t].base
      BY <1>2 DEF CardRec
    <2>2. card' = [card EXCEPT ![t] = c] /\ request' = [request EXCEPT ![t] = NoCall] /\ UNCHANGED <<mine, unaware>> /\ request[t].at = "ok"
      BY <1>1, <1>13 DEF Answered
    <2> HIDE DEF c
    <2> QED BY <1>3, <1>4, <1>5, <2>1, <2>2 DEF CardOK, KnowsRow, Going
  <1>14. CASE Revert(t)
    <2> DEFINE c == [card[t] EXCEPT !.liked = request[t].wasLiked, !.busy = FALSE,
                                    !.likes = @ + (IF request[t].wasLiked THEN 1 ELSE -1)]
    <2>1. request[t].at \in Going
      BY <1>14 DEF Revert, Going
    <2>0. /\ card[t].likes \in -1 .. 3 /\ card[t].base \in -1 .. 2 /\ card[t].liked \in BOOLEAN
          /\ card[t].likes - One(card[t].liked) = card[t].base /\ request[t].wasLiked \in BOOLEAN
          /\ card[t].liked = ~request[t].wasLiked
      BY <1>2, <1>3, <2>1 DEF CardRec, CallRec, CardOK
    <2>2. c \in CardRec /\ c.open = card[t].open /\ ~c.busy /\ c.liked = request[t].wasLiked /\ c.likes - One(c.liked) = c.base
      <3>1. CASE request[t].wasLiked = TRUE
        <4>0. card[t].liked = FALSE
          BY <2>0, <3>1
        <4>1. card[t].likes + 1 \in -1 .. 3 /\ card[t].likes + 1 - 1 = card[t].base
          BY <2>0, <4>0 DEF One
        <4>2. c = [card[t] EXCEPT !.liked = TRUE, !.busy = FALSE, !.likes = card[t].likes + 1]
          BY <1>2, <2>0, <3>1 DEF CardRec
        <4>3. c \in CardRec /\ c.open = card[t].open /\ c.busy = FALSE /\ c.liked = TRUE /\ c.likes = card[t].likes + 1 /\ c.base = card[t].base
          BY <1>2, <4>1, <4>2 DEF CardRec
        <4> QED BY <2>0, <3>1, <4>1, <4>3 DEF One
      <3>2. CASE request[t].wasLiked = FALSE
        <4>0. card[t].liked = TRUE
          BY <2>0, <3>2
        <4>1. card[t].likes - 1 \in -1 .. 3 /\ card[t].likes - 1 = card[t].base
          BY <2>0, <4>0 DEF One
        <4>2. c = [card[t] EXCEPT !.liked = FALSE, !.busy = FALSE, !.likes = card[t].likes - 1]
          BY <1>2, <2>0, <3>2 DEF CardRec
        <4>3. c \in CardRec /\ c.open = card[t].open /\ c.busy = FALSE /\ c.liked = FALSE /\ c.likes = card[t].likes - 1 /\ c.base = card[t].base
          BY <1>2, <4>1, <4>2 DEF CardRec
        <4> QED BY <2>0, <3>2, <4>1, <4>3 DEF One
      <3> QED BY <2>0, <3>1, <3>2
    <2>3. card' = [card EXCEPT ![t] = c] /\ request' = [request EXCEPT ![t] = NoCall] /\ mine' = mine
          /\ (t \notin unaware' => t \notin unaware /\ request[t].at # "ok")
      BY <1>1, <1>14 DEF Revert
    <2> HIDE DEF c
    <2> QED BY <1>3, <1>4, <1>5, <2>1, <2>2, <2>3 DEF CardOK, KnowsRow, Going
  <1> QED BY <1>6, <1>7, <1>8, <1>9, <1>10, <1>11, <1>12, <1>13, <1>14 DEF LikeAct

\* A write is unknown to every other tab that is open or has asked.
LEMMA LikeOthers ==
    ASSUME LikeIInv, NEW t \in Tabs, LikeAct(t), NEW s \in Tabs \ {t}, s \notin unaware'
    PROVE  KnowsRow(s)'
  <1>1. card'[s] = card[s] /\ request'[s] = request[s]
    BY LikeFrame DEF LikeIInv
  <1>2. CASE mine' = mine
    <2>1. s \notin unaware
      BY DEF LikeAct, OpenHome, CountLikes, OpenOther, Close, Click, FindLike, InsertLike, RemoveLike, Mislead, Answered, Revert
    <2> QED BY <1>1, <1>2, <2>1 DEF LikeIInv, KnowsRow
  <1>3. CASE mine' # mine
    <2>1. Mislead(t)
      BY <1>3 DEF LikeAct, OpenHome, CountLikes, OpenOther, Close, Click, FindLike, InsertLike, RemoveLike, Answered, Revert
    <2>2. ~card[s].open /\ request[s] = NoCall
      BY <2>1 DEF Mislead
    <2> QED BY <1>1, <2>2 DEF KnowsRow, NoCall
  <1> QED BY <1>2, <1>3

LEMMA LikeKeeps == LikeIInv /\ [LikeNext]_lvars => LikeIInv'
  <1> SUFFICES ASSUME LikeIInv, [LikeNext]_lvars PROVE LikeIInv'
    OBVIOUS
  <1>1. CASE OtherLikes
    <2>1. others' \in 0 .. 1 /\ UNCHANGED <<mine, rows, card, request, unaware>>
      BY <1>1 DEF OtherLikes, LikeIInv, LikeTypeOK
    <2> QED BY <2>1 DEF LikeIInv, LikeTypeOK, CardOK, KnowsRow
  <1>2. ASSUME NEW t \in Tabs, LikeAct(t) PROVE LikeIInv'
    <2>0. mine \in 0 .. MaxLikes /\ rows \in 0 .. MaxLikes /\ mine <= rows /\ unaware \subseteq Tabs
      BY DEF LikeIInv, LikeTypeOK
    <2>1. mine' \in 0 .. MaxLikes /\ rows' \in 0 .. MaxLikes /\ mine' <= rows' /\ others' = others
      <3>1. CASE OpenHome(t) \/ CountLikes(t) \/ OpenOther(t) \/ Close(t) \/ Click(t)
        BY <2>0, <3>1 DEF OpenHome, CountLikes, OpenOther, Close, Click
      <3>2. CASE FindLike(t) \/ Answered(t) \/ Revert(t)
        BY <2>0, <3>2 DEF FindLike, Answered, Revert
      <3>3. CASE InsertLike(t)
        BY <2>0, <3>3, MaxLikesAssumption DEF InsertLike
      <3>4. CASE RemoveLike(t)
        BY <2>0, <3>4, MaxLikesAssumption DEF RemoveLike
      <3> QED BY <1>2, <3>1, <3>2, <3>3, <3>4 DEF LikeAct
    <2>2. unaware' \subseteq Tabs
      BY <1>2, <2>0 DEF LikeAct, OpenHome, CountLikes, OpenOther, Close, Click,
         FindLike, InsertLike, RemoveLike, Mislead, Answered, Revert
    <2>3. LikeTypeOK'
      BY <1>2, <2>1, <2>2, LikeOwn DEF LikeIInv, LikeTypeOK, CardRec, CallRec
    <2>4. ASSUME NEW s \in Tabs PROVE CardOK(s)'
      BY <1>2, LikeOwn, LikeFrame DEF LikeIInv, CardOK
    <2>5. ASSUME NEW s \in Tabs \ unaware' PROVE KnowsRow(s)'
      BY <1>2, LikeOwn, LikeOthers
    <2> QED BY <2>1, <2>3, <2>4, <2>5 DEF LikeIInv
  <1>3. CASE UNCHANGED lvars
    BY <1>3 DEF lvars, LikeIInv, LikeTypeOK, CardOK, KnowsRow
  <1> QED BY <1>1, <1>2, <1>3 DEF LikeNext, LikeAct

--------------------------------------------------------------------------------
(* The follow buttons (FollowButton) *)

Mid   == {"sent", "done", "failed"}     \* a request that the button waits for
Ended == {k \in Clicks : click[k].at = "over"}

\* The number of followers moves by one with each request that has ended.
FollowersInv == followers \in 0 - Cardinality(Ended) .. 1 + Cardinality(Ended)

\* One request at a time, and none beside a lookup.
AloneInv == /\ \A j, k \in Clicks : click[j].at \in Mid /\ click[k].at \in Mid => j = k
            /\ \A k \in Clicks : click[k].at \in Mid => button.busy /\ lookup.at = "none"

\* What the button and the number say while a request is on its way, and when it was served.
BeforeServed(k) ==
    click[k].at \in {"sent", "failed"} => /\ edge # (click[k].op = "follow") /\ button.following = edge
                                          /\ page = "profile" => followers = One_(edge)
AfterServed(k) ==
    click[k].at = "done" => /\ edge = (click[k].op = "follow") /\ button.following # edge
                            /\ page = "profile" => followers = One_(~edge)

\* What they say at rest, and what a lookup brings.
RestInv == (\A k \in Clicks : click[k].at \notin Mid)
           => /\ page = "profile" => followers = One_(edge)
              /\ lookup.at = "none" => button.following = edge
AskInv  == /\ lookup.at # "none" /\ page = "discover" => ~button.following
           /\ lookup.at = "read" => lookup.says = edge

LedInv == ~misled => /\ AloneInv /\ RestInv /\ AskInv
                     /\ \A k \in Clicks : BeforeServed(k) /\ AfterServed(k)

ButtonIInv == ButtonTypeOK /\ FollowersInv /\ LedInv

ClickRec == [op : {"follow", "unfollow"}, at : {"unsent", "sent", "done", "failed", "over"}]

LEMMA EndedCount ==
    ASSUME NEW S \in SUBSET Clicks
    PROVE  /\ IsFiniteSet(S) /\ Cardinality(S) \in Nat /\ Cardinality(Clicks) \in Nat
           /\ Cardinality(S) <= Cardinality(Clicks)
           /\ \A k \in Clicks \ S : Cardinality(S \cup {k}) = Cardinality(S) + 1
  <1>1. IsFiniteSet(S) /\ Cardinality(S) <= Cardinality(Clicks)
    BY ClicksAssumption, FS_Subset
  <1>2. Cardinality(S) \in Nat /\ Cardinality(Clicks) \in Nat
    BY <1>1, ClicksAssumption, FS_CardinalityType
  <1>3. \A k \in Clicks \ S : Cardinality(S \cup {k}) = Cardinality(S) + 1
    BY <1>1, FS_AddElement
  <1> QED BY <1>1, <1>2, <1>3

LEMMA ButtonStarts == ButtonInit => ButtonIInv
  <1> SUFFICES ASSUME ButtonInit PROVE ButtonIInv
    OBVIOUS
  <1>1. \A k \in Clicks : click[k] = NoClick
    BY DEF ButtonInit
  <1>2. Ended = {} /\ Cardinality(Ended) = 0
    BY <1>1, FS_EmptySet DEF Ended, NoClick
  <1>3. followers \in 0 .. 1
    BY DEF ButtonInit, One_
  <1>4. FollowersInv
    BY <1>2, <1>3 DEF FollowersInv
  <1>5. Cardinality(Clicks) \in Nat
    BY EndedCount
  <1>6. ButtonTypeOK
    <2>1. followers \in 0 - Cardinality(Clicks) .. 1 + Cardinality(Clicks)
      BY <1>3, <1>5
    <2>2. elsewhere \in 0 .. MaxElsewhere
      BY MaxElsewhereAssumption DEF ButtonInit
    <2>3. click \in [Clicks -> [op : {"follow", "unfollow"}, at : {"unsent", "sent", "done", "failed", "over"}]]
      BY DEF ButtonInit, NoClick
    <2> QED BY <2>1, <2>2, <2>3 DEF ButtonInit, ButtonTypeOK
  <1>7. \A k \in Clicks : click[k].at \notin Mid
    BY <1>1 DEF NoClick, Mid
  <1>8. LedInv
    BY <1>7 DEF ButtonInit, LedInv, AloneInv, RestInv, AskInv, BeforeServed, AfterServed, Mid
  <1> QED BY <1>4, <1>6, <1>8 DEF ButtonIInv

ClickStep(k) == Click_(k) \/ Serve(k) \/ ClickFails(k) \/ Succeed(k) \/ Fail(k)

\* A request changes alone, and in the order of its stages.
LEMMA ClickFrame ==
    ASSUME ButtonTypeOK, NEW k \in Clicks, ClickStep(k)
    PROVE  /\ click' \in [Clicks -> ClickRec] /\ \A j \in Clicks \ {k} : click'[j] = click[j]
           /\ click'[k].at = "over" <=> Succeed(k) \/ Fail(k)
           /\ click[k].at # "over"
           /\ ~Click_(k) => click'[k].op = click[k].op
  <1> DEFINE Rec == [op : {"follow", "unfollow"}, at : {"unsent", "sent", "done", "failed", "over"}]
  <1>1. click \in [Clicks -> Rec] /\ click[k] \in Rec
    BY DEF ButtonTypeOK
  <1>2. CASE Click_(k)
    BY <1>1, <1>2 DEF Click_, Succeed, Fail, ClickRec
  <1>3. CASE Serve(k)
    BY <1>1, <1>3 DEF Serve, Succeed, Fail, ClickRec
  <1>4. CASE ClickFails(k)
    BY <1>1, <1>4 DEF ClickFails, Succeed, Fail, ClickRec
  <1>5. CASE Succeed(k)
    BY <1>1, <1>5 DEF Succeed, ClickRec
  <1>6. CASE Fail(k)
    BY <1>1, <1>6 DEF Fail, ClickRec
  <1> QED BY <1>2, <1>3, <1>4, <1>5, <1>6 DEF ClickStep

LEMMA FollowersStep ==
    ASSUME ButtonIInv, NEW k \in Clicks, ClickStep(k)
    PROVE  FollowersInv' /\ ButtonTypeOK'
  <1>1. /\ click' \in [Clicks -> ClickRec] /\ \A j \in Clicks \ {k} : click'[j] = click[j]
        /\ click'[k].at = "over" <=> Succeed(k) \/ Fail(k)
        /\ click[k].at # "over"
    BY ClickFrame DEF ButtonIInv
  <1>2. Ended' = IF Succeed(k) \/ Fail(k) THEN Ended \cup {k} ELSE Ended
    BY <1>1 DEF Ended
  <1>3. Ended \in SUBSET Clicks /\ Ended' \in SUBSET Clicks /\ k \notin Ended
    BY <1>1 DEF Ended
  <1>4. /\ Cardinality(Ended) \in Nat /\ Cardinality(Ended') \in Nat /\ Cardinality(Clicks) \in Nat
        /\ Cardinality(Ended') <= Cardinality(Clicks)
        /\ Cardinality(Ended') = IF Succeed(k) \/ Fail(k) THEN Cardinality(Ended) + 1 ELSE Cardinality(Ended)
    BY <1>2, <1>3, EndedCount
  <1>5. followers \in Int /\ 0 - Cardinality(Ended) <= followers /\ followers <= 1 + Cardinality(Ended)
    BY <1>4 DEF ButtonIInv, FollowersInv
  <1>6. followers' \in {followers - 1, followers, followers + 1} /\ (~Succeed(k) => followers' = followers)
    BY DEF ClickStep, Click_, Serve, ClickFails, Succeed, Fail
  <1>7. followers' \in 0 - Cardinality(Ended') .. 1 + Cardinality(Ended')
    BY <1>4, <1>5, <1>6
  <1>8. followers' \in 0 - Cardinality(Clicks) .. 1 + Cardinality(Clicks)
    BY <1>4, <1>7
  <1>9. button \in [following : BOOLEAN, busy : BOOLEAN] /\ misled \in BOOLEAN /\ edge \in BOOLEAN /\ page \in Pages
        /\ lookup \in [at : {"none", "asked", "read"}, says : BOOLEAN] /\ elsewhere \in 0 .. MaxElsewhere
    BY DEF ButtonIInv, ButtonTypeOK
  <1>10. button' \in [following : BOOLEAN, busy : BOOLEAN]
    <2>1. CASE Click_(k) \/ Serve(k) \/ ClickFails(k)
      BY <1>9, <2>1 DEF Click_, Serve, ClickFails
    <2>2. CASE Succeed(k)
      BY <2>2 DEF Succeed
    <2>3. CASE Fail(k)
      BY <2>3 DEF Fail
    <2> QED BY <2>1, <2>2, <2>3 DEF ClickStep
  <1>11. misled' \in BOOLEAN /\ edge' \in BOOLEAN
    BY <1>9 DEF ClickStep, Click_, Serve, ClickFails, Succeed, Fail
  <1>12. UNCHANGED <<page, lookup, elsewhere>>
    BY DEF ClickStep, Click_, Serve, ClickFails, Succeed, Fail
  <1>13. ButtonTypeOK'
    BY <1>1, <1>8, <1>9, <1>10, <1>11, <1>12 DEF ButtonTypeOK, ClickRec
  <1> QED BY <1>7, <1>13 DEF FollowersInv


LEMMA LedStep ==
    ASSUME ButtonIInv, NEW k \in Clicks, ClickStep(k), ~misled'
    PROVE  /\ AloneInv' /\ RestInv' /\ AskInv'
           /\ \A j \in Clicks : (BeforeServed(j) /\ AfterServed(j))'
  <1>1. /\ click' \in [Clicks -> ClickRec] /\ \A j \in Clicks \ {k} : click'[j] = click[j]
        /\ click'[k].at = "over" <=> Succeed(k) \/ Fail(k)
        /\ ~Click_(k) => click'[k].op = click[k].op
    BY ClickFrame DEF ButtonIInv
  <1>2. /\ click \in [Clicks -> ClickRec] /\ edge \in BOOLEAN /\ button \in [following : BOOLEAN, busy : BOOLEAN]
        /\ page \in Pages
    BY DEF ButtonIInv, ButtonTypeOK, ClickRec
  <1>3. ~misled
    BY DEF ClickStep, Click_, Serve, ClickFails, Succeed, Fail
  <1>4. AloneInv /\ RestInv /\ AskInv /\ BeforeServed(k) /\ AfterServed(k)
    BY <1>3 DEF ButtonIInv, LedInv
  <1>5. lookup.at = "none" /\ lookup' = lookup /\ page' = page
    <2>1. CASE Click_(k)
      BY <2>1 DEF Click_
    <2>2. CASE Serve(k) \/ ClickFails(k) \/ Succeed(k) \/ Fail(k)
      BY <1>4, <2>2 DEF AloneInv, Mid, Serve, ClickFails, Succeed, Fail
    <2> QED BY <2>1, <2>2 DEF ClickStep
  \* Only this request is under way, before and after.
  <1>6. \A j \in Clicks \ {k} : click[j].at \notin Mid /\ click'[j].at \notin Mid
    <2>1. CASE Click_(k)
      BY <1>1, <1>4, <2>1 DEF AloneInv, Click_
    <2>2. CASE Serve(k) \/ ClickFails(k) \/ Succeed(k) \/ Fail(k)
      BY <1>1, <1>4, <2>2 DEF AloneInv, Mid, Serve, ClickFails, Succeed, Fail
    <2> QED BY <2>1, <2>2 DEF ClickStep
  <1>7. \A j \in Clicks \ {k} : (BeforeServed(j) /\ AfterServed(j))'
    BY <1>6 DEF BeforeServed, AfterServed, Mid
  <1>8. AskInv'
    BY <1>5 DEF AskInv
  \* What is left to show is about this request.
  <1>9. SUFFICES /\ click'[k].at \in Mid => button'.busy
                 /\ BeforeServed(k)' /\ AfterServed(k)'
                 /\ click'[k].at \notin Mid => (page = "profile" => followers' = One_(edge')) /\ button'.following = edge'
    BY <1>5, <1>6, <1>7, <1>8 DEF AloneInv, RestInv
  <1>10. CASE Click_(k)
    <2>1. click[k].at \notin Mid /\ ~button.busy
      BY <1>10 DEF Click_, Mid
    <2>2. button.following = edge /\ (page = "profile" => followers = One_(edge))
      BY <1>4, <1>5, <1>6, <2>1 DEF RestInv
    <2>3. /\ click'[k].at = "sent" /\ button'.busy = TRUE /\ button'.following = button.following
          /\ click'[k].op = IF button.following THEN "unfollow" ELSE "follow"
          /\ edge' = edge /\ followers' = followers
      BY <1>2, <1>10 DEF Click_
    <2> QED BY <1>2, <1>5, <2>2, <2>3 DEF BeforeServed, AfterServed, Mid
  <1>11. CASE Serve(k)
    <2>1. /\ click[k].at = "sent" /\ edge' = (click[k].op = "follow") /\ button' = button /\ followers' = followers
          /\ click'[k].at = IF edge = (click[k].op = "follow") THEN "failed" ELSE "done"
      BY <1>2, <1>11 DEF Serve
    <2>2. /\ edge # (click[k].op = "follow") /\ button.following = edge /\ button.busy
          /\ page = "profile" => followers = One_(edge)
      BY <1>4, <2>1 DEF BeforeServed, AloneInv, Mid
    <2>a. click'[k].at = "done"
      BY <2>1, <2>2
    <2>b. ~Click_(k)
      BY <2>1 DEF Click_
    <2>3. click'[k].at = "done" /\ click'[k].op = click[k].op
      BY <1>1, <2>a, <2>b
    <2>4. edge = ~edge'
      BY <1>2, <2>1, <2>2
    <2> QED BY <1>2, <1>5, <2>1, <2>2, <2>3, <2>4 DEF BeforeServed, AfterServed, Mid
  <1>12. CASE ClickFails(k)
    <2>1. click[k].at = "sent"
      BY <1>3, <1>12 DEF ClickFails
    <2>2. click'[k].at = "failed" /\ click'[k].op = click[k].op /\ UNCHANGED <<edge, button, followers>>
      BY <1>1, <1>2, <1>12 DEF ClickFails
    <2> QED BY <1>4, <1>5, <2>1, <2>2 DEF BeforeServed, AfterServed, AloneInv, Mid
  <1>13. CASE Succeed(k)
    <2>1. click'[k].at = "over"
      BY <1>1, <1>13
    <2>2. click[k].at = "done" /\ edge' = edge /\ button'.following = (click[k].op = "follow")
      BY <1>13 DEF Succeed
    <2>3. edge = (click[k].op = "follow") /\ (page = "profile" => followers = One_(~edge))
      BY <1>4, <2>2 DEF AfterServed
    <2>4. page = "profile" => followers' = IF edge THEN followers + 1 ELSE followers - 1
      BY <1>13, <2>3 DEF Succeed
    <2>5. page = "profile" => followers' = One_(edge)
      BY <1>2, <2>3, <2>4 DEF One_
    <2> QED BY <2>1, <2>2, <2>3, <2>5 DEF BeforeServed, AfterServed, Mid
  <1>14. CASE Fail(k)
    <2>1. click'[k].at = "over"
      BY <1>1, <1>14
    <2>2. click[k].at = "failed" /\ edge' = edge /\ followers' = followers
          /\ button'.following = (page = "profile" /\ button.following)
          /\ (page = "discover" => click[k].op # "unfollow")
      BY <1>14 DEF Fail
    <2>3. edge # (click[k].op = "follow") /\ button.following = edge /\ (page = "profile" => followers = One_(edge))
      BY <1>4, <2>2 DEF BeforeServed
    <2>4. click[k].op \in {"follow", "unfollow"}
      BY <1>2 DEF ClickRec
    <2>5. page = "discover" => edge = FALSE
      BY <1>2, <2>2, <2>3, <2>4
    <2>6. button'.following = edge
      BY <1>2, <2>2, <2>3, <2>5 DEF Pages
    <2> QED BY <2>1, <2>2, <2>3, <2>6 DEF BeforeServed, AfterServed, Mid
  <1> QED BY <1>10, <1>11, <1>12, <1>13, <1>14 DEF ClickStep

LEMMA LookupStep ==
    ASSUME ButtonIInv, ReadEdge \/ TakeAnswer \/ LookupFails \/ SearchAgain \/ Elsewhere
    PROVE  ButtonIInv'
  <1>1. /\ edge \in BOOLEAN /\ button \in [following : BOOLEAN, busy : BOOLEAN] /\ page \in Pages
        /\ lookup \in [at : {"none", "asked", "read"}, says : BOOLEAN] /\ elsewhere \in 0 .. MaxElsewhere
    BY DEF ButtonIInv, ButtonTypeOK
  <1>2. UNCHANGED <<page, followers, click>>
    BY DEF ReadEdge, TakeAnswer, LookupFails, SearchAgain, Elsewhere
  <1>3. FollowersInv'
    BY <1>2 DEF ButtonIInv, FollowersInv, Ended
  <1>4. button' \in [following : BOOLEAN, busy : BOOLEAN] /\ lookup' \in [at : {"none", "asked", "read"}, says : BOOLEAN]
    <2>1. CASE ReadEdge
      BY <1>1, <2>1 DEF ReadEdge
    <2>2. CASE LookupFails
      BY <1>1, <2>2 DEF LookupFails
    <2>3. CASE SearchAgain
      BY <1>1, <2>3 DEF SearchAgain
    <2>4. CASE Elsewhere
      <3>1. UNCHANGED <<button, lookup>>
        BY <2>4 DEF Elsewhere
      <3> QED BY <1>1, <3>1
    <2>5. CASE TakeAnswer
      BY <1>1, <2>5 DEF TakeAnswer
    <2> QED BY <2>1, <2>2, <2>3, <2>4, <2>5
  <1>5. edge' \in BOOLEAN /\ misled' \in BOOLEAN /\ elsewhere' \in 0 .. MaxElsewhere
    <2>1. CASE ReadEdge \/ LookupFails \/ SearchAgain \/ TakeAnswer
      BY <1>1, <2>1 DEF ReadEdge, LookupFails, SearchAgain, TakeAnswer, ButtonIInv, ButtonTypeOK
    <2>2. CASE Elsewhere
      BY <1>1, <2>2, MaxElsewhereAssumption DEF Elsewhere
    <2> QED BY <2>1, <2>2
  <1>6. ButtonTypeOK'
    BY <1>2, <1>4, <1>5 DEF ButtonIInv, ButtonTypeOK
  <1>7. ASSUME ~misled'
        PROVE  AloneInv' /\ RestInv' /\ AskInv' /\ \A j \in Clicks : (BeforeServed(j) /\ AfterServed(j))'
    <2>1. ~LookupFails /\ ~Elsewhere /\ ~misled
      BY <1>7 DEF LookupFails, Elsewhere, ReadEdge, TakeAnswer, SearchAgain
    <2>2. AloneInv /\ RestInv /\ AskInv /\ edge' = edge
      BY <2>1 DEF ButtonIInv, LedInv, ReadEdge, TakeAnswer, SearchAgain
    <2>3. \A j \in Clicks : click[j].at \notin Mid
      <3>1. CASE ReadEdge \/ TakeAnswer
        BY <2>2, <3>1 DEF AloneInv, ReadEdge, TakeAnswer
      <3>2. CASE SearchAgain
        BY <2>2, <3>2 DEF AloneInv, SearchAgain
      <3> QED BY <2>1, <3>1, <3>2
    <2>4. AloneInv' /\ \A j \in Clicks : (BeforeServed(j) /\ AfterServed(j))'
      BY <1>2, <2>3 DEF AloneInv, BeforeServed, AfterServed, Mid
    <2>5. page = "profile" => followers = One_(edge)
      BY <2>2, <2>3 DEF RestInv
    <2>6. CASE ReadEdge
      BY <1>1, <1>2, <2>2, <2>4, <2>5, <2>6 DEF RestInv, AskInv, ReadEdge
    <2>7. CASE TakeAnswer
      <3>1. lookup.at = "read" /\ lookup.says = edge /\ lookup'.at = "none"
        BY <1>1, <2>2, <2>7 DEF AskInv, TakeAnswer
      <3>2. button'.following = edge
        BY <1>1, <2>2, <2>7, <3>1 DEF AskInv, TakeAnswer, Pages
      <3> QED BY <1>2, <2>2, <2>4, <2>5, <3>1, <3>2 DEF RestInv, AskInv
    <2>8. CASE SearchAgain
      BY <1>1, <1>2, <2>2, <2>4, <2>5, <2>8 DEF RestInv, AskInv, SearchAgain
    <2> QED BY <2>1, <2>6, <2>7, <2>8
  <1> QED BY <1>3, <1>6, <1>7 DEF ButtonIInv, LedInv

LEMMA ButtonKeeps == ButtonIInv /\ [ButtonNext]_bvars => ButtonIInv'
  <1> SUFFICES ASSUME ButtonIInv, [ButtonNext]_bvars PROVE ButtonIInv'
    OBVIOUS
  <1>1. ASSUME NEW k \in Clicks, ClickStep(k) PROVE ButtonIInv'
    BY <1>1, FollowersStep, LedStep DEF ButtonIInv, LedInv
  <1>2. CASE UNCHANGED bvars
    BY <1>2 DEF bvars, ButtonIInv, ButtonTypeOK, FollowersInv, Ended, LedInv, AloneInv, RestInv, AskInv, BeforeServed, AfterServed
  <1> QED BY <1>1, <1>2, LookupStep DEF ButtonNext, ClickStep

--------------------------------------------------------------------------------
(* Both buttons *)

\* For every number of clicks, tabs and likes, whatever fails and whatever order answers come
\* in: a follow button that was not misled says whether the account is followed and sends no
\* request that is refused as done; the number beside a heart does not drift by the updates
\* that are put back, and a heart at rest is what the database has.
THEOREM ButtonsInvHolds == AccountsSpec => []ButtonsInv
  <1>1. AccountsInit => ButtonIInv /\ LikeIInv
    BY ButtonStarts, LikeStarts DEF AccountsInit
  <1>2. ButtonIInv /\ LikeIInv /\ [AccountsNext]_accountVars => (ButtonIInv /\ LikeIInv)'
    <2> SUFFICES ASSUME ButtonIInv, LikeIInv, [AccountsNext]_accountVars PROVE ButtonIInv' /\ LikeIInv'
      OBVIOUS
    <2>1. [ButtonNext]_bvars /\ [LikeNext]_lvars
      BY DEF AccountsNext, accountVars
    <2> QED BY <2>1, ButtonKeeps, LikeKeeps
  <1>3. ButtonIInv => ButtonInv
    BY DEF ButtonIInv, ButtonInv, ButtonIsTrue, SentIsAChange, LedInv, RestInv, BeforeServed, Sent, Mid
  <1>4. LikeIInv => HeartInv
    BY DEF LikeIInv, HeartInv, CountFollowsHeart, HeartIsTrue, CardOK, KnowsRow
  <1>5. ButtonIInv /\ LikeIInv => ButtonsInv
    BY <1>3, <1>4 DEF ButtonsInv
  <1> QED BY <1>1, <1>2, <1>5, PTL DEF AccountsSpec

====
