---- MODULE OtpLogin ----
(***************************************************************************)
(* AuthService and OtpService for one email address: registration with its *)
(* roll-back, login, and the verification of a code.  The code, the        *)
(* attempts and the cooldown are three keys in Redis, each with a time to  *)
(* live, changed one await at a time; no column of users is unique.        *)
(***************************************************************************)
EXTENDS Naturals, FiniteSets

CONSTANTS
    Logins,      \* executions of register, login and verifyOtp; the account and the
                   \* code that one of them makes are named after it
    MaxAttempts,   \* otp.maxAttempts
    NoCode,        \* no code in Redis; typed, it is a wrong one
    OtpFaults      \* may a call to Redis, to the database or to the mailer fail?

ASSUME MaxAttemptsAssumption == MaxAttempts \in Nat \ {0}
ASSUME NoCodeAssumption == NoCode \notin Logins
ASSUME OtpFaultsAssumption == OtpFaults \in BOOLEAN

VARIABLES
    accounts,     \* the rows of users with this email
    onboarded,    \* those whose status is no longer pending_wallet
    otp,          \* otp:<email>
    attempts,     \* otp_attempts:<email>; `older`: counted before the code was stored
    cooldown,     \* otp_cooldown:<email>
    mailed,       \* the codes that were delivered
    login,        \* what each handler does, and what it holds
    step,         \* the await it has reached
    won,          \* the verifications that each code passed (history)
    tried,        \* how often a wrong code was compared with each code (history)
    met,          \* handlers that overlapped with another one (history)
    failed        \* handlers that ended with an exception (history)

ovars_ == <<accounts, onboarded, otp, attempts, cooldown, mailed, login, step, won, tried, met, failed>>

Sending   == {"find", "create", "check", "store", "reset", "mail", "rollback"}
Verifying == {"locked", "count", "expire", "lock", "dropCode", "dropCount", "read", "use", "clear", "account"}
NoLogin   == [op |-> "login", typed |-> NoCode, made |-> FALSE]
Zero      == [n |-> 0, ttl |-> FALSE, older |-> FALSE]

OtpTypeOK ==
    /\ accounts \subseteq Logins /\ onboarded \subseteq Logins
    /\ otp \in Logins \cup {NoCode} /\ cooldown \in BOOLEAN
    /\ attempts \in [n : Nat, ttl : BOOLEAN, older : BOOLEAN]
    /\ mailed \subseteq Logins
    /\ login \in [Logins -> [op : {"register", "login", "verify"}, typed : Logins \cup {NoCode}, made : BOOLEAN]]
    /\ step \in [Logins -> Sending \cup Verifying \cup {"idle", "done"}]
    /\ won \in [Logins -> SUBSET Logins] /\ tried \in [Logins -> Nat]
    /\ met \subseteq Logins /\ failed \subseteq Logins

OtpInit ==
    /\ accounts = {} /\ onboarded = {}
    /\ otp = NoCode /\ attempts = Zero /\ cooldown = FALSE /\ mailed = {}
    /\ login = [h \in Logins |-> NoLogin]
    /\ step = [h \in Logins |-> "idle"]
    /\ won = [h \in Logins |-> {}] /\ tried = [h \in Logins |-> 0]
    /\ met = {} /\ failed = {}

--------------------------------------------------------------------------------

UnderWay_   == {h \in Logins : step[h] \notin {"idle", "done"}}
To(h, s)  == /\ step' = [step EXCEPT ![h] = s]
             /\ login' = IF s = "done" THEN [login EXCEPT ![h] = NoLogin] ELSE login
Throws(h) == failed' = failed \cup {h}
Proof     == <<won, tried>>
Redis     == <<otp, attempts, cooldown>>
People    == <<accounts, onboarded>>

Arrive(h, op, typed) ==
    /\ step[h] = "idle"
    /\ login' = [login EXCEPT ![h] = [NoLogin EXCEPT !.op = op, !.typed = typed]]
    /\ met' = IF UnderWay_ = {} THEN met ELSE met \cup UnderWay_ \cup {h}
    /\ step' = [step EXCEPT ![h] = IF op = "verify" THEN "locked" ELSE "find"]
    /\ UNCHANGED <<People, Redis, mailed, Proof, failed>>

(* register and login *)

\* findByEmailOrPhone takes any row.  A pending account is sent another code, an onboarded
\* one may only log in, an unknown one only register.
FindUser(h) ==
    /\ step[h] = "find"
    /\ \/ accounts = {} /\ To(h, IF login[h].op = "register" THEN "create" ELSE "done")
       \/ \E a \in accounts :
             To(h, IF login[h].op = "register" /\ a \in onboarded THEN "done" ELSE "check")
    /\ UNCHANGED <<People, Redis, mailed, Proof, met, failed>>

CreateUser(h) ==
    /\ step[h] = "create"
    /\ accounts' = accounts \cup {h}
    /\ login' = [login EXCEPT ![h].made = TRUE]
    /\ step' = [step EXCEPT ![h] = "check"]
    /\ UNCHANGED <<onboarded, Redis, mailed, Proof, met, failed>>

\* Where an exception in generateOtp leads: register rolls back what it made.
Caught(h) == IF login[h].made THEN "rollback" ELSE "done"

\* generateOtp: the cooldown holds for new codes too.
CheckCooldown(h) ==
    /\ step[h] = "check"
    /\ To(h, IF cooldown THEN Caught(h) ELSE "store")
    /\ failed' = IF cooldown THEN failed \cup {h} ELSE failed
    /\ UNCHANGED <<People, Redis, mailed, Proof, met>>

StoreCode(h) ==
    /\ step[h] = "store"
    /\ otp' = h
    /\ attempts' = [attempts EXCEPT !.older = attempts.n > 0]
    /\ To(h, "reset")
    /\ UNCHANGED <<People, cooldown, mailed, Proof, met, failed>>

ResetAttempts(h) ==
    /\ step[h] = "reset"
    /\ attempts' = Zero
    /\ To(h, "mail")
    /\ UNCHANGED <<People, otp, cooldown, mailed, Proof, met, failed>>

SendMail(h) ==
    /\ step[h] = "mail"
    /\ mailed' = mailed \cup {h}
    /\ To(h, "done")
    /\ UNCHANGED <<People, Redis, Proof, met, failed>>

Rollback(h) ==
    /\ step[h] = "rollback"
    /\ accounts' = accounts \ {h} /\ onboarded' = onboarded \ {h}
    /\ To(h, "done")
    /\ UNCHANGED <<Redis, mailed, Proof, met, failed>>

(* verifyOtp *)

CheckLocked(h) ==
    /\ step[h] = "locked"
    /\ To(h, IF cooldown THEN "done" ELSE "count")
    /\ UNCHANGED <<People, Redis, mailed, Proof, met, failed>>

\* A slip: only wrong codes that were compared before are counted, not this one.
CountLate(h) ==
    /\ step[h] = "count"
    /\ attempts' = [attempts EXCEPT !.n = @ + 1]
    /\ To(h, IF attempts.n > MaxAttempts THEN "lock" ELSE IF attempts.n = 0 THEN "expire" ELSE "read")
    /\ UNCHANGED <<People, otp, cooldown, mailed, Proof, met, failed>>

\* incr answers with the new number; only the first one gives the key a time to live.
CountAttempt(h) ==
    /\ step[h] = "count"
    /\ attempts' = [attempts EXCEPT !.n = @ + 1]
    /\ To(h, IF attempts'.n > MaxAttempts THEN "lock" ELSE IF attempts'.n = 1 THEN "expire" ELSE "read")
    /\ UNCHANGED <<People, otp, cooldown, mailed, Proof, met, failed>>

ExpireAttempts(h) ==
    /\ step[h] = "expire"
    /\ attempts' = [attempts EXCEPT !.ttl = attempts.n > 0]
    /\ To(h, "read")
    /\ UNCHANGED <<People, otp, cooldown, mailed, Proof, met, failed>>

Lock(h) ==
    /\ step[h] = "lock"
    /\ cooldown' = TRUE
    /\ To(h, "dropCode")
    /\ UNCHANGED <<People, otp, attempts, mailed, Proof, met, failed>>

\* del of the code, after too many attempts or after the right one.
DropCode(h) ==
    /\ step[h] \in {"dropCode", "use"}
    /\ otp' = NoCode
    /\ To(h, IF step[h] = "use" THEN "clear" ELSE "dropCount")
    /\ UNCHANGED <<People, attempts, cooldown, mailed, Proof, met, failed>>

DropAttempts(h) ==
    /\ step[h] \in {"dropCount", "clear"}
    /\ attempts' = Zero
    /\ To(h, IF step[h] = "clear" THEN "account" ELSE "done")
    /\ UNCHANGED <<People, otp, cooldown, mailed, Proof, met, failed>>

ReadCode(h) ==
    /\ step[h] = "read"
    /\ To(h, IF otp # NoCode /\ otp = login[h].typed THEN "use" ELSE "done")
    /\ tried' = IF otp \in {NoCode, login[h].typed} THEN tried ELSE [tried EXCEPT ![otp] = @ + 1]
    /\ UNCHANGED <<People, Redis, mailed, won, met, failed>>

\* "No account found for this email", or tokens for any of the rows.
IssueTokens(h) ==
    /\ step[h] = "account"
    /\ won' = IF accounts = {} THEN won ELSE [won EXCEPT ![login[h].typed] = @ \cup {h}]
    /\ To(h, "done")
    /\ UNCHANGED <<People, Redis, mailed, tried, met, failed>>

(* times to live, and failures *)

CodeExpires ==
    /\ otp # NoCode /\ otp' = NoCode
    /\ UNCHANGED <<People, attempts, cooldown, mailed, login, step, Proof, met, failed>>

\* Both keys live equally long, so that attempts on a code outlive it.
AttemptsExpire ==
    /\ attempts.ttl /\ (otp = NoCode \/ attempts.older)
    /\ attempts' = Zero
    /\ UNCHANGED <<People, otp, cooldown, mailed, login, step, Proof, met, failed>>

CooldownExpires ==
    /\ cooldown /\ cooldown' = FALSE
    /\ UNCHANGED <<People, otp, attempts, mailed, login, step, Proof, met, failed>>

\* An await throws.  In generateOtp, register catches it and rolls back.
HandlerFails(h) ==
    /\ OtpFaults /\ step[h] \in (Sending \cup Verifying) \ {"rollback"}
    /\ To(h, IF step[h] \in Sending THEN Caught(h) ELSE "done")
    /\ Throws(h)
    /\ UNCHANGED <<People, Redis, mailed, Proof, met>>

\* The process dies, or the roll-back fails.
HandlerDies(h) ==
    /\ OtpFaults /\ step[h] \in {"check", "store", "reset", "mail", "rollback"}
    /\ To(h, "done")
    /\ Throws(h)
    /\ UNCHANGED <<People, Redis, mailed, Proof, met>>

\* createWallet ends the registration of an account.
EndRegistration(a) ==
    /\ a \in accounts \ onboarded /\ \E o \in Logins : won[o] # {}
    /\ onboarded' = onboarded \cup {a}
    /\ UNCHANGED <<accounts, Redis, mailed, login, step, Proof, met, failed>>

OtpNext ==
    \/ \E h \in Logins :
          \/ \E op \in {"register", "login"} : Arrive(h, op, NoCode)
          \/ \E typed \in mailed \cup {NoCode} : Arrive(h, "verify", typed)
          \/ FindUser(h) \/ CreateUser(h) \/ CheckCooldown(h) \/ StoreCode(h) \/ ResetAttempts(h)
          \/ SendMail(h) \/ Rollback(h)
          \/ CheckLocked(h) \/ CountAttempt(h) \/ ExpireAttempts(h) \/ Lock(h) \/ DropCode(h)
          \/ DropAttempts(h) \/ ReadCode(h) \/ IssueTokens(h)
          \/ HandlerFails(h) \/ HandlerDies(h) \/ EndRegistration(h)
    \/ CodeExpires \/ AttemptsExpire \/ CooldownExpires

OtpSpec == OtpInit /\ [][OtpNext]_ovars_

--------------------------------------------------------------------------------

\* A code opens one session, however failed verifications and new codes mix with it, unless
\* two verifications of it overlap: both then read it before either deletes it.
OtpUsedOnce == \A o \in Logins : Cardinality(won[o]) > 1 => won[o] \subseteq met

\* otp.maxAttempts bounds the wrong guesses at one code, also of verifications that run at
\* once, with keys that expire and calls that fail; unless the code was made while another
\* handler ran, or its making failed.
GuessesBounded == \A o \in Logins \ (met \cup failed) : tried[o] <= MaxAttempts

\* "An account with this email already exists": two only after registrations that overlapped.
OneAccount == Cardinality(accounts) > 1 => accounts \subseteq met

\* Who was told that a code is on its way has an account to sign in to, unless another
\* registration ran beside this one and rolled its account back.
MailedHasAccount == \A o \in mailed \ met : accounts # {}

\* What codes are good for, with expiring keys, failures and any overlap of handlers.
LoginInv == OtpTypeOK /\ OtpUsedOnce /\ GuessesBounded /\ OneAccount /\ MailedHasAccount

\* Not kept by the code (README.md, section 3): a registration whose roll-back follows the
\* mail of another one leaves a code without an account.
MailedHasAccountAlways == mailed # {} => accounts # {}

================================================================================
