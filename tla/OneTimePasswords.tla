-------------------------- MODULE OneTimePasswords --------------------------
(***************************************************************************)
(* One-time passwords: verification of an e-mail, the second step of a     *)
(* login and the reset of a password (services/auth_service.py), with the  *)
(* creation of accounts that sends the first code.                         *)
(*                                                                         *)
(* Codes are kept in Redis under e-mail, purpose and tenant (send_otp and  *)
(* verify_otp of the OTP handler, outside the repository's sources): a new *)
(* code replaces the one under its key, a verification that finds its code *)
(* removes it in the same step, and a cooldown may refuse to send.         *)
(*                                                                         *)
(* A request reads the account, then talks to Redis, then selects the      *)
(* account again, then writes: other requests come between any two.  The   *)
(* second select returns the object already loaded, and a column is        *)
(* written only when it differs from the value loaded.                     *)
(*                                                                         *)
(* Abstracted: passwords and hashes, roles, the clock (Expire, and a send  *)
(* that may be refused at any time), e-mails (a code that is never         *)
(* presented may have been lost), the counter of wrong attempts.  Accounts *)
(* are named by their e-mail.  A registration, a deletion and a restore    *)
(* are one step each (their races are in Accounts and Onboarding).         *)
(***************************************************************************)
EXTENDS Naturals, Sequences

CONSTANTS
  User,      (* e-mail addresses, which name the accounts                   *)
  Tenant,
  MaxSent,   (* bounds the number of codes sent                             *)
  Req,       (* slots for requests in flight; bounds the concurrency        *)
  None       (* no account, no code                                         *)

Purpose == {"verify_email", "login", "reset_password"}
Code    == 1..MaxSent

ASSUME MaxSentAssumption == MaxSent \in Nat
ASSUME NoneAssumption    == None \notin Code \cup Tenant

VARIABLES
  users,     (* committed accounts                                          *)
  otp,       (* Redis: e-mail, purpose and tenant -> the code stored        *)
  sent,      (* history: the codes sent; a code is its place in here        *)
  req,       (* requests in flight                                          *)
  effects,   (* history: what codes have brought about                      *)
  answer     (* history: the success the last step answered, if it did      *)

vars == <<users, otp, sent, req, effects, answer>>

(* since is history: the number of codes sent before the account was       *)
(* registered, or registered again.                                        *)
Account == [tenant: Tenant, verified: BOOLEAN, active: BOOLEAN,
            deleted: {"no", "self", "admin"}, since: 0..MaxSent]
NoAccount == [tenant |-> None, verified |-> FALSE, active |-> FALSE,
              deleted |-> "never", since |-> 0]

Key == User \X Purpose \X Tenant

Idle     == [op |-> "idle"]
NoAnswer == [op |-> "none"]

(* What a handler uses of the account it loaded.  moved is history: the    *)
(* account was deleted or registered again since.                          *)
Loaded(row) == [tenant |-> row.tenant, verified |-> row.verified,
                active |-> row.active]

LoadedRow == [tenant: Tenant, verified: BOOLEAN, active: BOOLEAN]

Request ==
  {Idle}
    \cup [op: {"send"}, user: User, purpose: Purpose, tenant: Tenant]
    \cup [op: {"read", "consumed", "selected"}, user: User, purpose: Purpose,
          row: LoadedRow, code: Code, moved: BOOLEAN]

TypeOK ==
  /\ users \in [User -> Account \cup {NoAccount}]
  /\ otp \in [Key -> Code \cup {None}]
  /\ sent \in Seq([user: User, purpose: Purpose, tenant: Tenant])
  /\ Len(sent) <= MaxSent
  /\ req \in [Req -> Request]
  /\ effects \subseteq [code: Code, at: [user: User, purpose: Purpose]]
  /\ answer \in {NoAnswer}
       \cup [op: {"success"}, user: User, purpose: Purpose, code: Code,
             moved: BOOLEAN]

-----------------------------------------------------------------------------
Live == {u \in User : users[u].deleted = "no"}

Presented == {"read", "consumed", "selected"}

(* Every request about u, once u was deleted or registered again.          *)
MoveOn(u) ==
  req' = [r \in Req |-> IF req[r].op \in Presented /\ req[r].user = u
                          THEN [req[r] EXCEPT !.moved = TRUE] ELSE req[r]]

Start(r, request) ==
  /\ req[r] = Idle
  /\ req' = [req EXCEPT ![r] = request]
  /\ answer' = NoAnswer
  /\ UNCHANGED <<users, otp, sent, effects>>

Advance(r, op) == req' = [req EXCEPT ![r].op = op]

(* The response is a success / is an error or never comes.                 *)
Succeed(r) ==
  /\ req' = [req EXCEPT ![r] = Idle]
  /\ answer' = [op |-> "success", user |-> req[r].user,
                purpose |-> req[r].purpose, code |-> req[r].code,
                moved |-> req[r].moved]
Fail(r) ==
  /\ req' = [req EXCEPT ![r] = Idle]
  /\ answer' = NoAnswer

Init ==
  /\ users = [u \in User |-> NoAccount]
  /\ otp = [k \in Key |-> None]
  /\ sent = <<>>
  /\ req = [r \in Req |-> Idle]
  /\ effects = {}
  /\ answer = NoAnswer

-----------------------------------------------------------------------------
(* Sending.                                                                *)

SendTo(u, p, t) == [op |-> "send", user |-> u, purpose |-> p, tenant |-> t]

(* Mutant: the signup is recorded under no tenant.                         *)
MutantRegister(r, u, t) ==
  /\ users[u].deleted \in {"never", "self"}
  /\ users' = [users EXCEPT ![u] =
                 [tenant |-> None, verified |-> FALSE, active |-> FALSE,
                  deleted |-> "no", since |-> Len(sent)]]
  /\ req[r] = Idle
  /\ req' = [req EXCEPT ![r] = SendTo(u, "verify_email", t)]
  /\ answer' = NoAnswer
  /\ UNCHANGED <<otp, sent, effects>>

(* Mutant: the code is sent under the tenant the account had before.       *)
MutantRegisterOldTenant(r, u, t) ==
  /\ req[r] = Idle
  /\ users[u].deleted \in {"never", "self"}
  /\ users' = [users EXCEPT ![u] =
                 [tenant |-> t, verified |-> FALSE, active |-> FALSE,
                  deleted |-> "no", since |-> Len(sent)]]
  /\ req' = [req EXCEPT ![r] =
               SendTo(u, "verify_email",
                      IF users[u] = NoAccount THEN t ELSE users[u].tenant)]
  /\ answer' = NoAnswer
  /\ UNCHANGED <<otp, sent, effects>>

(* register_user, create_user, accept_invitation and register_tenant up to *)
(* the commit of the account; the code is sent after it.  register_user    *)
(* takes a self-deleted account over, in the tenant of the new signup.     *)
Register(r, u, t) ==
  /\ req[r] = Idle
  /\ users[u].deleted \in {"never", "self"}
  /\ users' = [users EXCEPT ![u] =
                 [tenant |-> t, verified |-> FALSE, active |-> FALSE,
                  deleted |-> "no", since |-> Len(sent)]]
  /\ req' = [q \in Req |->
               IF q = r THEN SendTo(u, "verify_email", t)
               ELSE IF req[q].op \in Presented /\ req[q].user = u
               THEN [req[q] EXCEPT !.moved = TRUE] ELSE req[q]]
  /\ answer' = NoAnswer
  /\ UNCHANGED <<otp, sent, effects>>

(* Mutant: is_verified is not looked at.                                   *)
MutantResendVerification(r, u) ==
  /\ u \in Live
  /\ Start(r, SendTo(u, "verify_email", users[u].tenant))

ResendVerification(r, u) ==
  /\ u \in Live
  /\ ~users[u].verified
  /\ Start(r, SendTo(u, "verify_email", users[u].tenant))

LoginOtpInit(r, u) ==
  /\ u \in Live
  /\ users[u].active
  /\ users[u].verified
  /\ Start(r, SendTo(u, "login", users[u].tenant))

(* The router passes no tenant, so the code is sent under the account's.   *)
ForgotPassword(r, u) ==
  /\ u \in Live
  /\ Start(r, SendTo(u, "reset_password", users[u].tenant))

Send(r) ==
  /\ req[r].op = "send"
  /\ Len(sent) < MaxSent
  /\ sent' = Append(sent, [user |-> req[r].user, purpose |-> req[r].purpose,
                           tenant |-> req[r].tenant])
  /\ otp' = [otp EXCEPT ![<<req[r].user, req[r].purpose, req[r].tenant>>] =
               Len(sent) + 1]
  /\ Fail(r)
  /\ UNCHANGED <<users, effects>>

(* The cooldown of the key: the request fails, what it committed stays.    *)
SendRefused(r) ==
  /\ req[r].op = "send"
  /\ Fail(r)
  /\ UNCHANGED <<users, otp, sent, effects>>

Expire(k) ==
  /\ otp[k] # None
  /\ otp' = [otp EXCEPT ![k] = None]
  /\ answer' = NoAnswer
  /\ UNCHANGED <<users, sent, req, effects>>

-----------------------------------------------------------------------------
(* Presenting a code: verify_email, login_otp_verify and                   *)
(* forgot_password_confirm begin with the live account of the e-mail.      *)

Present(r, u, p, c) ==
  /\ u \in Live
  /\ c \in 1..Len(sent)
  /\ sent[c].user = u
  /\ Start(r, [op |-> "read", user |-> u, purpose |-> p,
               row |-> Loaded(users[u]), code |-> c, moved |-> FALSE])

(* Mutant: every confirmation looks up the same purpose.                   *)
MutantKeyOf(q) == <<q.user, "verify_email", q.row.tenant>>

KeyOf(q) == <<q.user, q.purpose, q.row.tenant>>

(* verify_otp, under the tenant of the account as loaded.                  *)
Consume(r) ==
  /\ req[r].op = "read"
  /\ otp[KeyOf(req[r])] = req[r].code
  /\ otp' = [otp EXCEPT ![KeyOf(req[r])] = None]
  /\ Advance(r, "consumed")
  /\ answer' = NoAnswer
  /\ UNCHANGED <<users, sent, effects>>

Refuse(r) ==
  /\ req[r].op = "read"
  /\ otp[KeyOf(req[r])] # req[r].code
  /\ Fail(r)
  /\ UNCHANGED <<users, otp, sent, effects>>

Effect(q) == [code |-> q.code, at |-> [user |-> q.user, purpose |-> q.purpose]]

(* login_otp_verify issues the tokens from the account as loaded.          *)
Issue(r) ==
  /\ req[r].op = "consumed"
  /\ req[r].purpose = "login"
  /\ \/ /\ req[r].row.active
        /\ effects' = effects \cup {Effect(req[r])}
        /\ Succeed(r)
     \/ /\ ~req[r].row.active
        /\ Fail(r)
        /\ UNCHANGED effects
  /\ UNCHANGED <<users, otp, sent>>

(* update_user selects the account again, if it is live.                   *)
Select(r) ==
  /\ req[r].op = "consumed"
  /\ req[r].purpose # "login"
  /\ req[r].user \in Live
  /\ Advance(r, "selected")
  /\ answer' = NoAnswer
  /\ UNCHANGED <<users, otp, sent, effects>>

(* It finds none, returns None, and the answer is a success all the same.  *)
Miss(r) ==
  /\ req[r].op = "consumed"
  /\ req[r].purpose # "login"
  /\ req[r].user \notin Live
  /\ Succeed(r)
  /\ UNCHANGED <<users, otp, sent, effects>>

(* Mutant: the column is written only when it is set already.              *)
MutantSetTrue(loaded, stored) == IF loaded THEN TRUE ELSE stored

SetTrue(loaded, stored) == IF loaded THEN stored ELSE TRUE

WriteVerified(r) ==
  /\ req[r].op = "selected"
  /\ req[r].purpose = "verify_email"
  /\ users' = [users EXCEPT
       ![req[r].user].verified = SetTrue(req[r].row.verified, @),
       ![req[r].user].active   = SetTrue(req[r].row.active, @)]
  /\ effects' = effects \cup {Effect(req[r])}
  /\ Succeed(r)
  /\ UNCHANGED <<otp, sent>>

(* hashed_password is not part of an Account.                              *)
WritePassword(r) ==
  /\ req[r].op = "selected"
  /\ req[r].purpose = "reset_password"
  /\ effects' = effects \cup {Effect(req[r])}
  /\ Succeed(r)
  /\ UNCHANGED <<users, otp, sent>>

-----------------------------------------------------------------------------
(* Accounts and crashes.                                                   *)

Delete(u, by) ==
  /\ u \in Live
  /\ users' = [users EXCEPT ![u].deleted = by]
  /\ MoveOn(u)
  /\ answer' = NoAnswer
  /\ UNCHANGED <<otp, sent, effects>>

Restore(u) ==
  /\ users[u].deleted \in {"self", "admin"}
  /\ users' = [users EXCEPT ![u].deleted = "no"]
  /\ answer' = NoAnswer
  /\ UNCHANGED <<otp, sent, req, effects>>

SetActive(u, active) ==
  /\ u \in Live
  /\ users[u].active # active
  /\ users' = [users EXCEPT ![u].active = active]
  /\ answer' = NoAnswer
  /\ UNCHANGED <<otp, sent, req, effects>>

(* The process dies or the client is gone: what is not committed is lost,  *)
(* what Redis was told is not.                                             *)
Crash(r) ==
  /\ req[r] # Idle
  /\ Fail(r)
  /\ UNCHANGED <<users, otp, sent, effects>>

Ask(r) ==
  \E u \in User :
    \/ \E t \in Tenant : Register(r, u, t)
    \/ ResendVerification(r, u)
    \/ LoginOtpInit(r, u)
    \/ ForgotPassword(r, u)
    \/ \E p \in Purpose, c \in Code : Present(r, u, p, c)

(* What the server does by itself once a request was accepted.             *)
Proceed(r) ==
  \/ Send(r)
  \/ SendRefused(r)
  \/ Consume(r)
  \/ Refuse(r)
  \/ Issue(r)
  \/ Select(r)
  \/ Miss(r)
  \/ WriteVerified(r)
  \/ WritePassword(r)

ChangeAccount ==
  \E u \in User :
    \/ \E by \in {"self", "admin"} : Delete(u, by)
    \/ Restore(u)
    \/ \E active \in BOOLEAN : SetActive(u, active)

Next ==
  \/ \E r \in Req : Ask(r) \/ Proceed(r) \/ Crash(r)
  \/ \E k \in Key : Expire(k)
  \/ ChangeAccount

Spec == Init /\ [][Next]_vars

(* The event loop runs every request it accepted to its end.               *)
FairSpec == Spec /\ \A r \in Req : WF_vars(Proceed(r))

-----------------------------------------------------------------------------
(* Properties.                                                             *)

IsStored(c) == otp[<<sent[c].user, sent[c].purpose, sent[c].tenant>>] = c
IsTaken(c)  == \E r \in Req : /\ req[r].op \in {"consumed", "selected"}
                             /\ req[r].code = c
IsUsed(c)   == \E e \in effects : e.code = c

Life(c) ==
  IF c > Len(sent) THEN "unsent"
  ELSE IF IsStored(c) THEN "stored"
  ELSE IF IsTaken(c) THEN "taken"
  ELSE IF IsUsed(c) THEN "used"
  ELSE "void"

OTC == INSTANCE OneTimeCode WITH
         Account <- User,
         to <- [c \in 1..Len(sent) |->
                  [user |-> sent[c].user, purpose |-> sent[c].purpose]],
         life <- [c \in Code |-> Life(c)]

(* However often, for whatever and by however many requests a code is      *)
(* presented, and whatever becomes of the account or the process meanwhile *)
(* it has one effect at most, on the account and for the purpose it was    *)
(* sent for; and a code that was consumed is settled.                      *)
OneTime == OTC!Spec

(* A verification that answers success has verified the account, unless it *)
(* was deleted, or deleted and registered again, since the request read it *)
(* (verify_email consumes the code before it selects the row to update).   *)
SuccessVerifies ==
  answer.op = "success" /\ answer.purpose = "verify_email" /\ ~answer.moved
    => answer.user \in Live /\ users[answer.user].verified

(* A code sent to an account since it was registered, or registered again, *)
(* is stored under the tenant its confirmation looks under: forgot_password*)
(* and forgot_password_confirm agree on the tenant, and so do the others.  *)
CodesReach ==
  \A u \in Live : \A c \in 1..Len(sent) :
    c > users[u].since /\ sent[c].user = u => sent[c].tenant = users[u].tenant

(* A verified account has no verification code it could still present: a   *)
(* verification activates the account, and would undo what an admin did    *)
(* with PATCH /users/{id}/.                                                *)
NoCodeForVerified ==
  \A u \in Live :
    users[u].verified => otp[<<u, "verify_email", users[u].tenant>>] = None
=============================================================================
