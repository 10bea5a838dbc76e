----------------------- MODULE OneTimePasswordsProofs ------------------------
(***************************************************************************)
(* Proofs about OneTimePasswords, for any number of accounts, tenants,     *)
(* codes and concurrent requests.  A code is at one place only: under its  *)
(* own key, with one request that took it, or among the effects; that is   *)
(* what makes its life the life of OneTimeCode.  The last sections are     *)
(* about requests that run one after the other.                            *)
(***************************************************************************)
EXTENDS MCOneTimePasswords, TLAPS

Sent == 1..Len(sent)

Addressed(c) == <<sent[c].user, sent[c].purpose, sent[c].tenant>>

Taken(r) == req[r].op \in {"consumed", "selected"}

(* What is stored under a key was sent to it.                              *)
KeysMatch ==
  \A k \in Key : otp[k] # None => otp[k] \in Sent /\ Addressed(otp[k]) = k

(* A request presents a code of its own account; one that took it, for the *)
(* purpose it was sent for, is the only place the code is at.              *)
CodeInFlight(r) ==
  /\ req[r].op \in Presented => /\ req[r].code \in Sent
                                /\ sent[req[r].code].user = req[r].user
  /\ Taken(r) => /\ sent[req[r].code].purpose = req[r].purpose
                 /\ ~IsStored(req[r].code)
                 /\ ~IsUsed(req[r].code)

OneTaker ==
  \A r, q \in Req : Taken(r) /\ Taken(q) /\ req[r].code = req[q].code => r = q

EffectsMatch ==
  \A e \in effects :
    /\ e.code \in Sent
    /\ e.at = [user |-> sent[e.code].user, purpose |-> sent[e.code].purpose]
    /\ ~IsStored(e.code)

(* The inductive invariant about codes.                                    *)
CodesInv ==
  /\ TypeOK
  /\ KeysMatch
  /\ \A r \in Req : CodeInFlight(r)
  /\ OneTaker
  /\ EffectsMatch

(* A request that presents a code is about an account that exists; unless  *)
(* it was deleted or registered again since, the account is live, and      *)
(* verified if it was when it was loaded.                                  *)
RequestSound(r) ==
  req[r].op \in Presented =>
    /\ users[req[r].user] \in Account
    /\ ~req[r].moved => /\ req[r].user \in Live
                        /\ req[r].row.verified => users[req[r].user].verified

RequestsSound == \A r \in Req : RequestSound(r)

PresentedRequest ==
  [op: Presented, user: User, purpose: Purpose, row: LoadedRow, code: Code,
   moved: BOOLEAN]

LEMMA RequestKinds ==
  ASSUME NEW rq \in Request
  PROVE  /\ rq.op \in Presented => rq \in PresentedRequest
         /\ rq.op = "send" => rq \in [op: {"send"}, user: User, purpose: Purpose,
                                      tenant: Tenant]
         /\ rq.op \in Presented \cup {"send", "idle"}
         /\ rq.op = "idle" => rq = Idle
BY DEF Request, Presented, PresentedRequest, Idle

LEMMA PresentedIsRequest == PresentedRequest \subseteq Request
BY DEF Request, Presented, PresentedRequest

-----------------------------------------------------------------------------
(* The steps, by what they do to codes.                                    *)

(* No code moves.                                                          *)
Quiet ==
  /\ UNCHANGED <<otp, sent, effects>>
  /\ req' \in [Req -> Request]
  /\ \A r \in Req :
       /\ Taken(r)' <=> Taken(r)
       /\ Taken(r) => /\ req'[r].code = req[r].code
                      /\ req'[r].user = req[r].user
                      /\ req'[r].purpose = req[r].purpose
       /\ req'[r].op \in Presented =>
            /\ req'[r].code \in Sent
            /\ sent[req'[r].code].user = req'[r].user

(* The request ends with nothing written.                                  *)
Dropped(r) ==
  /\ req' = [req EXCEPT ![r] = Idle]
  /\ UNCHANGED <<otp, sent, effects>>

Used(r) ==
  /\ Taken(r)
  /\ req' = [req EXCEPT ![r] = Idle]
  /\ effects' = effects \cup {Effect(req[r])}
  /\ UNCHANGED <<otp, sent>>

LEMMA StartIsQuiet ==
  ASSUME CodesInv, NEW r \in Req, NEW rq \in Request, Start(r, rq),
         rq.op \in {"send", "read"},
         rq.op = "read" => rq.code \in Sent /\ sent[rq.code].user = rq.user
  PROVE  Quiet /\ users' = users
<1>1. req[r] = Idle /\ req' = [req EXCEPT ![r] = rq]
  BY DEF Start
<1>2. UNCHANGED <<otp, sent, effects, users>>
  BY DEF Start
<1>3. ~Taken(r) /\ ~Taken(r)'
  BY <1>1 DEF Taken, Idle, CodesInv, TypeOK
<1> QED
  BY <1>1, <1>2, <1>3 DEF Quiet, CodesInv, TypeOK, CodeInFlight, Taken, Presented

(* Marking the requests about an account as moved.                         *)
Marked(rq) == [rq EXCEPT !.moved = TRUE]

LEMMA MarkedRequest ==
  ASSUME NEW rq \in Request, rq.op \in Presented
  PROVE  /\ Marked(rq) \in Request
         /\ Marked(rq).op = rq.op
         /\ Marked(rq).code = rq.code
         /\ Marked(rq).user = rq.user
         /\ Marked(rq).purpose = rq.purpose
         /\ Marked(rq).row = rq.row
         /\ Marked(rq).moved = TRUE
<1>1. rq \in PresentedRequest
  BY RequestKinds
<1>2. Marked(rq) \in PresentedRequest
  BY <1>1 DEF PresentedRequest, Marked
<1> QED
  BY <1>1, <1>2, PresentedIsRequest DEF PresentedRequest, Marked

LEMMA MarkedOrSame ==
  ASSUME CodesInv, NEW q \in Req,
         req'[q] = req[q] \/ (req[q].op \in Presented /\ req'[q] = Marked(req[q]))
  PROVE  /\ req'[q] \in Request
         /\ req'[q].op = req[q].op
         /\ req[q].op \in Presented => /\ req'[q].code = req[q].code
                                       /\ req'[q].user = req[q].user
                                       /\ req'[q].purpose = req[q].purpose
<1>1. req[q] \in Request
  BY DEF CodesInv, TypeOK
<1>2. CASE req'[q] = req[q]
  BY <1>1, <1>2
<1>3. CASE req[q].op \in Presented /\ req'[q] = Marked(req[q])
  BY <1>1, <1>3, MarkedRequest
<1> QED
  BY <1>2, <1>3

LEMMA AskIsQuiet ==
  ASSUME CodesInv, NEW r \in Req, Ask(r)
  PROVE  Quiet
<1> USE DEF CodesInv, TypeOK
<1>1. PICK u \in User :
        \/ \E t \in Tenant : Register(r, u, t)
        \/ ResendVerification(r, u)
        \/ LoginOtpInit(r, u)
        \/ ForgotPassword(r, u)
        \/ \E p \in Purpose, c \in Code : Present(r, u, p, c)
  BY DEF Ask
<1>2. u \in Live => users[u].tenant \in Tenant
  BY DEF Live, Account, NoAccount
<1>3. \A p \in Purpose, t \in Tenant : SendTo(u, p, t) \in Request
                                       /\ SendTo(u, p, t).op = "send"
  BY DEF SendTo, Request
<1>4. ASSUME NEW t \in Tenant, Register(r, u, t)
      PROVE  Quiet
  <2>1. /\ req[r] = Idle
        /\ \A q \in Req : /\ q = r => req'[q] = SendTo(u, "verify_email", t)
                          /\ q # r => req'[q] = req[q]
                               \/ /\ req[q].op \in Presented
                                  /\ req'[q] = Marked(req[q])
        /\ DOMAIN req' = Req /\ req' = [q \in Req |-> req'[q]]
        /\ UNCHANGED <<otp, sent, effects>>
    BY <1>4 DEF Register, Marked
  <2>2. \A q \in Req : req'[q] \in Request
    BY <1>3, <2>1, MarkedOrSame DEF Purpose
  <2>3. ~Taken(r) /\ ~Taken(r)'
    BY <1>3, <2>1 DEF Taken, Idle, Purpose
  <2>4. \A q \in Req \ {r} : /\ req'[q].op = req[q].op
                             /\ req[q].op \in Presented =>
                                  /\ req'[q].code = req[q].code
                                  /\ req'[q].user = req[q].user
                                  /\ req'[q].purpose = req[q].purpose
    BY <2>1, MarkedOrSame
  <2>5. req'[r].op \notin Presented
    BY <1>3, <2>1 DEF Presented, Purpose
  <2> QED
    BY <2>1, <2>2, <2>3, <2>4, <2>5 DEF Quiet, Taken, Presented, CodeInFlight
<1>5. CASE ResendVerification(r, u)
  BY <1>2, <1>3, <1>5, StartIsQuiet DEF ResendVerification, Purpose
<1>6. CASE LoginOtpInit(r, u)
  BY <1>2, <1>3, <1>6, StartIsQuiet DEF LoginOtpInit, Purpose
<1>7. CASE ForgotPassword(r, u)
  BY <1>2, <1>3, <1>7, StartIsQuiet DEF ForgotPassword, Purpose
<1>8. ASSUME NEW p \in Purpose, NEW c \in Code, Present(r, u, p, c)
      PROVE  Quiet
  <2> DEFINE rq == [op |-> "read", user |-> u, purpose |-> p,
                    row |-> Loaded(users[u]), code |-> c, moved |-> FALSE]
  <2>1. u \in Live /\ c \in Sent /\ sent[c].user = u /\ Start(r, rq)
    BY <1>8 DEF Present, Sent
  <2>2. Loaded(users[u]) \in LoadedRow
    BY <2>1 DEF Live, Loaded, LoadedRow, Account, NoAccount
  <2>3. rq \in Request
    BY <2>2 DEF Request
  <2> QED
    BY <2>1, <2>3, StartIsQuiet
<1> QED
  BY <1>1, <1>4, <1>5, <1>6, <1>7, <1>8

LEMMA ChangeAccountIsQuiet ==
  ASSUME CodesInv, ChangeAccount
  PROVE  Quiet
<1> USE DEF CodesInv, TypeOK
<1>1. ASSUME UNCHANGED <<otp, sent, req, effects>>
      PROVE  Quiet
  BY <1>1 DEF Quiet, Taken, CodeInFlight
<1>2. ASSUME NEW u \in User, MoveOn(u), UNCHANGED <<otp, sent, effects>>
      PROVE  Quiet
  <2>1. /\ \A q \in Req : req'[q] = req[q]
                          \/ /\ req[q].op \in Presented
                             /\ req'[q] = Marked(req[q])
        /\ DOMAIN req' = Req /\ req' = [q \in Req |-> req'[q]]
    BY <1>2 DEF MoveOn, Marked
  <2>2. \A q \in Req : req'[q] \in Request
    BY <2>1, MarkedOrSame
  <2>3. \A q \in Req : /\ req'[q].op = req[q].op
                       /\ req[q].op \in Presented =>
                            /\ req'[q].code = req[q].code
                            /\ req'[q].user = req[q].user
                            /\ req'[q].purpose = req[q].purpose
    BY <2>1, MarkedOrSame
  <2> QED
    BY <1>2, <2>1, <2>2, <2>3 DEF Quiet, Taken, Presented, CodeInFlight
<1> QED
  BY <1>1, <1>2 DEF ChangeAccount, Delete, Restore, SetActive

(* A request that moves from one step to the next.                         *)
LEMMA AdvanceTo ==
  ASSUME CodesInv, NEW r \in Req, req[r].op \in Presented,
         NEW op \in Presented, Advance(r, op)
  PROVE  /\ req' \in [Req -> Request]
         /\ req'[r].op = op
         /\ req'[r].user = req[r].user
         /\ req'[r].purpose = req[r].purpose
         /\ req'[r].code = req[r].code
         /\ req'[r].row = req[r].row
         /\ req'[r].moved = req[r].moved
         /\ \A q \in Req \ {r} : req'[q] = req[q]
<1>1. req[r] \in PresentedRequest
  BY RequestKinds DEF CodesInv, TypeOK
<1>2. /\ [req[r] EXCEPT !.op = op] \in PresentedRequest
      /\ req' = [req EXCEPT ![r] = [req[r] EXCEPT !.op = op]]
  BY <1>1 DEF PresentedRequest, Advance
<1> QED
  BY <1>1, <1>2, PresentedIsRequest DEF CodesInv, TypeOK, PresentedRequest

LEMMA ProceedKinds ==
  ASSUME CodesInv, NEW r \in Req, Proceed(r) \/ Crash(r)
  PROVE  \/ Quiet
         \/ Send(r)
         \/ Consume(r)
         \/ Used(r)
         \/ Dropped(r)
<1> USE DEF CodesInv, TypeOK
<1>1. CASE Select(r)
  <2>1. req[r].op = "consumed" /\ Advance(r, "selected")
        /\ UNCHANGED <<otp, sent, effects>>
    BY <1>1 DEF Select
  <2>2. /\ req' \in [Req -> Request]
        /\ req'[r].op = "selected"
        /\ req'[r].user = req[r].user
        /\ req'[r].purpose = req[r].purpose
        /\ req'[r].code = req[r].code
        /\ \A q \in Req \ {r} : req'[q] = req[q]
    BY <2>1, AdvanceTo DEF Presented
  <2>3. \A q \in Req : CodeInFlight(q)
    OBVIOUS
  <2>4. Quiet
    BY <2>1, <2>2, <2>3 DEF Quiet, Taken, CodeInFlight, Presented
  <2> QED
    BY <2>4
<1>2. CASE SendRefused(r) \/ Refuse(r) \/ Miss(r) \/ Crash(r)
  BY <1>2 DEF SendRefused, Refuse, Miss, Crash, Fail, Succeed, Dropped
<1>3. CASE Issue(r)
  BY <1>3 DEF Issue, Succeed, Fail, Used, Dropped, Taken
<1>4. CASE WriteVerified(r) \/ WritePassword(r)
  BY <1>4 DEF WriteVerified, WritePassword, Succeed, Used, Taken
<1> QED
  BY <1>1, <1>2, <1>3, <1>4 DEF Proceed

LEMMA StepKinds ==
  ASSUME CodesInv, [Next]_vars
  PROVE  \/ Quiet
         \/ \E k \in Key : Expire(k)
         \/ \E r \in Req : Send(r) \/ Consume(r) \/ Used(r) \/ Dropped(r)
<1>1. CASE UNCHANGED vars
  BY <1>1 DEF vars, Quiet, Taken, CodesInv, TypeOK, CodeInFlight
<1>2. CASE Next
  <2>1. ASSUME NEW r \in Req, Ask(r)
        PROVE  Quiet
    BY <2>1, AskIsQuiet
  <2>2. ASSUME NEW r \in Req, Proceed(r) \/ Crash(r)
        PROVE  Quiet \/ Send(r) \/ Consume(r) \/ Used(r) \/ Dropped(r)
    BY <2>2, ProceedKinds
  <2> QED
    BY <1>2, <2>1, <2>2, ChangeAccountIsQuiet DEF Next
<1> QED
  BY <1>1, <1>2

-----------------------------------------------------------------------------
(* The invariant about codes is inductive.                                 *)

LEMMA InitCodes == Init => CodesInv
<1> SUFFICES ASSUME Init PROVE CodesInv
  OBVIOUS
<1>1. /\ users = [u \in User |-> NoAccount]
      /\ otp = [k \in Key |-> None]
      /\ sent = <<>>
      /\ req = [r \in Req |-> Idle]
      /\ effects = {}
      /\ answer = NoAnswer
  BY DEF Init
<1>2. TypeOK
  BY <1>1, MaxSentAssumption DEF TypeOK, Request
<1> QED
  BY <1>1, <1>2 DEF CodesInv, KeysMatch, CodeInFlight, OneTaker, EffectsMatch,
     Taken, Presented, Idle

LEMMA AddressedIsKey ==
  ASSUME CodesInv, NEW c \in Sent
  PROVE  c \in Code /\ Addressed(c) \in Key
<1>1. /\ sent \in Seq([user: User, purpose: Purpose, tenant: Tenant])
      /\ Len(sent) \in Nat /\ Len(sent) <= MaxSent
  BY DEF CodesInv, TypeOK
<1>2. sent[c] \in [user: User, purpose: Purpose, tenant: Tenant]
  <2> DEFINE Entry == [user: User, purpose: Purpose, tenant: Tenant]
  <2>1. sent \in Seq(Entry) /\ c \in 1..Len(sent)
    BY <1>1 DEF Sent
  <2> HIDE DEF Entry
  <2>2. sent[c] \in Entry
    BY <2>1
  <2> QED
    BY <2>2 DEF Entry
<1>3. c \in Code
  BY <1>1, MaxSentAssumption DEF Sent, Code
<1> QED
  BY <1>2, <1>3 DEF Addressed, Key

LEMMA SendStep ==
  ASSUME CodesInv, NEW r \in Req, Send(r), NEW n, n = Len(sent) + 1
  PROVE  /\ n \in Code
         /\ n \notin Sent
         /\ Sent' = Sent \cup {n}
         /\ sent' \in Seq([user: User, purpose: Purpose, tenant: Tenant])
         /\ Len(sent') <= MaxSent
         /\ \A c \in Sent : sent'[c] = sent[c]
         /\ Addressed(n)' \in Key
         /\ otp' = [otp EXCEPT ![Addressed(n)'] = n]
         /\ ~Taken(r)
         /\ req' = [req EXCEPT ![r] = Idle]
         /\ effects' = effects
<1>1. /\ req[r].op = "send"
      /\ Len(sent) < MaxSent
      /\ sent' = Append(sent, [user |-> req[r].user, purpose |-> req[r].purpose,
                               tenant |-> req[r].tenant])
      /\ otp' = [otp EXCEPT ![<<req[r].user, req[r].purpose, req[r].tenant>>] = n]
      /\ req' = [req EXCEPT ![r] = Idle]
      /\ effects' = effects
  BY DEF Send, Fail
<1>2. req[r] \in [op: {"send"}, user: User, purpose: Purpose, tenant: Tenant]
  BY <1>1, RequestKinds DEF CodesInv, TypeOK
<1>3. /\ sent \in Seq([user: User, purpose: Purpose, tenant: Tenant])
      /\ Len(sent) \in Nat
  BY DEF CodesInv, TypeOK
<1>4. /\ sent' \in Seq([user: User, purpose: Purpose, tenant: Tenant])
      /\ Len(sent') = n
      /\ \A c \in Sent : sent'[c] = sent[c]
      /\ sent'[n] = [user |-> req[r].user, purpose |-> req[r].purpose,
                     tenant |-> req[r].tenant]
  BY <1>1, <1>2, <1>3 DEF Sent
<1>5. n \in Code /\ n \notin Sent /\ Sent' = Sent \cup {n} /\ Len(sent') <= MaxSent
  BY <1>1, <1>3, <1>4, MaxSentAssumption DEF Code, Sent
<1>6. /\ Addressed(n)' = <<req[r].user, req[r].purpose, req[r].tenant>>
      /\ Addressed(n)' \in Key
  BY <1>2, <1>4 DEF Addressed, Key
<1> QED
  BY <1>1, <1>4, <1>5, <1>6 DEF Taken

LEMMA AnswerTyped ==
  ASSUME CodesInv, NEW r \in Req, Taken(r), Succeed(r)
  PROVE  answer' \in [op: {"success"}, user: User, purpose: Purpose, code: Code,
                      moved: BOOLEAN]
<1>1. req[r] \in PresentedRequest
  BY RequestKinds DEF CodesInv, TypeOK, Taken, Presented
<1> QED
  BY <1>1 DEF Succeed, PresentedRequest

(* The account as WriteVerified leaves it.                                 *)
WrittenVerified(r) ==
  [users[req[r].user] EXCEPT
     !.verified = SetTrue(req[r].row.verified, @),
     !.active   = SetTrue(req[r].row.active, @)]

LEMMA WriteVerifiedRow ==
  ASSUME CodesInv, NEW r \in Req, users[req[r].user] \in Account,
         req[r].user \in User, WriteVerified(r)
  PROVE  users' = [users EXCEPT ![req[r].user] = WrittenVerified(r)]
<1>1. users[req[r].user] =
        [tenant |-> users[req[r].user].tenant,
         verified |-> users[req[r].user].verified,
         active |-> users[req[r].user].active,
         deleted |-> users[req[r].user].deleted,
         since |-> users[req[r].user].since]
  BY DEF Account
<1> QED
  BY <1>1 DEF WriteVerified, WrittenVerified, CodesInv, TypeOK

LEMMA UsersTyped ==
  ASSUME CodesInv, RequestsSound, [Next]_vars
  PROVE  /\ users' \in [User -> Account \cup {NoAccount}]
         /\ answer' \in {NoAnswer}
              \cup [op: {"success"}, user: User, purpose: Purpose, code: Code,
                    moved: BOOLEAN]
<1>0. /\ users \in [User -> Account \cup {NoAccount}]
      /\ \A r \in Req : req[r] \in Request
      /\ Len(sent) \in 0..MaxSent
  BY MaxSentAssumption DEF CodesInv, TypeOK
<1>1. CASE UNCHANGED vars
  BY <1>1 DEF vars, CodesInv, TypeOK
<1>2. ASSUME NEW r \in Req, Ask(r)
      PROVE  users' \in [User -> Account \cup {NoAccount}] /\ answer' = NoAnswer
  <2>1. ASSUME NEW u \in User, NEW t \in Tenant, Register(r, u, t)
        PROVE  users' \in [User -> Account \cup {NoAccount}] /\ answer' = NoAnswer
    BY <1>0, <2>1 DEF Register, Account
  <2>2. ASSUME NEW rq, Start(r, rq)
        PROVE  users' = users /\ answer' = NoAnswer
    BY <2>2 DEF Start
  <2> QED
    BY <1>0, <1>2, <2>1, <2>2
       DEF Ask, ResendVerification, LoginOtpInit, ForgotPassword, Present
<1>3. ASSUME NEW r \in Req, WriteVerified(r)
      PROVE  users' \in [User -> Account \cup {NoAccount}]
  <2>1. users[req[r].user] \in Account /\ req[r].user \in User
    BY <1>0, <1>3, RequestKinds
       DEF WriteVerified, Presented, PresentedRequest, RequestsSound, RequestSound
  <2>2. \A loaded, stored \in BOOLEAN : SetTrue(loaded, stored) \in BOOLEAN
    BY DEF SetTrue
  <2>3. req[r].row.verified \in BOOLEAN /\ req[r].row.active \in BOOLEAN
    BY <1>0, <1>3, RequestKinds
       DEF WriteVerified, Presented, PresentedRequest, LoadedRow
  <2>4. WrittenVerified(r) \in Account
    BY <2>1, <2>2, <2>3 DEF WrittenVerified, Account
  <2> QED
    BY <1>0, <1>3, <2>1, <2>4, WriteVerifiedRow
<1>4. ASSUME NEW r \in Req, Proceed(r) \/ Crash(r)
      PROVE  /\ users' = users \/ WriteVerified(r)
             /\ answer' = NoAnswer \/ (Taken(r) /\ Succeed(r))
  BY <1>4 DEF Proceed, Crash, Send, SendRefused, Refuse, Consume, Issue, Select,
     Miss, WriteVerified, WritePassword, Fail, Taken
<1>5. ASSUME NEW k \in Key, Expire(k)
      PROVE  users' = users /\ answer' = NoAnswer
  BY <1>5 DEF Expire
<1>6. CASE ChangeAccount
  <2>1. ASSUME NEW u \in User, u \in Live \/ users[u].deleted \in {"self", "admin"}
        PROVE  users[u] \in Account
    BY <1>0, <2>1 DEF Live, NoAccount
  <2>2. answer' = NoAnswer
    BY <1>6 DEF ChangeAccount, Delete, Restore, SetActive
  <2>3. ASSUME NEW u \in User, NEW by \in {"self", "admin"}, Delete(u, by)
        PROVE  users' \in [User -> Account \cup {NoAccount}]
    BY <1>0, <2>1, <2>3 DEF Delete, Account
  <2>4. ASSUME NEW u \in User, Restore(u)
        PROVE  users' \in [User -> Account \cup {NoAccount}]
    BY <1>0, <2>1, <2>4 DEF Restore, Account
  <2>5. ASSUME NEW u \in User, NEW active \in BOOLEAN, SetActive(u, active)
        PROVE  users' \in [User -> Account \cup {NoAccount}]
    BY <1>0, <2>1, <2>5 DEF SetActive, Account
  <2> QED
    BY <1>6, <2>2, <2>3, <2>4, <2>5 DEF ChangeAccount
<1> QED
  BY <1>0, <1>1, <1>2, <1>3, <1>4, <1>5, <1>6, AnswerTyped DEF Next

-----------------------------------------------------------------------------
(* One lemma for each kind of step.                                        *)

CodesAt ==
  /\ KeysMatch
  /\ \A r \in Req : CodeInFlight(r)
  /\ OneTaker
  /\ EffectsMatch

LEMMA RequestsTyped ==
  ASSUME CodesInv, [Next]_vars
  PROVE  req' \in [Req -> Request]
<1> USE DEF CodesInv, TypeOK
<1>1. Idle \in Request
  BY DEF Request
<1>2. ASSUME NEW r \in Req, Consume(r)
      PROVE  req' \in [Req -> Request]
  BY <1>2, AdvanceTo DEF Consume, Presented
<1>3. ASSUME NEW r \in Req, req' = [req EXCEPT ![r] = Idle]
      PROVE  req' \in [Req -> Request]
  BY <1>1, <1>3
<1>4. CASE Quiet
  BY <1>4 DEF Quiet
<1>5. CASE \E k \in Key : Expire(k)
  BY <1>5 DEF Expire
<1> QED
  BY <1>2, <1>3, <1>4, <1>5, StepKinds DEF Send, Fail, Used, Dropped

LEMMA QuietKeepsCodes ==
  ASSUME CodesInv, Quiet
  PROVE  CodesAt'
<1>1. /\ otp' = otp /\ sent' = sent /\ effects' = effects /\ Sent' = Sent
      /\ \A c : Addressed(c)' = Addressed(c)
      /\ \A c : IsStored(c)' = IsStored(c)
      /\ \A c : IsUsed(c)' = IsUsed(c)
  BY DEF Quiet, Sent, Addressed, IsStored, IsUsed
<1>2. KeysMatch' /\ EffectsMatch'
  BY <1>1 DEF CodesInv, KeysMatch, EffectsMatch
<1>3. ASSUME NEW r \in Req PROVE CodeInFlight(r)'
  <2>1. CodeInFlight(r)
    BY DEF CodesInv
  <2>2. req'[r].op \in Presented => /\ req'[r].code \in Sent
                                    /\ sent[req'[r].code].user = req'[r].user
    BY DEF Quiet
  <2>3. Taken(r)' => /\ sent[req'[r].code].purpose = req'[r].purpose
                     /\ ~IsStored(req'[r].code)
                     /\ ~IsUsed(req'[r].code)
    BY <2>1 DEF Quiet, CodeInFlight
  <2> QED
    BY <1>1, <2>2, <2>3 DEF CodeInFlight
<1>4. OneTaker'
  BY DEF Quiet, CodesInv, OneTaker
<1> QED
  BY <1>2, <1>3, <1>4 DEF CodesAt

LEMMA ExpireKeepsCodes ==
  ASSUME CodesInv, NEW k \in Key, Expire(k)
  PROVE  CodesAt'
<1>1. /\ otp' = [otp EXCEPT ![k] = None]
      /\ sent' = sent /\ req' = req /\ effects' = effects /\ Sent' = Sent
      /\ otp \in [Key -> Code \cup {None}]
  BY DEF Expire, Sent, CodesInv, TypeOK
<1>2. ASSUME NEW c \in Sent, IsStored(c)'
      PROVE  IsStored(c)
  BY <1>1, <1>2, AddressedIsKey, NoneAssumption DEF IsStored, Addressed
<1>3. KeysMatch'
  BY <1>1 DEF CodesInv, KeysMatch, Addressed
<1>4. ASSUME NEW r \in Req PROVE CodeInFlight(r)'
  <2>1. CodeInFlight(r)
    BY DEF CodesInv
  <2> QED
    BY <1>1, <1>2, <2>1 DEF CodeInFlight, Taken, IsUsed, Presented
<1>5. OneTaker'
  BY <1>1 DEF CodesInv, OneTaker, Taken
<1>6. EffectsMatch'
  BY <1>1, <1>2 DEF CodesInv, EffectsMatch
<1> QED
  BY <1>3, <1>4, <1>5, <1>6 DEF CodesAt

LEMMA SendKeepsCodes ==
  ASSUME CodesInv, NEW r \in Req, Send(r)
  PROVE  CodesAt'
<1>0. PICK n : n = Len(sent) + 1
  OBVIOUS
<1>1. /\ n \in Code
      /\ n \notin Sent
      /\ Sent' = Sent \cup {n}
      /\ \A c \in Sent : sent'[c] = sent[c]
      /\ Addressed(n)' \in Key
      /\ otp' = [otp EXCEPT ![Addressed(n)'] = n]
      /\ ~Taken(r)
      /\ req' = [req EXCEPT ![r] = Idle]
      /\ effects' = effects
  BY <1>0, SendStep
<1>2. otp \in [Key -> Code \cup {None}] /\ req \in [Req -> Request]
  BY DEF CodesInv, TypeOK
<1>3. \A c \in Sent : Addressed(c)' = Addressed(c) /\ Addressed(c) \in Key
  BY <1>1, AddressedIsKey DEF Addressed
<1>4. ASSUME NEW c \in Sent, IsStored(c)'
      PROVE  IsStored(c)
  BY <1>1, <1>2, <1>3, <1>4 DEF IsStored, Addressed
<1>5. ASSUME NEW k \in Key, (otp[k] # None)'
      PROVE  (otp[k] \in Sent /\ Addressed(otp[k]) = k)'
  <2>1. CASE k = Addressed(n)'
    BY <1>1, <1>2, <2>1
  <2>2. CASE k # Addressed(n)'
    <3>1. PICK c : c = otp[k]
      OBVIOUS
    <3>2. otp'[k] = c /\ c \in Sent /\ Addressed(c) = k
      BY <1>1, <1>2, <1>5, <2>2, <3>1 DEF CodesInv, KeysMatch
    <3> QED
      BY <1>1, <1>3, <3>2
  <2> QED
    BY <2>1, <2>2
<1>6. ASSUME NEW q \in Req PROVE CodeInFlight(q)'
  <2>1. CodeInFlight(q)
    BY DEF CodesInv
  <2>2. CASE q = r
    BY <1>1, <1>2, <2>2 DEF CodeInFlight, Taken, Idle, Presented
  <2>3. CASE q # r
    BY <1>1, <1>2, <1>4, <2>1, <2>3 DEF CodeInFlight, Taken, IsUsed, Presented
  <2> QED
    BY <2>2, <2>3
<1>7. OneTaker'
  BY <1>1, <1>2 DEF CodesInv, OneTaker, Taken, Idle
<1>8. EffectsMatch'
  BY <1>1, <1>4 DEF CodesInv, EffectsMatch
<1> QED
  BY <1>5, <1>6, <1>7, <1>8 DEF CodesAt, KeysMatch

LEMMA ConsumeStep ==
  ASSUME CodesInv, NEW r \in Req, Consume(r)
  PROVE  /\ req[r].code \in Sent
         /\ ~Taken(r) /\ Taken(r)'
         /\ IsStored(req[r].code)
         /\ otp' = [otp EXCEPT ![Addressed(req[r].code)] = None]
         /\ sent[req[r].code].user = req[r].user
         /\ sent[req[r].code].purpose = req[r].purpose
         /\ req'[r].code = req[r].code
         /\ req'[r].user = req[r].user
         /\ req'[r].purpose = req[r].purpose
         /\ \A q \in Req \ {r} : req'[q] = req[q]
         /\ UNCHANGED <<sent, effects>>
<1>1. /\ req[r].op = "read"
      /\ otp[KeyOf(req[r])] = req[r].code
      /\ otp' = [otp EXCEPT ![KeyOf(req[r])] = None]
      /\ Advance(r, "consumed")
      /\ UNCHANGED <<sent, effects>>
  BY DEF Consume
<1>2. req[r] \in PresentedRequest
  BY <1>1, RequestKinds DEF CodesInv, TypeOK, Presented
<1>3. KeyOf(req[r]) \in Key /\ req[r].code \in Code
  BY <1>2 DEF PresentedRequest, LoadedRow, KeyOf, Key
<1>4. Addressed(req[r].code) = KeyOf(req[r]) /\ req[r].code \in Sent
  BY <1>1, <1>3, NoneAssumption DEF CodesInv, KeysMatch
<1>5. /\ req'[r].op = "consumed"
      /\ req'[r].code = req[r].code
      /\ req'[r].user = req[r].user
      /\ req'[r].purpose = req[r].purpose
      /\ \A q \in Req \ {r} : req'[q] = req[q]
  BY <1>1, AdvanceTo DEF Presented
<1> QED
  BY <1>1, <1>4, <1>5 DEF Taken, IsStored, Addressed, KeyOf

LEMMA ConsumeKeepsCodes ==
  ASSUME CodesInv, NEW r \in Req, Consume(r)
  PROVE  CodesAt'
<1> DEFINE c == req[r].code
<1>1. /\ c \in Sent /\ Sent' = Sent
      /\ ~Taken(r) /\ Taken(r)'
      /\ IsStored(c)
      /\ otp' = [otp EXCEPT ![Addressed(c)] = None]
      /\ sent[c].user = req[r].user
      /\ sent[c].purpose = req[r].purpose
      /\ req'[r].code = c
      /\ req'[r].user = req[r].user
      /\ req'[r].purpose = req[r].purpose
      /\ \A q \in Req \ {r} : req'[q] = req[q]
      /\ UNCHANGED <<sent, effects>>
  BY ConsumeStep DEF Sent
<1> HIDE DEF c
<1>2. otp \in [Key -> Code \cup {None}]
  BY DEF CodesInv, TypeOK
<1>3. ASSUME NEW d \in Sent
      PROVE  /\ IsStored(d)' => IsStored(d)
             /\ d = c => ~IsStored(d)'
  BY <1>1, <1>2, <1>3, AddressedIsKey, NoneAssumption DEF IsStored, Addressed
<1>4. KeysMatch'
  BY <1>1, <1>2 DEF CodesInv, KeysMatch, Addressed
<1>5. ~IsUsed(c)
  BY <1>1 DEF CodesInv, EffectsMatch, IsUsed
<1>6. ASSUME NEW q \in Req PROVE CodeInFlight(q)'
  <2>1. CodeInFlight(q)
    BY DEF CodesInv
  <2>2. CASE q = r
    BY <1>1, <1>3, <1>5, <2>2 DEF CodeInFlight, IsUsed
  <2>3. CASE q # r
    BY <1>1, <1>3, <2>1, <2>3 DEF CodeInFlight, Taken, IsUsed, Presented
  <2> QED
    BY <2>2, <2>3
<1>7. \A q \in Req : Taken(q) => req[q].code # c
  BY <1>1 DEF CodesInv, CodeInFlight
<1>8. OneTaker'
  BY <1>1, <1>7 DEF CodesInv, OneTaker, Taken
<1>9. EffectsMatch'
  BY <1>1, <1>3 DEF CodesInv, EffectsMatch
<1> QED
  BY <1>4, <1>6, <1>8, <1>9 DEF CodesAt

LEMMA EndKeepsCodes ==
  ASSUME CodesInv, NEW r \in Req, Used(r) \/ Dropped(r)
  PROVE  CodesAt'
<1>1. /\ req' = [req EXCEPT ![r] = Idle]
      /\ UNCHANGED <<otp, sent>> /\ Sent' = Sent
      /\ req \in [Req -> Request]
      /\ \A c : IsStored(c)' = IsStored(c)
      /\ \A c : Addressed(c)' = Addressed(c)
  BY DEF Used, Dropped, Sent, CodesInv, TypeOK, IsStored, Addressed
<1>2. effects' = effects \/ (Taken(r) /\ effects' = effects \cup {Effect(req[r])})
  BY DEF Used, Dropped
<1>3. KeysMatch'
  BY <1>1 DEF CodesInv, KeysMatch
<1>4. ASSUME NEW q \in Req, q # r, Taken(q), IsUsed(req[q].code)'
      PROVE  IsUsed(req[q].code)
  BY <1>1, <1>2, <1>4 DEF IsUsed, Effect, CodesInv, OneTaker
<1>5. ASSUME NEW q \in Req PROVE CodeInFlight(q)'
  <2>1. CodeInFlight(q)
    BY DEF CodesInv
  <2>2. CASE q = r
    BY <1>1, <2>2 DEF CodeInFlight, Taken, Idle, Presented
  <2>3. CASE q # r
    BY <1>1, <1>4, <2>1, <2>3 DEF CodeInFlight, Taken, Presented
  <2> QED
    BY <2>2, <2>3
<1>6. OneTaker'
  BY <1>1 DEF CodesInv, OneTaker, Taken, Idle
<1>7. Taken(r) => /\ req[r].code \in Sent
                  /\ Effect(req[r]) =
                       [code |-> req[r].code,
                        at |-> [user |-> sent[req[r].code].user,
                                purpose |-> sent[req[r].code].purpose]]
                  /\ ~IsStored(req[r].code)
  BY DEF CodesInv, CodeInFlight, Effect, Taken, Presented
<1>8. EffectsMatch'
  BY <1>1, <1>2, <1>7 DEF CodesInv, EffectsMatch
<1> QED
  BY <1>3, <1>5, <1>6, <1>8 DEF CodesAt

LEMMA HistoryTyped ==
  ASSUME CodesInv, [Next]_vars
  PROVE  /\ otp' \in [Key -> Code \cup {None}]
         /\ sent' \in Seq([user: User, purpose: Purpose, tenant: Tenant])
         /\ Len(sent') <= MaxSent
         /\ effects' \subseteq [code: Code, at: [user: User, purpose: Purpose]]
<1>0. /\ otp \in [Key -> Code \cup {None}]
      /\ sent \in Seq([user: User, purpose: Purpose, tenant: Tenant])
      /\ Len(sent) <= MaxSent
      /\ effects \subseteq [code: Code, at: [user: User, purpose: Purpose]]
  BY DEF CodesInv, TypeOK
<1>1. CASE Quiet
  BY <1>0, <1>1 DEF Quiet
<1>2. ASSUME NEW k \in Key, Expire(k)
      PROVE  /\ otp' \in [Key -> Code \cup {None}]
             /\ UNCHANGED <<sent, effects>>
  BY <1>0, <1>2 DEF Expire
<1>3. ASSUME NEW r \in Req, Send(r)
      PROVE  /\ otp' \in [Key -> Code \cup {None}]
             /\ sent' \in Seq([user: User, purpose: Purpose, tenant: Tenant])
             /\ Len(sent') <= MaxSent
             /\ effects' = effects
  BY <1>0, <1>3, SendStep
<1>4. ASSUME NEW r \in Req, Consume(r)
      PROVE  /\ otp' \in [Key -> Code \cup {None}]
             /\ UNCHANGED <<sent, effects>>
  BY <1>0, <1>4, ConsumeStep
<1>5. ASSUME NEW r \in Req, Used(r)
      PROVE  /\ Effect(req[r]) \in [code: Code, at: [user: User, purpose: Purpose]]
             /\ UNCHANGED <<otp, sent>>
  <2>1. req[r] \in PresentedRequest
    BY <1>5, RequestKinds DEF Used, Taken, Presented, CodesInv, TypeOK
  <2> QED
    BY <1>5, <2>1 DEF Used, Effect, PresentedRequest
<1> QED
  BY <1>0, <1>1, <1>2, <1>3, <1>4, <1>5, StepKinds DEF Used, Dropped

LEMMA CodesStep ==
  ASSUME CodesInv, RequestsSound, [Next]_vars
  PROVE  CodesInv'
<1>1. TypeOK'
  BY UsersTyped, RequestsTyped, HistoryTyped DEF TypeOK
<1>2. CodesAt'
  BY StepKinds, QuietKeepsCodes, ExpireKeepsCodes, SendKeepsCodes,
     ConsumeKeepsCodes, EndKeepsCodes
<1> QED
  BY <1>1, <1>2 DEF CodesAt, CodesInv

-----------------------------------------------------------------------------
(* Requests stay sound.                                                    *)

(* What every step but a deletion or a new registration of u keeps.        *)
Kept(u) ==
  /\ users[u] \in Account => users'[u] \in Account
  /\ u \in Live => /\ u \in Live'
                   /\ users[u].verified => users'[u].verified

Same(q) ==
  req'[q].op \in Presented =>
    /\ req[q].op \in Presented
    /\ req'[q].user = req[q].user
    /\ req'[q].row = req[q].row
    /\ req'[q].moved = req[q].moved

LEMMA SameIsSound ==
  ASSUME RequestsSound, NEW q \in Req, Same(q),
         req[q].op \in Presented => Kept(req[q].user)
  PROVE  RequestSound(q)'
BY DEF RequestsSound, RequestSound, Same, Kept

LEMMA SameAccounts ==
  ASSUME users' = users, NEW u
  PROVE  Kept(u)
BY DEF Kept, Live

LEMMA StartIsSound ==
  ASSUME CodesInv, RequestsSound, NEW r \in Req, NEW rq, Start(r, rq),
         rq.op \in Presented =>
           /\ rq.user \in Live
           /\ rq.row = Loaded(users[rq.user])
  PROVE  RequestsSound'
<1>1. req' = [req EXCEPT ![r] = rq] /\ users' = users /\ req \in [Req -> Request]
  BY DEF Start, CodesInv, TypeOK
<1>2. ASSUME NEW q \in Req, q # r
      PROVE  RequestSound(q)'
  <2>1. Same(q) /\ Kept(req[q].user)
    BY <1>1, <1>2, SameAccounts DEF Same
  <2> QED
    BY <2>1, SameIsSound
<1>3. ASSUME NEW u \in Live
      PROVE  users[u] \in Account
  BY DEF Live, CodesInv, TypeOK, NoAccount
<1>4. RequestSound(r)'
  BY <1>1, <1>3 DEF RequestSound, Loaded, Live
<1> QED
  BY <1>2, <1>4 DEF RequestsSound

(* A deletion, or a new registration, that marks the requests it is about. *)
LEMMA MarkingIsSound ==
  ASSUME CodesInv, RequestsSound, NEW u \in User, NEW row \in Account,
         users' = [users EXCEPT ![u] = row],
         \A q \in Req :
           \/ req'[q].op \notin Presented
           \/ req'[q] = req[q] /\ req[q].user # u
           \/ req[q].op \in Presented /\ req[q].user = u /\ req'[q] = Marked(req[q])
  PROVE  RequestsSound'
<1>1. users \in [User -> Account \cup {NoAccount}] /\ req \in [Req -> Request]
  BY DEF CodesInv, TypeOK
<1>2. SUFFICES ASSUME NEW q \in Req, req'[q].op \in Presented
               PROVE  RequestSound(q)'
  BY DEF RequestsSound, RequestSound
<1>3. CASE req'[q] = req[q] /\ req[q].user # u
  <2>1. req[q].user \in User
    BY <1>1, <1>2, <1>3, RequestKinds DEF PresentedRequest
  <2>2. users'[req[q].user] = users[req[q].user]
    BY <1>1, <1>3, <2>1
  <2>3. Same(q) /\ Kept(req[q].user)
    BY <1>3, <2>2, <2>1 DEF Same, Kept, Live
  <2> QED
    BY <2>3, SameIsSound
<1>4. CASE req[q].op \in Presented /\ req[q].user = u /\ req'[q] = Marked(req[q])
  <2>1. req'[q].user = u /\ req'[q].moved = TRUE
    BY <1>1, <1>4, MarkedRequest
  <2>2. users'[u] \in Account
    BY <1>1
  <2> QED
    BY <2>1, <2>2 DEF RequestSound
<1> QED
  BY <1>2, <1>3, <1>4

LEMMA AskIsSound ==
  ASSUME CodesInv, RequestsSound, NEW r \in Req, Ask(r)
  PROVE  RequestsSound'
<1>1. PICK u \in User :
        \/ \E t \in Tenant : Register(r, u, t)
        \/ ResendVerification(r, u)
        \/ LoginOtpInit(r, u)
        \/ ForgotPassword(r, u)
        \/ \E p \in Purpose, c \in Code : Present(r, u, p, c)
  BY DEF Ask
<1>2. \A p, t : SendTo(u, p, t).op \notin Presented
  BY DEF SendTo, Presented
<1>3. ASSUME NEW t \in Tenant, Register(r, u, t)
      PROVE  RequestsSound'
  <2> DEFINE row == [tenant |-> t, verified |-> FALSE, active |-> FALSE,
                     deleted |-> "no", since |-> Len(sent)]
  <2>1. row \in Account
    BY MaxSentAssumption DEF CodesInv, TypeOK, Account
  <2>2. users' = [users EXCEPT ![u] = row]
    BY <1>3 DEF Register
  <2> HIDE DEF row
  <2>3. ASSUME NEW q \in Req, req'[q].op \in Presented
        PROVE  \/ req'[q] = req[q] /\ req[q].user # u
               \/ /\ req[q].op \in Presented /\ req[q].user = u
                  /\ req'[q] = Marked(req[q])
    <3>1. req'[q] = IF q = r THEN SendTo(u, "verify_email", t)
                    ELSE IF req[q].op \in Presented /\ req[q].user = u
                    THEN Marked(req[q]) ELSE req[q]
      BY <1>3 DEF Register, Marked
    <3>2. q # r
      BY <1>2, <2>3, <3>1
    <3> QED
      BY <2>3, <3>1, <3>2
  <2> QED
    BY <2>1, <2>2, <2>3, MarkingIsSound
<1>4. CASE \/ ResendVerification(r, u)
           \/ LoginOtpInit(r, u)
           \/ ForgotPassword(r, u)
  BY <1>2, <1>4, StartIsSound DEF ResendVerification, LoginOtpInit, ForgotPassword
<1>5. ASSUME NEW p \in Purpose, NEW c \in Code, Present(r, u, p, c)
      PROVE  RequestsSound'
  BY <1>5, StartIsSound DEF Present
<1> QED
  BY <1>1, <1>3, <1>4, <1>5

LEMMA ChangeAccountIsSound ==
  ASSUME CodesInv, RequestsSound, ChangeAccount
  PROVE  RequestsSound'
<1>1. /\ users \in [User -> Account \cup {NoAccount}]
      /\ req \in [Req -> Request]
  BY DEF CodesInv, TypeOK
<1>2. ASSUME NEW u \in User, u \in Live \/ users[u].deleted \in {"self", "admin"}
      PROVE  users[u] \in Account
  BY <1>1, <1>2 DEF Live, NoAccount
<1>3. ASSUME NEW u \in User, NEW by \in {"self", "admin"}, Delete(u, by)
      PROVE  RequestsSound'
  <2>1. /\ users' = [users EXCEPT ![u] = [users[u] EXCEPT !.deleted = by]]
        /\ [users[u] EXCEPT !.deleted = by] \in Account
    BY <1>1, <1>2, <1>3 DEF Delete, Account
  <2>2. \A q \in Req :
          \/ req'[q].op \notin Presented
          \/ req'[q] = req[q] /\ req[q].user # u
          \/ req[q].op \in Presented /\ req[q].user = u /\ req'[q] = Marked(req[q])
    BY <1>3 DEF Delete, MoveOn, Marked
  <2> QED
    BY <2>1, <2>2, MarkingIsSound
<1>4. ASSUME NEW u \in User,
             Restore(u) \/ \E active \in BOOLEAN : SetActive(u, active)
      PROVE  RequestsSound'
  <2>1. /\ req' = req
        /\ users[u] \in Account
        /\ users' = [users EXCEPT ![u] = users'[u]]
        /\ users'[u] \in Account
        /\ u \in Live => users'[u].deleted = "no"
        /\ users'[u].verified = users[u].verified
    BY <1>1, <1>2, <1>4 DEF Restore, SetActive, Account, Live
  <2>2. \A v \in User : Kept(v)
    BY <1>1, <2>1 DEF Kept, Live
  <2>3. ASSUME NEW q \in Req
        PROVE  RequestSound(q)'
    <3>1. req[q].op \in Presented => req[q].user \in User
      BY <1>1, RequestKinds DEF PresentedRequest
    <3>2. Same(q)
      BY <2>1 DEF Same
    <3> QED
      BY <2>2, <3>1, <3>2, SameIsSound
  <2> QED
    BY <2>3 DEF RequestsSound
<1> QED
  BY <1>3, <1>4 DEF ChangeAccount

LEMMA ProceedIsSound ==
  ASSUME CodesInv, RequestsSound, NEW r \in Req, Proceed(r) \/ Crash(r)
  PROVE  RequestsSound'
<1>1. /\ users \in [User -> Account \cup {NoAccount}]
      /\ req \in [Req -> Request]
  BY DEF CodesInv, TypeOK
<1>2. users' = users \/ WriteVerified(r)
  BY DEF Proceed, Crash, Send, SendRefused, Refuse, Consume, Issue, Select,
     Miss, WriteVerified, WritePassword
<1>3. ASSUME WriteVerified(r)
      PROVE  \A u \in User : Kept(u)
  <2>1. users[req[r].user] \in Account /\ req[r].user \in User
    BY <1>1, <1>3, RequestKinds
       DEF WriteVerified, Presented, PresentedRequest, RequestsSound, RequestSound
  <2>2. users' = [users EXCEPT ![req[r].user] = WrittenVerified(r)]
    BY <1>3, <2>1, WriteVerifiedRow
  <2>3. /\ WrittenVerified(r) \in Account
        /\ WrittenVerified(r).deleted = users[req[r].user].deleted
        /\ users[req[r].user].verified => WrittenVerified(r).verified
    <3>1. req[r].row.verified \in BOOLEAN /\ req[r].row.active \in BOOLEAN
      BY <1>1, <1>3, RequestKinds
         DEF WriteVerified, Presented, PresentedRequest, LoadedRow
    <3> QED
      BY <2>1, <3>1 DEF WrittenVerified, SetTrue, Account
  <2> QED
    BY <1>1, <2>1, <2>2, <2>3 DEF Kept, Live
<1>4. \A u \in User : Kept(u)
  BY <1>2, <1>3, SameAccounts
<1>5. ASSUME NEW q \in Req
      PROVE  Same(q)
  <2>1. CASE req' = [req EXCEPT ![r] = Idle]
    BY <1>1, <2>1 DEF Same, Idle, Presented
  <2>2. CASE Consume(r) \/ Select(r)
    <3>1. /\ req[r].op \in Presented
          /\ Advance(r, "consumed") \/ Advance(r, "selected")
      BY <2>2 DEF Consume, Select, Presented
    <3>2. /\ req'[r].user = req[r].user
          /\ req'[r].row = req[r].row
          /\ req'[r].moved = req[r].moved
          /\ \A p \in Req \ {r} : req'[p] = req[p]
      BY <3>1, AdvanceTo DEF Presented
    <3> QED
      BY <3>1, <3>2 DEF Same
  <2> QED
    BY <2>1, <2>2 DEF Proceed, Crash, Send, SendRefused, Refuse, Issue, Miss,
       WriteVerified, WritePassword, Succeed, Fail
<1>6. \A q \in Req : req[q].op \in Presented => req[q].user \in User
  BY <1>1, RequestKinds DEF PresentedRequest
<1> QED
  BY <1>4, <1>5, <1>6, SameIsSound DEF RequestsSound

LEMMA RequestsStep ==
  ASSUME CodesInv, RequestsSound, [Next]_vars
  PROVE  RequestsSound'
<1>1. ASSUME users' = users, req' = req
      PROVE  RequestsSound'
  BY <1>1 DEF RequestsSound, RequestSound, Live
<1> QED
  BY <1>1, AskIsSound, ProceedIsSound, ChangeAccountIsSound
     DEF Next, Expire, vars

-----------------------------------------------------------------------------

Invariant == CodesInv /\ RequestsSound

LEMMA InvariantHolds == Spec => []Invariant
<1>1. Init => Invariant
  BY InitCodes DEF Invariant, RequestsSound, RequestSound, Init, Idle, Presented
<1>2. Invariant /\ [Next]_vars => Invariant'
  BY CodesStep, RequestsStep DEF Invariant
<1> QED
  BY <1>1, <1>2, PTL DEF Spec

(* Accounts, codes and requests keep their types: in particular a code is  *)
(* never written for, and an account never updated into, something that    *)
(* does not exist.                                                         *)
THEOREM CodesTypeCorrect == Spec => []TypeOK
<1>1. Invariant => TypeOK
  BY DEF Invariant, CodesInv
<1> QED
  BY <1>1, InvariantHolds, PTL

LEMMA AnswerIsSound ==
  ASSUME Invariant, [Next]_vars, SuccessVerifies
  PROVE  SuccessVerifies'
<1>1. /\ users \in [User -> Account \cup {NoAccount}]
      /\ req \in [Req -> Request]
  BY DEF Invariant, CodesInv, TypeOK
<1>2. CASE UNCHANGED vars
  BY <1>2 DEF vars, SuccessVerifies, Live
<1>3. ASSUME answer' = NoAnswer
      PROVE  SuccessVerifies'
  BY <1>3 DEF SuccessVerifies, NoAnswer
<1>4. ASSUME NEW r \in Req, Miss(r)
      PROVE  SuccessVerifies'
  <2>1. /\ req[r].op \in Presented
        /\ req[r].user \notin Live
        /\ answer'.moved = req[r].moved
    BY <1>4 DEF Miss, Succeed, Presented
  <2> QED
    BY <2>1 DEF SuccessVerifies, Invariant, RequestsSound, RequestSound
<1>5. ASSUME NEW r \in Req, WriteVerified(r)
      PROVE  SuccessVerifies'
  <2>1. /\ req[r].op \in Presented
        /\ answer'.moved = req[r].moved
        /\ answer'.user = req[r].user
    BY <1>5 DEF WriteVerified, Succeed, Presented
  <2>2. req[r] \in PresentedRequest /\ users[req[r].user] \in Account
    BY <1>1, <2>1, RequestKinds DEF Invariant, RequestsSound, RequestSound
  <2>3. /\ req[r].user \in User
        /\ req[r].row.verified \in BOOLEAN
    BY <2>2 DEF PresentedRequest, LoadedRow
  <2>4. users' = [users EXCEPT ![req[r].user] = WrittenVerified(r)]
    BY <1>5, <2>2, <2>3, WriteVerifiedRow DEF Invariant
  <2>5. /\ WrittenVerified(r).deleted = users[req[r].user].deleted
        /\ WrittenVerified(r).verified =
             SetTrue(req[r].row.verified, users[req[r].user].verified)
    BY <2>2 DEF WrittenVerified, Account
  <2>6. ~req[r].moved =>
          /\ req[r].user \in Live
          /\ req[r].row.verified => users[req[r].user].verified
    BY <2>1 DEF Invariant, RequestsSound, RequestSound
  <2> QED
    BY <1>1, <2>1, <2>3, <2>4, <2>5, <2>6 DEF SuccessVerifies, Live, SetTrue
<1>6. ASSUME NEW r \in Req, Issue(r) \/ WritePassword(r)
      PROVE  SuccessVerifies'
  <2>1. answer' = NoAnswer \/ answer'.purpose # "verify_email"
    BY <1>6 DEF Issue, WritePassword, Succeed, Fail
  <2> QED
    BY <1>3, <2>1 DEF SuccessVerifies
<1>7. ASSUME NEW r \in Req, Ask(r)
      PROVE  answer' = NoAnswer
  BY <1>7 DEF Ask, Register, ResendVerification, LoginOtpInit, ForgotPassword,
     Present, Start
<1>8. ASSUME NEW r \in Req, Proceed(r) \/ Crash(r)
      PROVE  \/ answer' = NoAnswer
             \/ Miss(r) \/ WriteVerified(r) \/ Issue(r) \/ WritePassword(r)
  BY <1>8 DEF Proceed, Crash, Send, SendRefused, Consume, Refuse, Select, Fail
<1>9. ASSUME ChangeAccount \/ \E k \in Key : Expire(k)
      PROVE  answer' = NoAnswer
  BY <1>9 DEF ChangeAccount, Delete, Restore, SetActive, Expire
<1> QED
  BY <1>2, <1>3, <1>4, <1>5, <1>6, <1>7, <1>8, <1>9 DEF Next

(* A verification that answers success has verified the account, unless it *)
(* was deleted or registered again while the request was under way: the    *)
(* row verify_email read before it consumed the code may be stale, and     *)
(* update_user then writes only the columns that differ from it.           *)
THEOREM VerificationSucceeds == Spec => []SuccessVerifies
<1>1. Init => SuccessVerifies
  BY DEF Init, SuccessVerifies, NoAnswer
<1>2. Invariant /\ SuccessVerifies /\ [Next]_vars => SuccessVerifies'
  BY AnswerIsSound
<1> QED
  BY <1>1, <1>2, InvariantHolds, PTL DEF Spec

-----------------------------------------------------------------------------
(* The refinement.                                                         *)

(* Where a code is, from the invariant.                                    *)
LivesOK ==
  \A c \in Code :
    /\ c \notin Sent <=> Life(c) = "unsent"
    /\ c \in Sent /\ IsStored(c) <=> Life(c) = "stored"
    /\ c \in Sent /\ IsTaken(c) <=> Life(c) = "taken"
    /\ c \in Sent /\ IsUsed(c) <=> Life(c) = "used"

LEMMA LifeIs == CodesInv => LivesOK
<1> SUFFICES ASSUME CodesInv, NEW c \in Code
             PROVE  /\ c \notin Sent <=> Life(c) = "unsent"
                    /\ c \in Sent /\ IsStored(c) <=> Life(c) = "stored"
                    /\ c \in Sent /\ IsTaken(c) <=> Life(c) = "taken"
                    /\ c \in Sent /\ IsUsed(c) <=> Life(c) = "used"
  BY DEF LivesOK
<1>1. Len(sent) \in Nat /\ (c \in Sent <=> ~(c > Len(sent)))
  BY MaxSentAssumption DEF CodesInv, TypeOK, Code, Sent
<1>2. c \in Sent /\ IsTaken(c) => ~IsStored(c) /\ ~IsUsed(c)
  BY DEF CodesInv, CodeInFlight, IsTaken, Taken
<1>3. c \in Sent /\ IsUsed(c) => ~IsStored(c)
  BY DEF CodesInv, EffectsMatch, IsUsed
<1> QED
  BY <1>1, <1>2, <1>3 DEF Life

LEMMA LifeIsNext == CodesInv' => LivesOK'
BY LifeIs, PTL

LEMMA SameLife ==
  ASSUME sent' = sent, NEW c,
         IsStored(c)' <=> IsStored(c),
         IsTaken(c)' <=> IsTaken(c),
         IsUsed(c)' <=> IsUsed(c)
  PROVE  Life(c)' = Life(c)
BY DEF Life

LEMMA TakenSame ==
  ASSUME NEW r \in Req, ~Taken(r), ~Taken(r)',
         \A q \in Req \ {r} : req'[q] = req[q],
         NEW c
  PROVE  IsTaken(c)' <=> IsTaken(c)
BY DEF IsTaken, Taken

LEMMA QuietRefines ==
  ASSUME CodesInv, Quiet
  PROVE  UNCHANGED OTC!vars
<1>1. ASSUME NEW c \in Code
      PROVE  Life(c)' = Life(c)
  <2>1. IsStored(c)' <=> IsStored(c)
    BY DEF Quiet, IsStored
  <2>2. IsTaken(c)' <=> IsTaken(c)
    BY DEF Quiet, IsTaken, Taken
  <2>3. IsUsed(c)' <=> IsUsed(c)
    BY DEF Quiet, IsUsed
  <2>4. sent' = sent
    BY DEF Quiet
  <2> QED
    BY <2>1, <2>2, <2>3, <2>4, SameLife
<1> QED
  BY <1>1 DEF OTC!vars, Quiet

LEMMA SendRefines ==
  ASSUME CodesInv, CodesInv', NEW r \in Req, Send(r)
  PROVE  OTC!Next
<1>0. PICK n : n = Len(sent) + 1
  OBVIOUS
<1>1. /\ n \in Code
      /\ n \notin Sent
      /\ Sent' = Sent \cup {n}
      /\ \A c \in Sent : sent'[c] = sent[c]
      /\ Addressed(n)' \in Key
      /\ otp' = [otp EXCEPT ![Addressed(n)'] = n]
      /\ ~Taken(r)
      /\ req' = [req EXCEPT ![r] = Idle]
      /\ effects' = effects
  BY <1>0, SendStep
<1>2. otp \in [Key -> Code \cup {None}] /\ req \in [Req -> Request]
  BY DEF CodesInv, TypeOK
<1>x. PICK x : x = [user |-> sent'[n].user, purpose |-> sent'[n].purpose]
  OBVIOUS
<1> DEFINE to == [c \in 1..Len(sent) |->
                    [user |-> sent[c].user, purpose |-> sent[c].purpose]]
           old == {d \in Sent : to[d] = x /\ Life(d) = "stored" /\ Life(d)' # "stored"}
<1>3. x \in OTC!Addressee
  BY <1>1, <1>x DEF Addressed, Key, OTC!Addressee
<1>4. /\ DOMAIN to = Sent
      /\ to' = [d \in Sent \cup {n} |-> IF d = n THEN x ELSE to[d]]
  BY <1>1, <1>x DEF Sent
<1>5. Life(n) = "unsent" /\ Life(n)' = "stored"
  BY <1>1, <1>2, LifeIs DEF LivesOK, IsStored, Addressed, Life, Sent
<1>6. ASSUME NEW d \in Code, d # n, d \notin Sent
      PROVE  Life(d)' = "unsent" /\ Life(d) = "unsent"
  <2>1. (d \notin Sent <=> Life(d) = "unsent")'
    BY <1>6, LifeIsNext DEF LivesOK
  <2> QED
    BY <1>1, <1>6, <2>1, LifeIs DEF LivesOK
<1>7. ASSUME NEW d \in Sent
      PROVE  /\ d \in old => Life(d)' = "void"
             /\ d \notin old => Life(d)' = Life(d)
  <2>0. d \in Code /\ d # n /\ d \in Sent'
    BY <1>1, AddressedIsKey
  <2>1. /\ IsTaken(d)' <=> IsTaken(d)
        /\ IsUsed(d)' <=> IsUsed(d)
    BY <1>1, <1>2, TakenSame DEF Taken, Idle, IsUsed
  <2>2. /\ d \in Sent /\ IsStored(d) <=> Life(d) = "stored"
        /\ d \in Sent /\ IsTaken(d) <=> Life(d) = "taken"
        /\ d \in Sent /\ IsUsed(d) <=> Life(d) = "used"
        /\ Life(d) # "unsent"
    BY <2>0, LifeIs DEF LivesOK
  <2>3. (/\ d \in Sent /\ IsStored(d) <=> Life(d) = "stored"
         /\ d \in Sent /\ IsTaken(d) <=> Life(d) = "taken"
         /\ d \in Sent /\ IsUsed(d) <=> Life(d) = "used"
         /\ d \notin Sent <=> Life(d) = "unsent")'
    BY <2>0, LifeIsNext DEF LivesOK
  <2>4. /\ Life(d) \in {"unsent", "stored", "taken", "used", "void"}
        /\ Life(d)' \in {"unsent", "stored", "taken", "used", "void"}
    BY DEF Life
  <2>5. Addressed(d)' = Addressed(d) /\ Addressed(d) \in Key
    BY <1>1, AddressedIsKey DEF Addressed
  <2>6. IsStored(d)' => IsStored(d)
    BY <1>1, <1>2, <2>0, <2>5 DEF IsStored, Addressed
  <2>7. IsStored(d) /\ ~IsStored(d)' => to[d] = x
    <3>1. IsStored(d) /\ ~IsStored(d)' => Addressed(d) = Addressed(n)'
      BY <1>1, <1>2, <2>0, <2>5 DEF IsStored, Addressed
    <3>2. Addressed(d) = Addressed(n)' => to[d] = x
      BY <1>x DEF Addressed, Sent
    <3> QED
      BY <3>1, <3>2
  <2>8. d \in old <=> IsStored(d) /\ ~IsStored(d)'
    BY <2>0, <2>2, <2>3, <2>7
  <2> QED
    BY <2>0, <2>1, <2>2, <2>3, <2>4, <2>6, <2>8
<1>8. \A d \in Code : Life(d)' = IF d = n THEN "stored"
                                 ELSE IF d \in old THEN "void" ELSE Life(d)
  BY <1>5, <1>6, <1>7
<1>9. old \in SUBSET {d \in DOMAIN to : to[d] = x
                                        /\ [c \in Code |-> Life(c)][d] = "stored"}
  <2>1. Sent \subseteq Code
    BY AddressedIsKey
  <2> QED
    BY <1>4, <2>1
<1> HIDE DEF old
<1>10. OTC!Send(n, x)
  <2> DEFINE lives == [c \in Code |-> Life(c)]
  <2>1. lives[n] = "unsent"
    BY <1>1, <1>5
  <2>2. to' = [d \in DOMAIN to \cup {n} |-> IF d = n THEN x ELSE to[d]]
    BY <1>4
  <2>3. lives' = [d \in Code |-> IF d = n THEN "stored"
                                 ELSE IF d \in old THEN "void" ELSE lives[d]]
    BY <1>8
  <2>4. old \in SUBSET {d \in DOMAIN to : to[d] = x /\ lives[d] = "stored"}
    BY <1>9
  <2> HIDE DEF to, lives
  <2>5. /\ lives[n] = "unsent"
        /\ to' = [d \in DOMAIN to \cup {n} |-> IF d = n THEN x ELSE to[d]]
        /\ \E o \in SUBSET {d \in DOMAIN to : to[d] = x /\ lives[d] = "stored"} :
             lives' = [d \in Code |-> IF d = n THEN "stored"
                                      ELSE IF d \in o THEN "void" ELSE lives[d]]
        /\ effects' = effects
    BY <1>1, <2>1, <2>2, <2>3, <2>4
  <2> QED
    BY <2>5 DEF OTC!Send, to, lives
<1> QED
  BY <1>1, <1>3, <1>10 DEF OTC!Next

LEMMA ExpireRefines ==
  ASSUME CodesInv, CodesInv', NEW k \in Key, Expire(k)
  PROVE  OTC!Next
<1>0. PICK c : c = otp[k]
  OBVIOUS
<1>1. /\ otp[k] = c /\ c # None
      /\ otp' = [otp EXCEPT ![k] = None]
      /\ sent' = sent /\ req' = req /\ effects' = effects /\ Sent' = Sent
      /\ otp \in [Key -> Code \cup {None}]
  BY <1>0 DEF Expire, Sent, CodesInv, TypeOK
<1>2. c \in Sent /\ Addressed(c) = k
  BY <1>1 DEF CodesInv, KeysMatch
<1>3. IsStored(c) /\ ~IsStored(c)' /\ c \in Code
  BY <1>1, <1>2, AddressedIsKey, NoneAssumption DEF IsStored, Addressed
<1>4. ASSUME NEW d \in Code, d # c
      PROVE  Life(d)' = Life(d)
  <2>1. CASE d \in Sent
    <3>1. IsStored(d)' <=> IsStored(d)
      BY <1>1, <1>4, <2>1, AddressedIsKey, NoneAssumption DEF IsStored, Addressed
    <3> QED
      BY <1>1, <3>1, SameLife DEF IsTaken, IsUsed
  <2>2. CASE d \notin Sent
    <3>1. (d \notin Sent <=> Life(d) = "unsent")'
      BY LifeIsNext DEF LivesOK
    <3> QED
      BY <1>1, <2>2, <3>1, LifeIs DEF LivesOK
  <2> QED
    BY <2>1, <2>2
<1>5. Life(c) = "stored" /\ Life(c)' = "void"
  <2>1. Life(c) = "stored"
    BY <1>2, <1>3, LifeIs DEF LivesOK
  <2>2. ~IsTaken(c) /\ ~IsUsed(c)
    BY <1>2, <1>3, <2>1, LifeIs DEF LivesOK
  <2>3. ~IsTaken(c)' /\ ~IsUsed(c)'
    BY <1>1, <2>2 DEF IsTaken, IsUsed
  <2>4. ~(c > Len(sent'))
    BY <1>1, <1>2 DEF Sent, CodesInv, TypeOK
  <2> QED
    BY <1>3, <2>1, <2>3, <2>4 DEF Life
<1>6. OTC!Void(c)
  BY <1>1, <1>3, <1>4, <1>5 DEF OTC!Void
<1> QED
  BY <1>3, <1>6 DEF OTC!Next

LEMMA ConsumeRefines ==
  ASSUME CodesInv, CodesInv', NEW r \in Req, Consume(r)
  PROVE  OTC!Next
<1>0. PICK c : c = req[r].code
  OBVIOUS
<1>1. /\ c \in Sent /\ Sent' = Sent
      /\ ~Taken(r) /\ Taken(r)'
      /\ IsStored(c)
      /\ otp' = [otp EXCEPT ![Addressed(c)] = None]
      /\ req'[r].code = c
      /\ \A q \in Req \ {r} : req'[q] = req[q]
      /\ UNCHANGED <<sent, effects>>
  BY <1>0, ConsumeStep DEF Sent
<1>2. otp \in [Key -> Code \cup {None}] /\ c \in Code
  BY <1>1, AddressedIsKey DEF CodesInv, TypeOK
<1>3. Life(c) = "stored"
  BY <1>1, <1>2, LifeIs DEF LivesOK
<1>4. Life(c)' = "taken"
  <2>1. (c \in Sent /\ IsTaken(c) <=> Life(c) = "taken")'
    BY <1>2, LifeIsNext DEF LivesOK
  <2> QED
    BY <1>1, <2>1 DEF IsTaken, Taken
<1>5. ASSUME NEW d \in Code, d # c
      PROVE  Life(d)' = Life(d)
  <2>1. IsTaken(d)' <=> IsTaken(d)
    BY <1>1, <1>5 DEF IsTaken, Taken
  <2>2. CASE d \in Sent
    <3>1. IsStored(d)' <=> IsStored(d)
      BY <1>1, <1>2, <1>5, <2>2, AddressedIsKey, NoneAssumption
         DEF IsStored, Addressed
    <3> QED
      BY <1>1, <2>1, <3>1, SameLife DEF IsUsed
  <2>3. CASE d \notin Sent
    <3>1. (d \notin Sent <=> Life(d) = "unsent")'
      BY LifeIsNext DEF LivesOK
    <3> QED
      BY <1>1, <2>3, <3>1, LifeIs DEF LivesOK
  <2> QED
    BY <2>2, <2>3
<1>6. OTC!Take(c)
  BY <1>1, <1>2, <1>3, <1>4, <1>5 DEF OTC!Take
<1> QED
  BY <1>2, <1>6 DEF OTC!Next

(* The end of a request, by what becomes of the code it took.              *)
LEMMA EndRefines ==
  ASSUME CodesInv, CodesInv', NEW r \in Req, Used(r) \/ Dropped(r)
  PROVE  OTC!Next \/ UNCHANGED OTC!vars
<1>0. PICK c : c = req[r].code
  OBVIOUS
<1>1. /\ req' = [req EXCEPT ![r] = Idle] /\ ~Taken(r)'
      /\ \A q \in Req \ {r} : req'[q] = req[q]
      /\ UNCHANGED <<otp, sent>>
      /\ \A d : IsStored(d)' <=> IsStored(d)
  <2>1. req' = [req EXCEPT ![r] = Idle] /\ UNCHANGED <<otp, sent>>
    BY DEF Used, Dropped
  <2>2. req \in [Req -> Request]
    BY DEF CodesInv, TypeOK
  <2>3. ~Taken(r)'
    BY <2>1, <2>2 DEF Taken, Idle
  <2>4. \A d : IsStored(d)' <=> IsStored(d)
    BY <2>1 DEF IsStored
  <2> QED
    BY <2>1, <2>2, <2>3, <2>4
<1>2. CASE ~Taken(r)
  <2>1. effects' = effects
    BY <1>2 DEF Used, Dropped
  <2>2. \A d \in Code : Life(d)' = Life(d)
    BY <1>1, <1>2, <2>1, TakenSame, SameLife DEF IsUsed
  <2> QED
    BY <1>1, <2>1, <2>2 DEF OTC!vars
<1>3. CASE Taken(r)
  <2>1. /\ c \in Sent /\ c \in Code
        /\ IsTaken(c) /\ ~IsTaken(c)'
        /\ ~IsStored(c) /\ ~IsUsed(c)
    BY <1>0, <1>1, <1>3, AddressedIsKey
       DEF CodesInv, CodeInFlight, OneTaker, IsTaken, Taken, Presented
  <2>2. Life(c) = "taken" /\ ~(c > Len(sent'))
    BY <1>1, <2>1, LifeIs DEF LivesOK, Sent, CodesInv, TypeOK
  <2>3. ASSUME NEW d \in Code, d # c
        PROVE  Life(d)' = Life(d)
    <3>1. IsTaken(d)' <=> IsTaken(d)
      BY <1>0, <1>1, <2>3 DEF IsTaken, Taken
    <3>2. IsUsed(d)' <=> IsUsed(d)
      BY <1>0, <2>3 DEF IsUsed, Used, Dropped, Effect
    <3> QED
      BY <1>1, <3>1, <3>2, SameLife
  <2>4. CASE Dropped(r)
    <3>1. effects' = effects /\ Life(c)' = "void"
      BY <1>1, <2>1, <2>2, <2>4 DEF Dropped, IsUsed, Life
    <3>2. OTC!Void(c)
      BY <1>1, <2>1, <2>2, <2>3, <3>1 DEF OTC!Void
    <3> QED
      BY <2>1, <3>2 DEF OTC!Next
  <2>5. CASE Used(r)
    <3>1. effects' = effects \cup {Effect(req[r])}
      BY <2>5 DEF Used
    <3>2. Effect(req[r]) = [code |-> c,
                            at |-> [user |-> sent[c].user,
                                    purpose |-> sent[c].purpose]]
      BY <1>0, <1>3 DEF CodesInv, CodeInFlight, Effect, Taken, Presented
    <3>3. Life(c)' = "used"
      BY <1>1, <2>1, <2>2, <3>1, <3>2 DEF IsUsed, Life
    <3>4. OTC!Use(c)
      BY <1>1, <2>1, <2>2, <2>3, <3>1, <3>2, <3>3 DEF OTC!Use, Sent
    <3> QED
      BY <2>1, <3>4 DEF OTC!Next
  <2> QED
    BY <2>4, <2>5
<1> QED
  BY <1>2, <1>3

CodeSafety == OTC!SafetySpec

(* Every step of the handlers, whatever they interleave with and wherever  *)
(* they die, is a step of a one-time code or none: no code is taken twice, *)
(* comes back, or takes effect elsewhere than where it was sent for.       *)
THEOREM CodesAreOneTime == Spec => CodeSafety
<1>1. Init => OTC!Init
  <2> SUFFICES ASSUME Init PROVE OTC!Init
    OBVIOUS
  <2>1. sent = <<>> /\ effects = {}
    BY DEF Init
  <2>2. \A c \in Code : Life(c) = "unsent"
    BY <2>1, MaxSentAssumption DEF Life, Code
  <2> QED
    BY <2>1, <2>2 DEF OTC!Init
<1>2. Invariant /\ [Next]_vars => [OTC!Next]_(OTC!vars)
  <2> SUFFICES ASSUME Invariant, [Next]_vars
               PROVE  OTC!Next \/ UNCHANGED OTC!vars
    OBVIOUS
  <2>1. CodesInv /\ CodesInv'
    BY CodesStep DEF Invariant
  <2> QED
    BY <2>1, StepKinds, QuietRefines, SendRefines, ExpireRefines, ConsumeRefines,
       EndRefines DEF Invariant
<1> QED
  BY <1>1, <1>2, InvariantHolds, PTL DEF Spec, CodeSafety, OTC!SafetySpec

-----------------------------------------------------------------------------
(* Requests that run one after the other, whatever becomes of the accounts *)
(* meanwhile.                                                              *)

OneAtATime == \A q, r \in Req : req[q] # Idle /\ req[r] # Idle => q = r

Accounts == {u \in User : users[u] # NoAccount}

(* CodesReach and NoCodeForVerified, of deleted accounts too: they may be  *)
(* restored.                                                               *)
AllReach ==
  \A u \in Accounts : \A c \in Sent :
    c > users[u].since /\ sent[c].user = u => sent[c].tenant = users[u].tenant

NoneToVerify ==
  \A u \in Accounts :
    users[u].verified => otp[<<u, "verify_email", users[u].tenant>>] = None

(* A request in flight goes by the account as it is now, and one that took *)
(* a verification code left none behind.                                   *)
InFlightCurrent(rq) ==
  /\ rq.op = "send" =>
       /\ rq.user \in Accounts
       /\ rq.tenant = users[rq.user].tenant
       /\ rq.purpose = "verify_email" => ~users[rq.user].verified
  /\ rq.op \in Presented => rq.row.tenant = users[rq.user].tenant
  /\ rq.op \in {"consumed", "selected"} /\ rq.purpose = "verify_email" =>
       otp[KeyOf(rq)] = None

CurrentInv == AllReach /\ NoneToVerify /\ \A r \in Req : InFlightCurrent(req[r])

LEMMA AccountIs ==
  ASSUME CodesInv, NEW u \in Accounts
  PROVE  /\ users[u] \in Account
         /\ \A p \in Purpose : <<u, p, users[u].tenant>> \in Key
BY DEF CodesInv, TypeOK, Accounts, Account, Key

(* A step that sends no code, verifies no account and moves none to        *)
(* another tenant, and after which requests are as current as before.      *)
LEMMA KeepsCurrent ==
  ASSUME CodesInv, RequestsSound', CodesInv', CurrentInv, sent' = sent,
         \A u \in User : /\ users'[u] = NoAccount <=> users[u] = NoAccount
                         /\ users'[u].tenant = users[u].tenant
                         /\ users'[u].verified = users[u].verified
                         /\ users'[u].since = users[u].since,
         \A k \in Key : otp[k] = None => otp'[k] = None,
         \A q \in Req : InFlightCurrent(req'[q])
  PROVE  CurrentInv'
<1>1. Accounts' = Accounts /\ Sent' = Sent
  BY DEF Accounts, Sent
<1>2. AllReach'
  BY <1>1 DEF CurrentInv, AllReach, Accounts
<1>3. NoneToVerify'
  BY <1>1, AccountIs DEF CurrentInv, NoneToVerify, Accounts, Purpose
<1>4. ASSUME NEW q \in Req
      PROVE  InFlightCurrent(req[q])'
  <2>1. PICK rq \in Request : rq = req'[q]
    BY DEF CodesInv, TypeOK
  <2>2. InFlightCurrent(rq)
    BY <2>1
  <2>3. rq.op \in Presented => rq \in PresentedRequest
    BY RequestKinds
  <2>4. rq.op = "send" => rq.user \in User
    BY RequestKinds
  <2>5. rq.op \in Presented => rq.user \in User /\ KeyOf(rq) \in Key
    BY <2>3 DEF PresentedRequest, LoadedRow, KeyOf, Key
  <2>6. rq.op = "send" =>
          /\ rq.user \in Accounts'
          /\ rq.tenant = users'[rq.user].tenant
          /\ rq.purpose = "verify_email" => ~users'[rq.user].verified
    BY <1>1, <2>2, <2>4 DEF InFlightCurrent
  <2>7. rq.op \in Presented => rq.row.tenant = users'[rq.user].tenant
    BY <2>2, <2>5 DEF InFlightCurrent
  <2>8. rq.op \in {"consumed", "selected"} /\ rq.purpose = "verify_email" =>
          otp'[KeyOf(rq)] = None
    BY <2>2, <2>5 DEF InFlightCurrent, Presented
  <2> QED
    BY <2>1, <2>6, <2>7, <2>8 DEF InFlightCurrent, KeyOf
<1> QED
  BY <1>2, <1>3, <1>4 DEF CurrentInv

(* A step after which nothing is in flight.                                *)
LEMMA IdleIsCurrent ==
  ASSUME NEW rq, rq = Idle
  PROVE  rq.op \notin Presented \cup {"send"}
BY DEF Idle, Presented

LEMMA AllIdleAfter ==
  ASSUME CodesInv, OneAtATime, NEW r \in Req, req[r] # Idle,
         req' = [req EXCEPT ![r] = Idle], AllReach', NoneToVerify'
  PROVE  CurrentInv'
<1>1. \A q \in Req : req'[q] = Idle
  BY DEF OneAtATime, CodesInv, TypeOK
<1>2. \A q \in Req : InFlightCurrent(req[q])'
  BY <1>1, IdleIsCurrent DEF InFlightCurrent, Presented
<1> QED
  BY <1>2 DEF CurrentInv

LEMMA AskCurrent ==
  ASSUME CodesInv, CodesInv', RequestsSound', CurrentInv, OneAtATime',
         NEW r \in Req, Ask(r)
  PROVE  CurrentInv'
<1>1. PICK u \in User :
        \/ \E t \in Tenant : Register(r, u, t)
        \/ ResendVerification(r, u)
        \/ LoginOtpInit(r, u)
        \/ ForgotPassword(r, u)
        \/ \E p \in Purpose, c \in Code : Present(r, u, p, c)
  BY DEF Ask
<1>2. ASSUME NEW rq, Start(r, rq), InFlightCurrent(rq)
      PROVE  CurrentInv'
  <2>1. UNCHANGED <<users, otp, sent>> /\ req' = [req EXCEPT ![r] = rq]
    BY <1>2 DEF Start
  <2>2. \A q \in Req : InFlightCurrent(req'[q])
    BY <1>2, <2>1 DEF CurrentInv, CodesInv, TypeOK
  <2> QED
    BY <2>1, <2>2, KeepsCurrent
<1>3. u \in Live => u \in Accounts
  BY DEF Live, Accounts, NoAccount
<1>4. ASSUME NEW p, u \in Live, p = "verify_email" => ~users[u].verified
      PROVE  InFlightCurrent(SendTo(u, p, users[u].tenant))
  BY <1>3, <1>4 DEF InFlightCurrent, SendTo, Presented
<1>5. CASE \/ ResendVerification(r, u)
           \/ LoginOtpInit(r, u)
           \/ ForgotPassword(r, u)
  BY <1>2, <1>4, <1>5 DEF ResendVerification, LoginOtpInit, ForgotPassword
<1>6. ASSUME NEW p \in Purpose, NEW c \in Code, Present(r, u, p, c)
      PROVE  CurrentInv'
  <2> DEFINE rq == [op |-> "read", user |-> u, purpose |-> p,
                    row |-> Loaded(users[u]), code |-> c, moved |-> FALSE]
  <2>1. InFlightCurrent(rq)
    BY DEF InFlightCurrent, Loaded
  <2> QED
    BY <1>2, <1>6, <2>1 DEF Present
<1>7. ASSUME NEW t \in Tenant, Register(r, u, t)
      PROVE  CurrentInv'
  <2>1. /\ UNCHANGED <<otp, sent>> /\ Sent' = Sent
        /\ req'[r] = SendTo(u, "verify_email", t)
        /\ users' = [users EXCEPT ![u] =
                       [tenant |-> t, verified |-> FALSE, active |-> FALSE,
                        deleted |-> "no", since |-> Len(sent)]]
    BY <1>7 DEF Register, Sent
  <2>2. /\ users'[u] = [tenant |-> t, verified |-> FALSE, active |-> FALSE,
                        deleted |-> "no", since |-> Len(sent)]
        /\ \A v \in User : v # u => users'[v] = users[v]
        /\ Accounts' = Accounts \cup {u}
    BY <2>1 DEF CodesInv, TypeOK, Accounts, NoAccount
  <2>3. AllReach'
    <3>1. Len(sent) \in Nat
      BY DEF CodesInv, TypeOK
    <3>2. \A c \in Sent : ~(c > users'[u].since)
      BY <2>2, <3>1 DEF Sent
    <3>3. \A v \in Accounts' : v # u => v \in Accounts /\ users'[v] = users[v]
      BY <2>2 DEF Accounts
    <3> QED
      BY <2>1, <3>2, <3>3 DEF CurrentInv, AllReach
  <2>4. NoneToVerify'
    <3>1. ~users'[u].verified
      BY <2>2
    <3>2. \A v \in Accounts' : v # u => v \in Accounts /\ users'[v] = users[v]
      BY <2>2 DEF Accounts
    <3> QED
      BY <2>1, <3>1, <3>2 DEF CurrentInv, NoneToVerify
  <2>5. req'[r] # Idle /\ \A q \in Req : q # r => req'[q] = Idle
    BY <2>1 DEF OneAtATime, SendTo, Idle
  <2>6. InFlightCurrent(req[r])'
    BY <2>1, <2>2 DEF InFlightCurrent, SendTo, Presented
  <2>7. \A q \in Req : InFlightCurrent(req[q])'
    BY <2>5, <2>6, IdleIsCurrent DEF InFlightCurrent, Presented
  <2> QED
    BY <2>3, <2>4, <2>7 DEF CurrentInv
<1> QED
  BY <1>1, <1>5, <1>6, <1>7

(* The code is sent under the tenant of an account that is not verified    *)
(* yet, if it is a verification code.                                      *)
LEMMA SendCurrent ==
  ASSUME CodesInv, CurrentInv, OneAtATime, NEW r \in Req, Send(r)
  PROVE  CurrentInv'
<1> DEFINE rq == req[r]
<1>0. PICK n : n = Len(sent) + 1
  OBVIOUS
<1>1. /\ n \notin Sent
      /\ Sent' = Sent \cup {n}
      /\ \A c \in Sent : sent'[c] = sent[c]
      /\ Addressed(n)' \in Key
      /\ otp' = [otp EXCEPT ![Addressed(n)'] = n]
      /\ req' = [req EXCEPT ![r] = Idle]
  BY <1>0, SendStep
<1>2. /\ rq.op = "send" /\ users' = users
      /\ Addressed(n)' = <<rq.user, rq.purpose, rq.tenant>>
      /\ sent'[n].user = rq.user /\ sent'[n].tenant = rq.tenant
  <2>1. /\ req[r].op = "send" /\ users' = users
        /\ sent' = Append(sent, [user |-> req[r].user, purpose |-> req[r].purpose,
                                 tenant |-> req[r].tenant])
    BY DEF Send
  <2>2. req[r] \in [op: {"send"}, user: User, purpose: Purpose, tenant: Tenant]
    BY <2>1, RequestKinds DEF CodesInv, TypeOK
  <2>3. sent'[n] = [user |-> req[r].user, purpose |-> req[r].purpose,
                    tenant |-> req[r].tenant]
    BY <1>0, <2>1, <2>2 DEF CodesInv, TypeOK
  <2>4. /\ sent'[n].user = req[r].user
        /\ sent'[n].purpose = req[r].purpose
        /\ sent'[n].tenant = req[r].tenant
    BY <2>3
  <2>5. Addressed(n)' = <<req[r].user, req[r].purpose, req[r].tenant>>
    BY <2>4 DEF Addressed
  <2> QED
    BY <2>1, <2>4, <2>5
<1>3. /\ rq.user \in Accounts
      /\ rq.tenant = users[rq.user].tenant
      /\ rq.purpose = "verify_email" => ~users[rq.user].verified
  BY <1>2 DEF CurrentInv, InFlightCurrent
<1>4. rq # Idle
  BY <1>2 DEF Idle
<1> HIDE DEF rq
<1>5. AllReach'
  <2>1. ASSUME NEW u \in Accounts, NEW c \in Sent',
               c > users[u].since, sent'[c].user = u
        PROVE  sent'[c].tenant = users[u].tenant
    <3>1. CASE c = n
      BY <1>2, <1>3, <2>1, <3>1
    <3>2. CASE c \in Sent
      BY <1>1, <2>1, <3>2 DEF CurrentInv, AllReach
    <3> QED
      BY <1>1, <3>1, <3>2
  <2>2. Accounts' = Accounts
    BY <1>2 DEF Accounts
  <2> QED
    BY <1>2, <2>1, <2>2 DEF AllReach
<1>6. NoneToVerify'
  <2>1. ASSUME NEW u \in Accounts, users[u].verified
        PROVE  otp'[<<u, "verify_email", users[u].tenant>>] = None
    <3>1. <<u, "verify_email", users[u].tenant>> # Addressed(n)'
      BY <1>2, <1>3, <2>1
    <3>2. otp[<<u, "verify_email", users[u].tenant>>] = None
      BY <2>1 DEF CurrentInv, NoneToVerify
    <3>3. <<u, "verify_email", users[u].tenant>> \in Key
      BY AccountIs DEF Purpose
    <3> QED
      BY <1>1, <3>1, <3>2, <3>3 DEF CodesInv, TypeOK
  <2>2. Accounts' = Accounts
    BY <1>2 DEF Accounts
  <2> QED
    BY <1>2, <2>1, <2>2 DEF NoneToVerify
<1> QED
  BY <1>1, <1>4, <1>5, <1>6, AllIdleAfter DEF rq

(* The account is verified under the key whose code was consumed.          *)
LEMMA WriteVerifiedCurrent ==
  ASSUME CodesInv, RequestsSound, CurrentInv, OneAtATime,
         NEW r \in Req, WriteVerified(r)
  PROVE  CurrentInv'
<1> DEFINE u == req[r].user
<1>1. /\ req[r].op \in Presented /\ req[r].op = "selected"
      /\ req[r].purpose = "verify_email"
      /\ UNCHANGED <<otp, sent>> /\ Sent' = Sent
      /\ req' = [req EXCEPT ![r] = Idle]
  BY DEF WriteVerified, Presented, Succeed, Sent
<1>2. req[r] \in PresentedRequest /\ users[u] \in Account
  BY <1>1, RequestKinds DEF CodesInv, TypeOK, RequestsSound, RequestSound
<1>3. u \in User
  BY <1>2 DEF PresentedRequest
<1>4. users' = [users EXCEPT ![u] = WrittenVerified(r)]
  BY <1>2, <1>3, WriteVerifiedRow
<1>5. /\ WrittenVerified(r).tenant = users[u].tenant
      /\ WrittenVerified(r).since = users[u].since
      /\ WrittenVerified(r) # NoAccount
  BY <1>2 DEF WrittenVerified, Account, NoAccount
<1>6. otp[<<u, "verify_email", users[u].tenant>>] = None
  BY <1>1 DEF CurrentInv, InFlightCurrent, KeyOf
<1>7. req[r] # Idle
  BY <1>1 DEF Idle
<1>8. users[u] # NoAccount
  BY <1>2, NoneAssumption DEF Account, NoAccount
<1> HIDE DEF u
<1>9. /\ Accounts' = Accounts
      /\ \A v \in User : /\ users'[v].tenant = users[v].tenant
                         /\ users'[v].since = users[v].since
                         /\ v # u => users'[v] = users[v]
  BY <1>3, <1>4, <1>5, <1>8 DEF Accounts, CodesInv, TypeOK
<1>10. AllReach'
  BY <1>1, <1>9 DEF CurrentInv, AllReach, Accounts
<1>11. NoneToVerify'
  BY <1>1, <1>6, <1>9 DEF CurrentInv, NoneToVerify, Accounts
<1> QED
  BY <1>1, <1>7, <1>10, <1>11, AllIdleAfter

LEMMA ProceedCurrent ==
  ASSUME CodesInv, RequestsSound, CodesInv', RequestsSound', CurrentInv, OneAtATime,
         NEW r \in Req, Proceed(r) \/ Crash(r)
  PROVE  CurrentInv'
<1>0. req \in [Req -> Request] /\ otp \in [Key -> Code \cup {None}]
  BY DEF CodesInv, TypeOK
<1>1. \A q \in Req : InFlightCurrent(req[q])
  BY DEF CurrentInv
<1>2. ASSUME Consume(r)
      PROVE  CurrentInv'
  <2>1. /\ req[r].op = "read" /\ UNCHANGED <<users, sent>>
        /\ otp' = [otp EXCEPT ![KeyOf(req[r])] = None]
        /\ Advance(r, "consumed")
    BY <1>2 DEF Consume
  <2>2. /\ req'[r].op = "consumed"
        /\ req'[r].user = req[r].user
        /\ req'[r].purpose = req[r].purpose
        /\ req'[r].row = req[r].row
        /\ \A q \in Req \ {r} : req'[q] = req[q]
    BY <2>1, AdvanceTo DEF Presented
  <2>3. KeyOf(req[r]) \in Key
    <3>1. req[r] \in PresentedRequest
      BY <1>0, <2>1, RequestKinds DEF Presented
    <3> QED
      BY <3>1 DEF PresentedRequest, LoadedRow, KeyOf, Key
  <2>4. \A k \in Key : otp[k] = None => otp'[k] = None
    BY <1>0, <2>1
  <2>5. AllReach' /\ NoneToVerify'
    <3>1. Accounts' = Accounts /\ Sent' = Sent
      BY <2>1 DEF Accounts, Sent
    <3>2. AllReach'
      BY <2>1, <3>1 DEF CurrentInv, AllReach
    <3>3. NoneToVerify'
      BY <2>1, <2>4, <3>1, AccountIs DEF CurrentInv, NoneToVerify, Purpose
    <3> QED
      BY <3>2, <3>3
  <2>6. InFlightCurrent(req[r])'
    <3>1. req[r].row.tenant = users[req[r].user].tenant
      BY <1>1, <2>1 DEF InFlightCurrent, Presented
    <3>2. KeyOf(req[r])' = KeyOf(req[r])
      BY <2>2 DEF KeyOf
    <3>3. otp'[KeyOf(req[r])] = None
      BY <1>0, <2>1, <2>3
    <3> QED
      BY <2>1, <2>2, <3>1, <3>2, <3>3 DEF InFlightCurrent
  <2>7. \A q \in Req \ {r} : req'[q] = Idle
    <3>1. req[r] # Idle
      BY <2>1 DEF Idle
    <3> QED
      BY <2>2, <3>1 DEF OneAtATime
  <2>8. \A q \in Req : InFlightCurrent(req[q])'
    BY <2>6, <2>7, IdleIsCurrent DEF InFlightCurrent, Presented
  <2> QED
    BY <2>5, <2>8 DEF CurrentInv
<1>3. ASSUME Select(r)
      PROVE  CurrentInv'
  <2>1. /\ req[r].op = "consumed" /\ UNCHANGED <<users, otp, sent>>
        /\ Advance(r, "selected")
    BY <1>3 DEF Select
  <2>2. /\ req'[r].op = "selected"
        /\ req'[r].user = req[r].user
        /\ req'[r].purpose = req[r].purpose
        /\ req'[r].row = req[r].row
        /\ \A q \in Req \ {r} : req'[q] = req[q]
    BY <2>1, AdvanceTo DEF Presented
  <2>3. InFlightCurrent(req'[r])
    BY <1>1, <2>1, <2>2 DEF InFlightCurrent, KeyOf, Presented
  <2>4. \A q \in Req : InFlightCurrent(req'[q])
    BY <1>1, <2>2, <2>3
  <2> QED
    BY <2>1, <2>4, KeepsCurrent
<1>4. ASSUME req' = [req EXCEPT ![r] = Idle], UNCHANGED <<users, otp, sent>>
      PROVE  CurrentInv'
  <2>1. \A q \in Req : req'[q] = Idle \/ req'[q] = req[q]
    BY <1>0, <1>4
  <2>2. \A q \in Req : InFlightCurrent(req'[q])
    BY <1>1, <2>1, IdleIsCurrent DEF InFlightCurrent, Presented
  <2> QED
    BY <1>4, <2>2, KeepsCurrent
<1>5. ASSUME \/ SendRefused(r) \/ Refuse(r) \/ Miss(r) \/ Crash(r)
             \/ Issue(r) \/ WritePassword(r)
      PROVE  CurrentInv'
  BY <1>4, <1>5 DEF SendRefused, Refuse, Miss, Crash, Issue, WritePassword,
     Fail, Succeed
<1> QED
  BY <1>2, <1>3, <1>5, SendCurrent, WriteVerifiedCurrent DEF Proceed

(* A deletion or a restore changes neither the tenant of an account nor    *)
(* whether it is verified.                                                 *)
LEMMA ChangeAccountCurrent ==
  ASSUME CodesInv, CodesInv', RequestsSound', CurrentInv, ChangeAccount
  PROVE  CurrentInv'
<1>0. users \in [User -> Account \cup {NoAccount}] /\ req \in [Req -> Request]
  BY DEF CodesInv, TypeOK
<1>1. PICK u \in User :
        \/ \E by \in {"self", "admin"} : Delete(u, by)
        \/ Restore(u)
        \/ \E active \in BOOLEAN : SetActive(u, active)
  BY DEF ChangeAccount
<1>2. UNCHANGED <<otp, sent>>
  BY <1>1 DEF Delete, Restore, SetActive
<1>3. users[u] \in Account /\ users[u] # NoAccount
  <2>1. users[u].deleted # "never"
    BY <1>1 DEF Delete, Restore, SetActive, Live
  <2> QED
    BY <1>0, <2>1 DEF NoAccount
<1>4. /\ \A v \in User \ {u} : users'[v] = users[v]
      /\ users'[u].tenant = users[u].tenant
      /\ users'[u].verified = users[u].verified
      /\ users'[u].since = users[u].since
      /\ users'[u] # NoAccount
  <2>1. ASSUME NEW d, users' = [users EXCEPT ![u].deleted = d], d # "never"
        PROVE  /\ \A v \in User \ {u} : users'[v] = users[v]
               /\ users'[u].tenant = users[u].tenant
               /\ users'[u].verified = users[u].verified
               /\ users'[u].since = users[u].since
               /\ users'[u] # NoAccount
    BY <1>0, <1>3, <2>1 DEF Account, NoAccount
  <2>2. ASSUME NEW b, users' = [users EXCEPT ![u].active = b]
        PROVE  /\ \A v \in User \ {u} : users'[v] = users[v]
               /\ users'[u].tenant = users[u].tenant
               /\ users'[u].verified = users[u].verified
               /\ users'[u].since = users[u].since
               /\ users'[u] # NoAccount
    BY <1>0, <1>3, <2>2 DEF Account, NoAccount
  <2>3. \/ \E d \in {"self", "admin", "no"} : users' = [users EXCEPT ![u].deleted = d]
        \/ \E b : users' = [users EXCEPT ![u].active = b]
    BY <1>1 DEF Delete, Restore, SetActive
  <2> QED
    BY <2>1, <2>2, <2>3
<1>5. \A v \in User : /\ users'[v] = NoAccount <=> users[v] = NoAccount
                      /\ users'[v].tenant = users[v].tenant
                      /\ users'[v].verified = users[v].verified
                      /\ users'[v].since = users[v].since
  BY <1>3, <1>4
<1>6. ASSUME NEW q \in Req
      PROVE  InFlightCurrent(req'[q])
  <2>1. \/ req'[q] = req[q]
        \/ req[q].op \in Presented /\ req'[q] = Marked(req[q])
    BY <1>0, <1>1 DEF Delete, Restore, SetActive, MoveOn, Marked
  <2>2. InFlightCurrent(req[q])
    BY DEF CurrentInv
  <2>3. req[q].op \in Presented => /\ Marked(req[q]).op = req[q].op
                                   /\ Marked(req[q]).user = req[q].user
                                   /\ Marked(req[q]).purpose = req[q].purpose
                                   /\ Marked(req[q]).row = req[q].row
    BY <1>0, MarkedRequest
  <2> QED
    BY <2>1, <2>2, <2>3 DEF InFlightCurrent, KeyOf, Presented
<1> QED
  BY <1>2, <1>5, <1>6, KeepsCurrent

LEMMA CurrentInvHolds == Spec /\ []OneAtATime => []CurrentInv
<1>1. Init => CurrentInv
  <2> SUFFICES ASSUME Init PROVE CurrentInv
    OBVIOUS
  <2>1. Accounts = {} /\ \A r \in Req : req[r] = Idle
    BY DEF Init, Accounts
  <2> QED
    BY <2>1, IdleIsCurrent DEF CurrentInv, AllReach, NoneToVerify, InFlightCurrent,
       Presented
<1>2. Invariant /\ Invariant' /\ OneAtATime /\ OneAtATime' /\ CurrentInv /\ [Next]_vars
        => CurrentInv'
  <2> SUFFICES ASSUME CodesInv, RequestsSound, CodesInv', RequestsSound', OneAtATime,
                      OneAtATime', CurrentInv, [Next]_vars
               PROVE  CurrentInv'
    BY DEF Invariant
  <2>1. CASE UNCHANGED vars
    BY <2>1, KeepsCurrent DEF vars, CurrentInv
  <2>2. ASSUME NEW k \in Key, Expire(k)
        PROVE  CurrentInv'
    <3>1. \A j \in Key : otp[j] = None => otp'[j] = None
      BY <2>2 DEF Expire, CodesInv, TypeOK
    <3>2. UNCHANGED <<users, sent, req>>
      BY <2>2 DEF Expire
    <3> QED
      BY <3>1, <3>2, KeepsCurrent DEF CurrentInv
  <2> QED
    BY <2>1, <2>2, AskCurrent, ProceedCurrent, ChangeAccountCurrent DEF Next
<1> QED
  BY <1>1, <1>2, InvariantHolds, PTL DEF Spec

(* Of requests that run one after the other, every code an account was     *)
(* sent since it was registered is under the tenant its confirmation looks *)
(* under (register_user, resend_verification, login_otp_init,              *)
(* forgot_password and what confirms each).                                *)
THEOREM OneAtATimeCodesReach == Spec /\ []OneAtATime => []CodesReach
<1>1. CurrentInv => CodesReach
  BY DEF CurrentInv, AllReach, CodesReach, Accounts, Live, NoAccount, Sent
<1> QED
  BY <1>1, CurrentInvHolds, PTL

(* Of requests that run one after the other, a verified account has no     *)
(* verification code left: verify_email consumes the one there is, and     *)
(* resend_verification sends none to a verified account.                   *)
THEOREM OneAtATimeNoCodeForVerified == Spec /\ []OneAtATime => []NoCodeForVerified
<1>1. CurrentInv => NoCodeForVerified
  BY DEF CurrentInv, NoneToVerify, NoCodeForVerified, Accounts, Live, NoAccount
<1> QED
  BY <1>1, CurrentInvHolds, PTL

-----------------------------------------------------------------------------
(* The behaviours the run explores are behaviours of the specification,    *)
(* and one request at a time in serial mode: the first slot is the only    *)
(* one in use.                                                             *)

FirstSlot == \A r \in Req : req[r] # Idle => \A q \in Req : ~(q < r)

LEMMA RunsAreBehaviours == MCSpec => Spec
<1>1. MCInit => Init
  BY DEF MCInit
<1>2. [MCNext]_mcvars => [Next]_vars
  BY DEF MCNext, MCProceed, MCCrash, Next, ChangeAccount, mcvars, vars
<1> QED
  BY <1>1, <1>2, PTL DEF MCSpec, Spec

LEMMA ModeStays == [MCNext]_mcvars => (serial' <=> serial)
BY DEF MCNext, MCProceed, MCCrash, mcvars, serial

LEMMA SerialRuns == MCSpec /\ serial => []OneAtATime
<1>1. MCInit => FirstSlot
  BY DEF MCInit, Init, FirstSlot
<1>2. CodesInv /\ serial /\ FirstSlot /\ [MCNext]_mcvars => FirstSlot'
  <2> SUFFICES ASSUME CodesInv, serial, FirstSlot, [MCNext]_mcvars
               PROVE  FirstSlot'
    OBVIOUS
  <2>0. req \in [Req -> Request]
    BY DEF CodesInv, TypeOK
  <2>1. ASSUME \A q \in Req : req'[q] # Idle => req[q] # Idle
        PROVE  FirstSlot'
    BY <2>1 DEF FirstSlot
  <2>2. ASSUME NEW r \in Req, Ask(r), \A q \in Req : ~(q < r)
        PROVE  FirstSlot'
    <3>1. \A q \in Req \ {r} : req'[q] # Idle => req[q] # Idle
      <4>1. ASSUME NEW rq, Start(r, rq)
            PROVE  \A q \in Req \ {r} : req'[q] = req[q]
        BY <2>0, <4>1 DEF Start
      <4>2. ASSUME NEW u, NEW t, Register(r, u, t), NEW q \in Req \ {r}, req[q] = Idle
            PROVE  req'[q] = Idle
        BY <4>2 DEF Register, Idle, Presented
      <4> QED
        BY <2>2, <4>1, <4>2 DEF Ask, ResendVerification, LoginOtpInit,
           ForgotPassword, Present
    <3> QED
      BY <2>2, <3>1 DEF FirstSlot
  <2>3. ASSUME NEW r \in Req, Proceed(r) \/ Crash(r)
        PROVE  FirstSlot'
    <3>1. Idle.op = "idle"
      BY DEF Idle
    <3>2. /\ req[r] # Idle
          /\ \A q \in Req \ {r} : req'[q] = req[q]
      BY <2>0, <2>3, <3>1 DEF Proceed, Crash, Send, SendRefused, Consume, Refuse,
         Issue, Select, Miss, WriteVerified, WritePassword, Fail, Succeed, Advance
    <3> QED
      BY <2>1, <3>2
  <2>4. ASSUME NoneInFlight, ChangeAccount
        PROVE  FirstSlot'
    <3>1. \A q \in Req : req[q].op = "idle"
      BY <2>4 DEF NoneInFlight, Idle
    <3>2. \A q \in Req : req'[q] = req[q]
      BY <2>4, <3>1 DEF ChangeAccount, Delete, Restore, SetActive, MoveOn, Presented
    <3> QED
      BY <2>1, <3>2
  <2>5. ASSUME req' = req
        PROVE  FirstSlot'
    BY <2>1, <2>5
  <2> QED
    BY <2>2, <2>3, <2>4, <2>5
       DEF MCNext, MCProceed, MCCrash, Expire, mcvars, vars
<1>3. FirstSlot => OneAtATime
  BY ReqAssumption DEF FirstSlot, OneAtATime
<1>4. Invariant => CodesInv
  BY DEF Invariant
<1> QED
  BY <1>1, <1>2, <1>3, <1>4, ModeStays, RunsAreBehaviours, InvariantHolds, PTL
     DEF MCSpec

(* The serial behaviours of the run: codes reach (forgot_password,         *)
(* forgot_password_confirm).                                               *)
THEOREM SerialCodesAllReach == MCSpec => []SerialCodesReach
<1>1. serial \/ ~serial
  OBVIOUS
<1> QED
  BY <1>1, ModeStays, RunsAreBehaviours, SerialRuns, OneAtATimeCodesReach, PTL
     DEF MCSpec, SerialCodesReach

(* The serial behaviours of the run: no code for a verified account        *)
(* (verify_email, resend_verification).                                    *)
THEOREM SerialNoCodesForVerified == MCSpec => []SerialNoCodeForVerified
<1>1. serial \/ ~serial
  OBVIOUS
<1> QED
  BY <1>1, ModeStays, RunsAreBehaviours, SerialRuns, OneAtATimeNoCodeForVerified, PTL
     DEF MCSpec, SerialNoCodeForVerified
=============================================================================
