-------------------------- MODULE OnboardingProofs --------------------------
(***************************************************************************)
(* Proofs about Onboarding, for any number of tenants, accounts,           *)
(* invitations and concurrent requests.  An invitation is used once        *)
(* because every account it could make has the e-mail it was sent to, no   *)
(* route changes the e-mail of an account, and the constraint on e-mails   *)
(* counts deleted accounts.  The checks of accept_invitation play no part. *)
(* The last sections are about requests that run one after the other.      *)
(***************************************************************************)
EXTENDS MCOnboarding, TLAPS

EmailIsOwn ==
  \A u, v \in DOMAIN users : users[u].email = users[v].email => u = v

ViaKnown ==
  \A u \in DOMAIN users : users[u].via = None \/ users[u].via \in DOMAIN invitations

(* What a request in flight may rely on when it writes.                    *)
InFlightSafe(rq) ==
  /\ rq.op = "createUser" =>
       \/ rq.row.via = None
       \/ /\ rq.row.via \in DOMAIN invitations
          /\ rq.row.email = invitations[rq.row.via].email
  /\ rq.op = "invite" => ~rq.row.accepted
  /\ rq.op \in {"updateTenant", "deleteTenant"} => rq.tenant \in DOMAIN tenants
  /\ rq.op \in {"revive", "activate"} => rq.user \in DOMAIN users

(* The inductive invariant.                                                *)
IInv ==
  /\ TypeOK
  /\ InvitationSingleUse
  /\ EmailIsOwn
  /\ ViaKnown
  /\ \A r \in Req : InFlightSafe(req[r])

-----------------------------------------------------------------------------
LEMMA InitInv == Init => IInv
<1> SUFFICES ASSUME Init PROVE IInv
  OBVIOUS
<1> USE DEF Init
<1>1. TypeOK
  BY FirstTenantsAssumption DEF TypeOK, TenantRow, Request
<1>2. InvitationSingleUse /\ EmailIsOwn /\ ViaKnown
  BY DEF InvitationSingleUse, Made, EmailIsOwn, ViaKnown
<1>3. \A r \in Req : InFlightSafe(req[r])
  BY DEF InFlightSafe, Idle
<1> QED
  BY <1>1, <1>2, <1>3 DEF IInv

(* A step that starts a well-formed request.                               *)
LEMMA StartKeepsInv ==
  ASSUME IInv, NEW r \in Req, NEW rq \in Request, InFlightSafe(rq), Start(r, rq)
  PROVE  IInv'
<1>1. /\ tenants' = tenants /\ users' = users /\ invitations' = invitations
      /\ req' = [req EXCEPT ![r] = rq]
  BY DEF Start
<1>2. TypeOK'
  BY <1>1 DEF IInv, TypeOK
<1>3. \A q \in Req : InFlightSafe(req[q])'
  BY <1>1 DEF IInv, TypeOK, InFlightSafe
<1> QED
  BY <1>1, <1>2, <1>3 DEF IInv, InvitationSingleUse, Made, EmailIsOwn, ViaKnown

(* What a step leaves in flight is what was in flight, or nothing.         *)
OnlyEnds == /\ req' \in [Req -> Request]
            /\ \A q \in Req : req'[q] = req[q] \/ req'[q] = Idle

LEMMA FinishEnds ==
  ASSUME TypeOK, NEW r \in Req, Finish(r) \/ req' = req
  PROVE  OnlyEnds
BY DEF TypeOK, Finish, OnlyEnds, Request

(* A step that writes rows and starts no request.                          *)
LEMMA RowsKeepInv ==
  ASSUME IInv, OnlyEnds,
         DOMAIN tenants \subseteq DOMAIN tenants', DOMAIN tenants' \subseteq Tenant,
         tenants' \in [DOMAIN tenants' -> TenantRow],
         DOMAIN users \subseteq DOMAIN users', DOMAIN users' \subseteq User,
         users' \in [DOMAIN users' -> UserRow],
         DOMAIN invitations \subseteq DOMAIN invitations',
         DOMAIN invitations' \subseteq InvitationId,
         invitations' \in [DOMAIN invitations' -> InvitationRow],
         \A i \in DOMAIN invitations : invitations'[i].email = invitations[i].email,
         InvitationSingleUse', EmailIsOwn', ViaKnown'
  PROVE  IInv'
<1>1. TypeOK'
  BY DEF TypeOK, OnlyEnds
<1>2. ASSUME NEW q \in Req
      PROVE  InFlightSafe(req[q])'
  <2>1. CASE req'[q] = Idle
    BY <2>1 DEF InFlightSafe, Idle
  <2>2. CASE req'[q] = req[q]
    BY <2>2 DEF IInv, InFlightSafe
  <2> QED
    BY <2>1, <2>2 DEF OnlyEnds
<1> QED
  BY <1>1, <1>2 DEF IInv

(* A step that writes tenants only.                                        *)
LEMMA TenantsKeepInv ==
  ASSUME IInv, OnlyEnds, users' = users, invitations' = invitations,
         DOMAIN tenants \subseteq DOMAIN tenants', DOMAIN tenants' \subseteq Tenant,
         tenants' \in [DOMAIN tenants' -> TenantRow]
  PROVE  IInv'
<1>1. InvitationSingleUse' /\ EmailIsOwn' /\ ViaKnown'
  BY DEF IInv, InvitationSingleUse, Made, EmailIsOwn, ViaKnown
<1> QED
  BY <1>1, RowsKeepInv DEF IInv, TypeOK

(* A step that changes an account other than in its e-mail and its origin. *)
LEMMA AccountKeepsInv ==
  ASSUME IInv, OnlyEnds, tenants' = tenants, invitations' = invitations,
         NEW u \in DOMAIN users, NEW row \in UserRow,
         row.email = users[u].email, row.via = users[u].via,
         users' = [users EXCEPT ![u] = row]
  PROVE  IInv'
<1>1. /\ DOMAIN users' = DOMAIN users
      /\ users' \in [DOMAIN users' -> UserRow]
      /\ \A v \in DOMAIN users : /\ users'[v].email = users[v].email
                                 /\ users'[v].via = users[v].via
  BY DEF IInv, TypeOK
<1>2. EmailIsOwn' /\ ViaKnown'
  BY <1>1 DEF IInv, EmailIsOwn, ViaKnown
<1>3. ASSUME NEW i \in DOMAIN invitations
      PROVE  Made(i)' = Made(i)
  BY <1>1 DEF Made
<1>4. InvitationSingleUse'
  BY <1>1, <1>3 DEF IInv, InvitationSingleUse, Made
<1> QED
  BY <1>1, <1>2, <1>4, RowsKeepInv DEF IInv, TypeOK

(* A step that adds an account made by no invitation.                      *)
LEMMA NewAccountKeepsSafe ==
  ASSUME IInv, NEW u \in User, u \notin DOMAIN users, NEW row \in UserRow,
         FreeEmail(row.email), row.via = None, invitations' = invitations,
         users' = Extend(users, u, row)
  PROVE  /\ DOMAIN users \subseteq DOMAIN users' /\ DOMAIN users' \subseteq User
         /\ users' \in [DOMAIN users' -> UserRow]
         /\ InvitationSingleUse' /\ EmailIsOwn' /\ ViaKnown'
<1>1. /\ DOMAIN users' = DOMAIN users \cup {u}
      /\ users'[u] = row
      /\ \A v \in DOMAIN users : users'[v] = users[v]
      /\ users' \in [DOMAIN users' -> UserRow]
  BY DEF IInv, TypeOK, Extend
<1>2. EmailIsOwn'
  BY <1>1 DEF IInv, EmailIsOwn, FreeEmail
<1>3. ViaKnown'
  BY <1>1 DEF IInv, ViaKnown
<1>4. ASSUME NEW i \in DOMAIN invitations
      PROVE  Made(i)' = Made(i)
  BY <1>1, NoneAssumption DEF IInv, TypeOK, Made
<1>5. InvitationSingleUse'
  BY <1>1, <1>4, NoneAssumption DEF IInv, TypeOK, InvitationSingleUse, Made
<1> QED
  BY <1>1, <1>2, <1>3, <1>5 DEF IInv, TypeOK

-----------------------------------------------------------------------------
LEMMA CheckKeepsInv ==
  ASSUME IInv, NEW r \in Req, Check(r)
  PROVE  IInv'
<1> USE DEF IInv, TypeOK
<1>1. ASSUME NEW n \in OrgName, CreateTenant(r, n)
      PROVE  IInv'
  <2> DEFINE rq == [op |-> "createTenant", name |-> n]
  <2>1. rq \in Request /\ InFlightSafe(rq) /\ Start(r, rq)
    BY <1>1 DEF CreateTenant, Request, InFlightSafe
  <2> QED
    BY <2>1, StartKeepsInv
<1>2. ASSUME NEW n \in OrgName, NEW e \in Email, NEW un \in Username,
             RegisterTenant(r, n, e, un)
      PROVE  IInv'
  <2> DEFINE rq == [op |-> "registerTenant", name |-> n, email |-> e, username |-> un]
  <2>1. rq \in Request /\ InFlightSafe(rq) /\ Start(r, rq)
    BY <1>2 DEF RegisterTenant, Request, InFlightSafe
  <2> QED
    BY <2>1, StartKeepsInv
<1>3. ASSUME NEW i \in InvitationId, NEW un \in Username, AcceptInvitation(r, i, un)
      PROVE  IInv'
  <2> DEFINE rq == [op |-> "createUser",
                    row |-> NewUser(invitations[i].tenant, invitations[i].email, un, i)]
  <2>1. /\ i \in DOMAIN invitations
        /\ invitations[i].tenant \in Tenant
        /\ invitations[i].email \in Email
    BY <1>3 DEF AcceptInvitation, Open, InvitationRow
  <2>2. rq \in Request
    BY <2>1 DEF Request, UserRow, NewUser
  <2>3. InFlightSafe(rq)
    BY <2>1 DEF InFlightSafe, NewUser
  <2>4. Start(r, rq)
    BY <1>3 DEF AcceptInvitation
  <2> QED
    BY <2>2, <2>3, <2>4, StartKeepsInv
<1>4. ASSUME NEW u \in User, NEW b \in BOOLEAN, Activate(r, u, b)
      PROVE  IInv'
  <2> DEFINE rq == [op |-> "activate", user |-> u, active |-> Changed(b, users[u].active)]
  <2>1. u \in DOMAIN users /\ Changed(b, users[u].active) \in BOOLEAN \cup {None}
    BY <1>4 DEF Activate, LiveUsers, Changed
  <2>2. rq \in Request /\ InFlightSafe(rq) /\ Start(r, rq)
    BY <1>4, <2>1 DEF Activate, Request, InFlightSafe
  <2> QED
    BY <2>2, StartKeepsInv
<1>5. ASSUME NEW t \in Tenant, NEW n \in OrgName \cup {None},
             NEW b \in BOOLEAN \cup {None}, UpdateTenant(r, t, n, b)
      PROVE  IInv'
  <2> DEFINE rq == [op |-> "updateTenant", tenant |-> t,
                    name |-> Changed(n, tenants[t].name),
                    active |-> Changed(b, tenants[t].active)]
  <2>1. /\ t \in DOMAIN tenants
        /\ Changed(n, tenants[t].name) \in OrgName \cup {None}
        /\ Changed(b, tenants[t].active) \in BOOLEAN \cup {None}
    BY <1>5 DEF UpdateTenant, LiveTenants, Changed
  <2>2. rq \in Request /\ InFlightSafe(rq) /\ Start(r, rq)
    BY <1>5, <2>1 DEF UpdateTenant, Request, InFlightSafe
  <2> QED
    BY <2>2, StartKeepsInv
<1>6. ASSUME NEW t \in Tenant, DeleteTenant(r, t)
      PROVE  IInv'
  <2> DEFINE rq == [op |-> "deleteTenant", tenant |-> t]
  <2>1. rq \in Request /\ InFlightSafe(rq) /\ Start(r, rq)
    BY <1>6 DEF DeleteTenant, LiveTenants, Request, InFlightSafe
  <2> QED
    BY <2>1, StartKeepsInv
<1>7. ASSUME NEW t \in Tenant, NEW u \in User, NEW un \in Username,
             Reregister(r, u, t, un)
      PROVE  IInv'
  <2> DEFINE rq == [op |-> "revive", user |-> u,
                    tenant |-> Changed(t, users[u].tenant),
                    username |-> Changed(un, users[u].username),
                    active |-> Changed(FALSE, users[u].active)]
  <2>1. /\ u \in DOMAIN users
        /\ Changed(t, users[u].tenant) \in Tenant \cup {None}
        /\ Changed(un, users[u].username) \in Username \cup {None}
        /\ Changed(FALSE, users[u].active) \in BOOLEAN \cup {None}
    BY <1>7 DEF Reregister, Changed
  <2>2. rq \in Request /\ InFlightSafe(rq) /\ Start(r, rq)
    BY <1>7, <2>1 DEF Reregister, Request, InFlightSafe
  <2> QED
    BY <2>2, StartKeepsInv
<1>8. ASSUME NEW t \in Tenant, NEW e \in Email, Invite(r, t, e)
      PROVE  IInv'
  <2> DEFINE rq == [op |-> "invite",
                    row |-> [tenant |-> t, email |-> e, accepted |-> FALSE,
                             expired |-> FALSE, deleted |-> "no"]]
  <2>1. rq \in Request /\ InFlightSafe(rq) /\ Start(r, rq)
    BY <1>8 DEF Invite, Request, InvitationRow, InFlightSafe
  <2> QED
    BY <2>1, StartKeepsInv
<1>9. ASSUME NEW t \in Tenant, NEW e \in Email, NEW un \in Username,
             Register(r, t, e, un) \/ CreateUser(r, t, e, un)
      PROVE  IInv'
  <2> DEFINE rq == [op |-> "createUser", row |-> NewUser(t, e, un, None)]
  <2>1. rq \in Request
    BY DEF Request, UserRow, NewUser
  <2>2. InFlightSafe(rq) /\ Start(r, rq)
    BY <1>9 DEF Register, CreateUser, InFlightSafe, NewUser
  <2> QED
    BY <2>1, <2>2, StartKeepsInv
<1> QED
  BY <1>1, <1>2, <1>3, <1>4, <1>5, <1>6, <1>7, <1>8, <1>9 DEF Check

LEMMA WriteKeepsInv ==
  ASSUME IInv, NEW r \in Req, Write(r)
  PROVE  IInv'
<1> USE DEF IInv, TypeOK
<1>0. req[r] \in Request /\ InFlightSafe(req[r])
  OBVIOUS
<1>1. ASSUME NEW t \in Tenant, NEW u \in User, InsertTenantAndAdmin(r, t, u)
      PROVE  IInv'
  <2> DEFINE row == NewUser(t, req[r].email, req[r].username, None)
  <2>1. row \in UserRow /\ row.via = None /\ row.email = req[r].email
    BY <1>0, <1>1 DEF InsertTenantAndAdmin, Request, Idle, UserRow, NewUser
  <2>2. /\ users' = Extend(users, u, row) /\ u \notin DOMAIN users
        /\ FreeEmail(row.email) /\ invitations' = invitations /\ OnlyEnds
    BY <1>1, <2>1, FinishEnds DEF InsertTenantAndAdmin
  <2> HIDE DEF row
  <2>3. /\ DOMAIN tenants' = DOMAIN tenants \cup {t}
        /\ tenants' \in [DOMAIN tenants' -> TenantRow]
    <3>1. req[r].name \in OrgName
      BY <1>0, <1>1 DEF InsertTenantAndAdmin, Request, Idle
    <3> QED
      BY <1>1, <3>1 DEF InsertTenantAndAdmin, Extend, TenantRow
  <2>4. /\ DOMAIN users \subseteq DOMAIN users' /\ DOMAIN users' \subseteq User
        /\ users' \in [DOMAIN users' -> UserRow]
        /\ InvitationSingleUse' /\ EmailIsOwn' /\ ViaKnown'
    BY <2>1, <2>2, NewAccountKeepsSafe
  <2> QED
    BY <2>2, <2>3, <2>4, RowsKeepInv
<1>2. ASSUME NEW t \in Tenant, InsertTenant(r, t)
      PROVE  IInv'
  <2>1. req[r].name \in OrgName
    BY <1>0, <1>2 DEF InsertTenant, Request, Idle
  <2>2. /\ DOMAIN tenants' = DOMAIN tenants \cup {t}
        /\ tenants' \in [DOMAIN tenants' -> TenantRow]
    BY <1>2, <2>1 DEF InsertTenant, Extend, TenantRow
  <2> QED
    BY <1>2, <2>2, FinishEnds, TenantsKeepInv DEF InsertTenant
<1>3. CASE FlushTenant(r)
  <2> DEFINE t == req[r].tenant
             n == Given(req[r].name, tenants[t].name)
             b == Given(req[r].active, tenants[t].active)
  <2>1. /\ t \in DOMAIN tenants
        /\ req[r].name \in OrgName \cup {None}
        /\ req[r].active \in BOOLEAN \cup {None}
    BY <1>0, <1>3 DEF FlushTenant, InFlightSafe, Request, Idle
  <2>2. n \in OrgName /\ b \in BOOLEAN
    BY <2>1 DEF Given, TenantRow
  <2>3. tenants' = [tenants EXCEPT ![t].name = n, ![t].active = b]
    BY <1>3 DEF FlushTenant
  <2> HIDE DEF t, n, b
  <2>4. DOMAIN tenants' = DOMAIN tenants /\ tenants' \in [DOMAIN tenants' -> TenantRow]
    BY <2>1, <2>2, <2>3 DEF TenantRow
  <2> QED
    BY <1>3, <2>4, FinishEnds, TenantsKeepInv DEF FlushTenant
<1>4. CASE SoftDeleteTenant(r)
  <2>1. req[r].tenant \in DOMAIN tenants
    BY <1>0, <1>4 DEF SoftDeleteTenant, InFlightSafe
  <2>2. DOMAIN tenants' = DOMAIN tenants /\ tenants' \in [DOMAIN tenants' -> TenantRow]
    BY <1>4, <2>1 DEF SoftDeleteTenant, TenantRow
  <2> QED
    BY <1>4, <2>2, FinishEnds, TenantsKeepInv DEF SoftDeleteTenant
<1>5. ASSUME NEW u \in User, InsertUser(r, u)
      PROVE  IInv'
  <2>1. PICK row \in UserRow : row = req[r].row
    BY <1>0, <1>5 DEF InsertUser, Request, Idle
  <2> DEFINE i == row.via
  <2>2. /\ users' = Extend(users, u, row) /\ u \notin DOMAIN users
        /\ FreeEmail(row.email) /\ tenants' = tenants /\ OnlyEnds
        /\ invitations' = MarkAccepted(i)
        /\ i = None \/ (i \in DOMAIN invitations /\ row.email = invitations[i].email)
    BY <1>0, <1>5, <2>1, FinishEnds DEF InsertUser, InFlightSafe
  <2>3. CASE i = None
    <3>1. invitations' = invitations
      BY <2>2, <2>3, NoneAssumption DEF MarkAccepted
    <3>2. /\ DOMAIN users \subseteq DOMAIN users' /\ DOMAIN users' \subseteq User
          /\ users' \in [DOMAIN users' -> UserRow]
          /\ InvitationSingleUse' /\ EmailIsOwn' /\ ViaKnown'
      BY <2>1, <2>2, <2>3, <3>1, NewAccountKeepsSafe
    <3> QED
      BY <2>2, <3>1, <3>2, RowsKeepInv
  <2>4. CASE i \in DOMAIN invitations /\ row.email = invitations[i].email
    <3>1. /\ DOMAIN users' = DOMAIN users \cup {u}
          /\ users'[u] = row
          /\ \A v \in DOMAIN users : users'[v] = users[v]
          /\ users' \in [DOMAIN users' -> UserRow]
      BY <2>1, <2>2 DEF Extend
    <3>2. /\ DOMAIN invitations' = DOMAIN invitations
          /\ \A j \in DOMAIN invitations : /\ invitations'[j].email = invitations[j].email
                                           /\ j # i => invitations'[j] = invitations[j]
          /\ invitations' \in [DOMAIN invitations' -> InvitationRow]
      BY <2>2, <2>4 DEF MarkAccepted, InvitationRow
    <3>3. EmailIsOwn'
      BY <2>2, <3>1 DEF EmailIsOwn, FreeEmail
    <3>4. ViaKnown'
      BY <2>4, <3>1, <3>2 DEF ViaKnown
    <3>5. \A v \in DOMAIN users : users[v].via # i
      BY <2>2, <2>4 DEF InvitationSingleUse, Made, FreeEmail
    <3>6. Made(i)' = {u}
      BY <3>1, <3>5 DEF Made
    <3>7. \A j \in DOMAIN invitations : j # i => Made(j)' = Made(j)
      BY <3>1 DEF Made
    <3>8. InvitationSingleUse'
      <4>1. ASSUME NEW j \in DOMAIN invitations, j # i
            PROVE  /\ \A v, w \in Made(j)' : v = w
                   /\ \A v \in Made(j)' : users'[v].email = invitations'[j].email
                   /\ invitations'[j].accepted => Made(j)' # {}
        <5>1. Made(j) \subseteq DOMAIN users
          BY DEF Made
        <5>2. Made(j)' = Made(j) /\ invitations'[j] = invitations[j]
          BY <3>2, <3>7, <4>1
        <5>3. \A v \in Made(j) : users'[v] = users[v]
          BY <3>1, <5>1
        <5>4. /\ \A v, w \in Made(j) : v = w
              /\ \A v \in Made(j) : users[v].email = invitations[j].email
              /\ invitations[j].accepted => Made(j) # {}
          BY DEF InvitationSingleUse
        <5> QED
          BY <5>2, <5>3, <5>4
      <4>2. /\ \A v, w \in Made(i)' : v = w
            /\ \A v \in Made(i)' : users'[v].email = invitations'[i].email
            /\ Made(i)' # {}
        BY <2>4, <3>1, <3>2, <3>6
      <4>3. \A j \in DOMAIN invitations :
              /\ \A v, w \in Made(j)' : v = w
              /\ \A v \in Made(j)' : users'[v].email = invitations'[j].email
              /\ invitations'[j].accepted => Made(j)' # {}
        BY <4>1, <4>2
      <4>4. DOMAIN invitations' = DOMAIN invitations
        BY <3>2
      <4> QED
        BY <4>3, <4>4 DEF InvitationSingleUse
    <3> QED
      BY <2>2, <3>1, <3>2, <3>3, <3>4, <3>8, RowsKeepInv
  <2> QED
    BY <2>2, <2>3, <2>4
<1>6. CASE Revive(r)
  <2> DEFINE u == req[r].user
             row == [users[u] EXCEPT !.tenant = Given(req[r].tenant, users[u].tenant),
                                     !.username = Given(req[r].username, users[u].username),
                                     !.active = Given(req[r].active, users[u].active),
                                     !.deleted = "no"]
  <2>1. /\ u \in DOMAIN users
        /\ req[r].tenant \in Tenant \cup {None}
        /\ req[r].username \in Username \cup {None}
        /\ req[r].active \in BOOLEAN \cup {None}
    BY <1>0, <1>6 DEF Revive, InFlightSafe, Request, Idle
  <2>2. row \in UserRow /\ row.email = users[u].email /\ row.via = users[u].via
    <3>1. users[u] \in UserRow
      BY <2>1
    <3>2. /\ Given(req[r].tenant, users[u].tenant) \in Tenant
          /\ Given(req[r].username, users[u].username) \in Username
          /\ Given(req[r].active, users[u].active) \in BOOLEAN
      BY <2>1, <3>1 DEF UserRow, Given
    <3> QED
      BY <3>1, <3>2 DEF UserRow
  <2>3. users' = [users EXCEPT ![u] = row]
    BY <1>6, <2>1 DEF Revive
  <2> HIDE DEF row, u
  <2> QED
    BY <1>6, <2>1, <2>2, <2>3, FinishEnds, AccountKeepsInv DEF Revive
<1>7. CASE FlushActive(r)
  <2> DEFINE u == req[r].user
             row == [users[u] EXCEPT !.active = Given(req[r].active, users[u].active)]
  <2>1. u \in DOMAIN users /\ req[r].active \in BOOLEAN \cup {None}
    BY <1>0, <1>7 DEF FlushActive, InFlightSafe, Request, Idle
  <2>2. row \in UserRow /\ row.email = users[u].email /\ row.via = users[u].via
    BY <2>1 DEF UserRow, Given
  <2>3. users' = [users EXCEPT ![u] = row]
    BY <1>7, <2>1 DEF FlushActive
  <2> HIDE DEF row, u
  <2> QED
    BY <1>7, <2>1, <2>2, <2>3, FinishEnds, AccountKeepsInv DEF FlushActive
<1>8. ASSUME NEW i \in InvitationId, InsertInvitation(r, i)
      PROVE  IInv'
  <2>1. req[r].row \in InvitationRow /\ ~req[r].row.accepted
    BY <1>0, <1>8 DEF InsertInvitation, InFlightSafe, Request, Idle
  <2>2. /\ DOMAIN invitations' = DOMAIN invitations \cup {i}
        /\ i \notin DOMAIN invitations
        /\ invitations'[i] = req[r].row
        /\ \A j \in DOMAIN invitations : invitations'[j] = invitations[j]
        /\ invitations' \in [DOMAIN invitations' -> InvitationRow]
        /\ users' = users /\ tenants' = tenants
    BY <1>8, <2>1 DEF InsertInvitation, Extend
  <2>3. \A u \in DOMAIN users : users[u].via # i
    BY <2>2, NoneAssumption DEF ViaKnown
  <2>4. InvitationSingleUse'
    BY <2>1, <2>2, <2>3 DEF InvitationSingleUse, Made
  <2>5. EmailIsOwn' /\ ViaKnown'
    BY <2>2 DEF EmailIsOwn, ViaKnown
  <2>6. OnlyEnds
    BY <1>8, FinishEnds DEF InsertInvitation
  <2> QED
    BY <2>2, <2>4, <2>5, <2>6, RowsKeepInv
<1>9. CASE SkipDeletedTenant(r) \/ SkipDeletedUser(r) \/ UniqueViolation(r) \/ Rollback(r)
  BY <1>9, FinishEnds, TenantsKeepInv
     DEF SkipDeletedTenant, SkipDeletedUser, UniqueViolation, Rollback
<1> QED
  BY <1>1, <1>2, <1>3, <1>4, <1>5, <1>6, <1>7, <1>8, <1>9 DEF Write

LEMMA ElsewhereKeepsInv ==
  ASSUME IInv, Elsewhere
  PROVE  IInv'
<1> USE DEF IInv, TypeOK
<1>1. ASSUME NEW u \in User, NEW d \in {"no", "self", "admin"}, u \in DOMAIN users,
             users' = [users EXCEPT ![u].deleted = d],
             tenants' = tenants, invitations' = invitations, req' = req
      PROVE  IInv'
  <2> DEFINE row == [users[u] EXCEPT !.deleted = d]
  <2>1. /\ row \in UserRow /\ row.email = users[u].email /\ row.via = users[u].via
        /\ users' = [users EXCEPT ![u] = row]
    BY <1>1 DEF UserRow
  <2>2. OnlyEnds
    BY <1>1 DEF OnlyEnds
  <2> HIDE DEF row
  <2> QED
    BY <1>1, <2>1, <2>2, AccountKeepsInv
<1>2. ASSUME NEW u \in User, NEW by \in {"self", "admin"}, DeleteAccount(u, by)
      PROVE  IInv'
  BY <1>1, <1>2 DEF DeleteAccount, LiveUsers
<1>3. ASSUME NEW u \in User, RestoreAccount(u)
      PROVE  IInv'
  BY <1>1, <1>3 DEF RestoreAccount
<1>4. ASSUME NEW i \in InvitationId,
             ExpireInvitation(i) \/ DeleteInvitation(i) \/ RestoreInvitation(i)
      PROVE  IInv'
  <2>1. /\ i \in DOMAIN invitations
        /\ users' = users /\ tenants' = tenants /\ req' = req
        /\ \/ invitations' = [invitations EXCEPT ![i].expired = TRUE]
           \/ invitations' = [invitations EXCEPT ![i].deleted = "yes"]
           \/ invitations' = [invitations EXCEPT ![i].deleted = "undone"]
    BY <1>4 DEF ExpireInvitation, DeleteInvitation, RestoreInvitation
  <2>2. /\ DOMAIN invitations' = DOMAIN invitations
        /\ invitations' \in [DOMAIN invitations' -> InvitationRow]
        /\ \A j \in DOMAIN invitations :
             /\ invitations'[j].email = invitations[j].email
             /\ invitations'[j].accepted = invitations[j].accepted
    <3>1. CASE invitations' = [invitations EXCEPT ![i].expired = TRUE]
      BY <2>1, <3>1 DEF InvitationRow
    <3>2. CASE invitations' = [invitations EXCEPT ![i].deleted = "yes"]
      BY <2>1, <3>2 DEF InvitationRow
    <3>3. CASE invitations' = [invitations EXCEPT ![i].deleted = "undone"]
      BY <2>1, <3>3 DEF InvitationRow
    <3> QED
      BY <2>1, <3>1, <3>2, <3>3
  <2>3. OnlyEnds
    BY <2>1 DEF OnlyEnds
  <2>4. InvitationSingleUse' /\ EmailIsOwn' /\ ViaKnown'
    BY <2>1, <2>2 DEF InvitationSingleUse, Made, EmailIsOwn, ViaKnown
  <2> QED
    BY <2>1, <2>2, <2>3, <2>4, RowsKeepInv
<1> QED
  BY <1>2, <1>3, <1>4 DEF Elsewhere

LEMMA NextKeepsInv == IInv /\ [Next]_vars => IInv'
<1> SUFFICES ASSUME IInv, [Next]_vars PROVE IInv'
  OBVIOUS
<1>1. CASE Next
  BY <1>1, CheckKeepsInv, WriteKeepsInv, ElsewhereKeepsInv DEF Next
<1>2. CASE UNCHANGED vars
  BY <1>2 DEF vars, IInv, TypeOK, InvitationSingleUse, Made, EmailIsOwn, ViaKnown,
     InFlightSafe
<1> QED
  BY <1>1, <1>2

LEMMA InvHolds == Spec => []IInv
BY InitInv, NextKeepsInv, PTL DEF Spec

-----------------------------------------------------------------------------
(* Every row and every request in flight has its type.                     *)
THEOREM OnboardingTypeCorrect == Spec => []TypeOK
BY InvHolds, PTL DEF IInv

(* However acceptances, registrations, deletions and restores interleave,  *)
(* an invitation makes at most one account (accept_invitation,             *)
(* mark_accepted and the constraint on e-mails in models/user.py).         *)
THEOREM InvitationsAreSingleUse == Spec => []InvitationSingleUse
BY InvHolds, PTL DEF IInv

-----------------------------------------------------------------------------
(* Requests that run one after the other, and no deletion, restore or      *)
(* expiry while one is in flight.                                          *)

OneAtATime  == \A q, r \in Req : req[q] # Idle /\ req[r] # Idle => q = r
Undisturbed == (\E r \in Req : req[r] # Idle) => req' # req

(* An invitation that made an account is marked.                           *)
MadeAccepted == \A i \in DOMAIN invitations : Made(i) # {} => invitations[i].accepted

Fresh == {i \in Open : invitations[i].deleted = "no"}

OneFresh ==
  \A i, j \in Fresh :
    (/\ invitations[i].email = invitations[j].email
     /\ invitations[i].tenant = invitations[j].tenant) => i = j

(* A request in flight decided on the invitations as they are now.         *)
InFlightCurrent(rq) ==
  /\ rq.op = "createUser" =>
       rq.row.via = None \/ invitations[rq.row.via].deleted # "yes"
  /\ rq.op = "invite" => Pending(rq.row.email, rq.row.tenant) = {}

SerialInv == MadeAccepted /\ OneFresh /\ \A r \in Req : InFlightCurrent(req[r])

LEMMA SerialStart ==
  ASSUME IInv, SerialInv, NEW r \in Req, NEW rq, InFlightCurrent(rq), Start(r, rq)
  PROVE  SerialInv'
<1>1. /\ users' = users /\ invitations' = invitations
      /\ req' = [req EXCEPT ![r] = rq]
  BY DEF Start
<1>2. \A q \in Req : req'[q] = IF q = r THEN rq ELSE req[q]
  BY <1>1 DEF IInv, TypeOK
<1>3. MadeAccepted' /\ OneFresh'
  BY <1>1 DEF SerialInv, MadeAccepted, OneFresh, Fresh, Open, Made
<1>4. \A q \in Req : InFlightCurrent(req'[q])
  BY <1>2 DEF SerialInv
<1>5. \A q \in Req : InFlightCurrent(req[q])'
  BY <1>1, <1>4 DEF InFlightCurrent, Pending, Open
<1> QED
  BY <1>3, <1>5 DEF SerialInv

LEMMA SerialCheck ==
  ASSUME IInv, SerialInv, NEW r \in Req, Check(r)
  PROVE  SerialInv'
<1>1. ASSUME NEW i \in InvitationId, NEW un \in Username, AcceptInvitation(r, i, un)
      PROVE  SerialInv'
  BY <1>1, SerialStart DEF AcceptInvitation, InFlightCurrent, Open, NewUser
<1>2. ASSUME NEW t \in Tenant, NEW e \in Email, Invite(r, t, e)
      PROVE  SerialInv'
  BY <1>2, SerialStart DEF Invite, InFlightCurrent
<1>3. ASSUME NEW t \in Tenant, NEW e \in Email, NEW un \in Username,
             Register(r, t, e, un) \/ CreateUser(r, t, e, un)
      PROVE  SerialInv'
  BY <1>3, SerialStart DEF Register, CreateUser, InFlightCurrent, NewUser
<1>4. ASSUME NEW rq, rq.op \notin {"createUser", "invite"}, Start(r, rq)
      PROVE  SerialInv'
  BY <1>4, SerialStart DEF InFlightCurrent
<1>5. ASSUME NEW n \in OrgName, CreateTenant(r, n)
      PROVE  SerialInv'
  BY <1>4, <1>5 DEF CreateTenant
<1>6. ASSUME NEW n \in OrgName, NEW e \in Email, NEW un \in Username,
             RegisterTenant(r, n, e, un)
      PROVE  SerialInv'
  BY <1>4, <1>6 DEF RegisterTenant
<1>7. ASSUME NEW u \in User, NEW b \in BOOLEAN, Activate(r, u, b)
      PROVE  SerialInv'
  BY <1>4, <1>7 DEF Activate
<1>8. ASSUME NEW t \in Tenant, NEW n \in OrgName \cup {None},
             NEW b \in BOOLEAN \cup {None}, UpdateTenant(r, t, n, b)
      PROVE  SerialInv'
  BY <1>4, <1>8 DEF UpdateTenant
<1>9. ASSUME NEW t \in Tenant, DeleteTenant(r, t)
      PROVE  SerialInv'
  BY <1>4, <1>9 DEF DeleteTenant
<1>10. ASSUME NEW t \in Tenant, NEW u \in User, NEW un \in Username,
              Reregister(r, u, t, un)
       PROVE  SerialInv'
  BY <1>4, <1>10 DEF Reregister
<1> QED
  BY <1>1, <1>2, <1>3, <1>5, <1>6, <1>7, <1>8, <1>9, <1>10 DEF Check

(* A step that makes no account by an invitation and takes invitations out *)
(* of use at most.                                                         *)
LEMMA SerialRows ==
  ASSUME IInv, SerialInv,
         \A i \in DOMAIN invitations : Made(i)' = Made(i),
         DOMAIN invitations' = DOMAIN invitations,
         \A i \in DOMAIN invitations :
           /\ invitations'[i].email = invitations[i].email
           /\ invitations'[i].tenant = invitations[i].tenant
           /\ invitations'[i].accepted = invitations[i].accepted
           /\ invitations[i].expired => invitations'[i].expired
           /\ invitations'[i].deleted = "no" => invitations[i].deleted = "no"
  PROVE  MadeAccepted' /\ OneFresh'
<1>1. MadeAccepted'
  BY DEF SerialInv, MadeAccepted
<1>2. \A i \in Fresh' : /\ i \in Fresh
                        /\ invitations'[i].email = invitations[i].email
                        /\ invitations'[i].tenant = invitations[i].tenant
  BY DEF Fresh, Open
<1>3. OneFresh'
  BY <1>2 DEF SerialInv, OneFresh
<1> QED
  BY <1>1, <1>3

LEMMA ViaStays ==
  ASSUME DOMAIN users' = DOMAIN users,
         \A u \in DOMAIN users : users'[u].via = users[u].via
  PROVE  \A i : Made(i)' = Made(i)
BY DEF Made

(* A step that ends the only request in flight.                            *)
LEMMA SerialFinish ==
  ASSUME IInv, OneAtATime, NEW r \in Req, req[r] # Idle, Finish(r),
         MadeAccepted', OneFresh'
  PROVE  SerialInv'
<1>1. \A q \in Req : req'[q] = Idle
  BY DEF OneAtATime, Finish, IInv, TypeOK
<1> QED
  BY <1>1 DEF SerialInv, InFlightCurrent, Idle

LEMMA SerialWrite ==
  ASSUME IInv, SerialInv, OneAtATime, NEW r \in Req, Write(r)
  PROVE  SerialInv'
<1>0. /\ req[r] \in Request /\ InFlightSafe(req[r]) /\ InFlightCurrent(req[r])
      /\ users \in [DOMAIN users -> UserRow]
      /\ invitations \in [DOMAIN invitations -> InvitationRow]
      /\ DOMAIN invitations \subseteq InvitationId
  BY DEF IInv, TypeOK, SerialInv
<1>1. Finish(r) /\ req[r] # Idle
  <2>1. Idle.op = "idle"
    BY DEF Idle
  <2> QED
    BY <2>1 DEF Write, InsertTenantAndAdmin, InsertTenant, FlushTenant,
       SoftDeleteTenant, SkipDeletedTenant, InsertUser, Revive, FlushActive,
       SkipDeletedUser, InsertInvitation, UniqueViolation, Rollback
<1>2. ASSUME invitations' = invitations, \A i \in DOMAIN invitations : Made(i)' = Made(i)
      PROVE  MadeAccepted' /\ OneFresh'
  BY <1>2, SerialRows
<1>3. ASSUME NEW t \in Tenant, NEW u \in User, InsertTenantAndAdmin(r, t, u)
      PROVE  MadeAccepted' /\ OneFresh'
  <2>1. /\ DOMAIN users' = DOMAIN users \cup {u}
        /\ users'[u].via = None
        /\ \A v \in DOMAIN users : users'[v] = users[v]
        /\ invitations' = invitations
    BY <1>3 DEF InsertTenantAndAdmin, Extend, NewUser
  <2>2. \A i \in DOMAIN invitations : Made(i)' = Made(i)
    BY <1>0, <1>3, <2>1, NoneAssumption DEF Made, InsertTenantAndAdmin
  <2> QED
    BY <1>2, <2>1, <2>2
<1>4. ASSUME NEW u \in User, InsertUser(r, u)
      PROVE  MadeAccepted' /\ OneFresh'
  <2> DEFINE via == req[r].row.via
  <2>1. /\ DOMAIN users' = DOMAIN users \cup {u}
        /\ u \notin DOMAIN users
        /\ users'[u].via = via
        /\ \A v \in DOMAIN users : users'[v] = users[v]
        /\ invitations' = MarkAccepted(via)
    BY <1>4 DEF InsertUser, Extend
  <2>2. via = None \/ (via \in DOMAIN invitations /\ invitations[via].deleted # "yes")
    BY <1>0, <1>4 DEF InsertUser, InFlightSafe, InFlightCurrent
  <2> HIDE DEF via
  <2>3. /\ DOMAIN invitations' = DOMAIN invitations
        /\ \A i \in DOMAIN invitations : i # via => invitations'[i] = invitations[i]
        /\ via \in DOMAIN invitations =>
             /\ invitations'[via].accepted
             /\ via \notin Fresh'
    <3>1. /\ DOMAIN invitations' = DOMAIN invitations
          /\ \A i \in DOMAIN invitations : i # via => invitations'[i] = invitations[i]
      BY <2>1 DEF MarkAccepted
    <3>2. ASSUME via \in DOMAIN invitations
          PROVE  invitations'[via].accepted
      <4>1. invitations[via].deleted # "yes"
        BY <1>0, <2>2, <3>2, NoneAssumption
      <4>2. invitations'[via] = [invitations[via] EXCEPT !.accepted = TRUE]
        BY <2>1, <3>2, <4>1 DEF MarkAccepted
      <4>3. invitations[via] \in InvitationRow
        BY <1>0, <3>2
      <4> QED
        BY <4>2, <4>3 DEF InvitationRow
    <3> QED
      BY <3>1, <3>2 DEF Fresh, Open
  <2>4. \A i \in DOMAIN invitations : i # via => Made(i)' = Made(i)
    BY <2>1 DEF Made
  <2>5. MadeAccepted'
    BY <2>3, <2>4 DEF SerialInv, MadeAccepted
  <2>6. \A i \in Fresh' : i \in Fresh /\ invitations'[i] = invitations[i]
    <3>1. \A i \in Fresh' : i \in DOMAIN invitations /\ i # via
      BY <2>3 DEF Fresh, Open
    <3> QED
      BY <2>3, <3>1 DEF Fresh, Open
  <2>7. OneFresh'
    BY <2>6 DEF SerialInv, OneFresh
  <2> QED
    BY <2>5, <2>7
<1>5. ASSUME Revive(r) \/ FlushActive(r)
      PROVE  MadeAccepted' /\ OneFresh'
  <2> DEFINE u == req[r].user
  <2>1. u \in DOMAIN users
    BY <1>0, <1>5 DEF Revive, FlushActive, InFlightSafe
  <2>2. invitations' = invitations
    BY <1>5 DEF Revive, FlushActive
  <2>3. CASE Revive(r)
    <3>1. \E t, n, b : users' = [users EXCEPT ![u].tenant = t, ![u].username = n,
                                             ![u].active = b, ![u].deleted = "no"]
      BY <2>3 DEF Revive
    <3> HIDE DEF u
    <3>2. /\ DOMAIN users' = DOMAIN users
          /\ \A v \in DOMAIN users : users'[v].via = users[v].via
      BY <1>0, <2>1, <3>1 DEF UserRow
    <3> QED
      BY <1>2, <2>2, <3>2, ViaStays
  <2>4. CASE FlushActive(r)
    <3>1. \E b : users' = [users EXCEPT ![u].active = b]
      BY <2>4 DEF FlushActive
    <3> HIDE DEF u
    <3>2. /\ DOMAIN users' = DOMAIN users
          /\ \A v \in DOMAIN users : users'[v].via = users[v].via
      BY <1>0, <2>1, <3>1 DEF UserRow
    <3> QED
      BY <1>2, <2>2, <3>2, ViaStays
  <2> QED
    BY <1>5, <2>3, <2>4
<1>6. ASSUME NEW i \in InvitationId, InsertInvitation(r, i)
      PROVE  MadeAccepted' /\ OneFresh'
  <2> DEFINE row == req[r].row
  <2>1. /\ DOMAIN invitations' = DOMAIN invitations \cup {i}
        /\ i \notin DOMAIN invitations
        /\ invitations'[i] = row
        /\ \A j \in DOMAIN invitations : invitations'[j] = invitations[j]
        /\ users' = users
    BY <1>6 DEF InsertInvitation, Extend
  <2>2. Pending(row.email, row.tenant) = {}
    BY <1>0, <1>6 DEF InsertInvitation, InFlightCurrent
  <2> HIDE DEF row
  <2>3. \A u \in DOMAIN users : users[u].via # i
    BY <2>1, NoneAssumption DEF IInv, ViaKnown
  <2>4. Made(i)' = {} /\ \A j \in DOMAIN invitations : Made(j)' = Made(j)
    BY <2>1, <2>3 DEF Made
  <2>5. MadeAccepted'
    BY <2>1, <2>4 DEF SerialInv, MadeAccepted
  <2>6. \A j \in Fresh' : j # i => j \in Fresh /\ invitations'[j] = invitations[j]
    BY <2>1 DEF Fresh, Open
  <2>7. \A j \in Fresh : ~(invitations[j].email = row.email /\ invitations[j].tenant = row.tenant)
    BY <2>2 DEF Pending, Fresh
  <2>8. OneFresh'
    BY <2>1, <2>6, <2>7 DEF SerialInv, OneFresh
  <2> QED
    BY <2>5, <2>8
<1>7. ASSUME UNCHANGED <<users, invitations>>
      PROVE  MadeAccepted' /\ OneFresh'
  BY <1>2, <1>7, ViaStays
<1>8. MadeAccepted' /\ OneFresh'
  BY <1>3, <1>4, <1>5, <1>6, <1>7
     DEF Write, InsertTenant, FlushTenant, SoftDeleteTenant, SkipDeletedTenant,
         SkipDeletedUser, UniqueViolation, Rollback
<1> QED
  BY <1>1, <1>8, SerialFinish

(* A deletion, a restore or an expiry while no request is in flight.       *)
LEMMA SerialElsewhere ==
  ASSUME IInv, SerialInv, \A r \in Req : req[r] = Idle, Elsewhere
  PROVE  SerialInv'
<1>0. /\ users \in [DOMAIN users -> UserRow]
      /\ invitations \in [DOMAIN invitations -> InvitationRow]
  BY DEF IInv, TypeOK
<1>1. req' = req
  BY DEF Elsewhere, DeleteAccount, RestoreAccount, ExpireInvitation,
     DeleteInvitation, RestoreInvitation
<1>2. ASSUME NEW u \in User,
             (\E by \in {"self", "admin"} : DeleteAccount(u, by)) \/ RestoreAccount(u)
      PROVE  MadeAccepted' /\ OneFresh'
  <2>1. /\ u \in DOMAIN users /\ invitations' = invitations
        /\ \E d : users' = [users EXCEPT ![u].deleted = d]
    BY <1>2 DEF DeleteAccount, RestoreAccount, LiveUsers
  <2>2. /\ DOMAIN users' = DOMAIN users
        /\ \A v \in DOMAIN users : users'[v].via = users[v].via
    BY <1>0, <2>1 DEF UserRow
  <2> QED
    BY <2>1, <2>2, ViaStays, SerialRows
<1>3. ASSUME NEW i \in InvitationId,
             ExpireInvitation(i) \/ DeleteInvitation(i) \/ RestoreInvitation(i)
      PROVE  MadeAccepted' /\ OneFresh'
  <2>1. /\ i \in DOMAIN invitations
        /\ users' = users
        /\ \/ invitations' = [invitations EXCEPT ![i].expired = TRUE]
           \/ invitations' = [invitations EXCEPT ![i].deleted = "yes"]
           \/ invitations' = [invitations EXCEPT ![i].deleted = "undone"]
    BY <1>3 DEF ExpireInvitation, DeleteInvitation, RestoreInvitation
  <2>2. /\ DOMAIN invitations' = DOMAIN invitations
        /\ \A j \in DOMAIN invitations :
             /\ invitations'[j].email = invitations[j].email
             /\ invitations'[j].tenant = invitations[j].tenant
             /\ invitations'[j].accepted = invitations[j].accepted
             /\ invitations[j].expired => invitations'[j].expired
             /\ invitations'[j].deleted = "no" => invitations[j].deleted = "no"
    <3>1. CASE invitations' = [invitations EXCEPT ![i].expired = TRUE]
      BY <1>0, <2>1, <3>1 DEF InvitationRow
    <3>2. CASE invitations' = [invitations EXCEPT ![i].deleted = "yes"]
      BY <1>0, <2>1, <3>2 DEF InvitationRow
    <3>3. CASE invitations' = [invitations EXCEPT ![i].deleted = "undone"]
      BY <1>0, <2>1, <3>3 DEF InvitationRow
    <3> QED
      BY <2>1, <3>1, <3>2, <3>3
  <2> QED
    BY <2>1, <2>2, ViaStays, SerialRows
<1>4. MadeAccepted' /\ OneFresh'
  BY <1>2, <1>3 DEF Elsewhere
<1> QED
  BY <1>1, <1>4 DEF SerialInv, InFlightCurrent, Idle

LEMMA SerialInvHolds == Spec /\ []OneAtATime /\ [][Undisturbed]_vars => []SerialInv
<1>1. Init => SerialInv
  BY DEF Init, SerialInv, MadeAccepted, OneFresh, Fresh, Open, InFlightCurrent, Idle
<1>2. IInv /\ OneAtATime /\ SerialInv /\ [Next]_vars /\ [Undisturbed]_vars => SerialInv'
  <2> SUFFICES ASSUME IInv, OneAtATime, SerialInv, [Next]_vars, [Undisturbed]_vars
               PROVE  SerialInv'
    OBVIOUS
  <2>1. CASE UNCHANGED vars
    BY <2>1 DEF vars, SerialInv, MadeAccepted, OneFresh, Fresh, Open, Made,
       InFlightCurrent, Pending
  <2>2. ASSUME Elsewhere
        PROVE  SerialInv'
    <3>1. req' = req
      BY <2>2 DEF Elsewhere, DeleteAccount, RestoreAccount, ExpireInvitation,
         DeleteInvitation, RestoreInvitation
    <3>2. (\A r \in Req : req[r] = Idle) \/ UNCHANGED vars
      BY <3>1 DEF Undisturbed
    <3> QED
      BY <2>1, <2>2, <3>2, SerialElsewhere
  <2> QED
    BY <2>1, <2>2, SerialCheck, SerialWrite DEF Next
<1> QED
  BY <1>1, <1>2, InvHolds, PTL DEF Spec

(* Of requests that run one after the other, a second open invitation to   *)
(* an address in a tenant is there only because one of the two came back   *)
(* with its sender, and an invitation that made an account is used up      *)
(* (create_invitation, get_invitation_by_email_tenant, accept_invitation,  *)
(* mark_accepted).                                                         *)
THEOREM OneAtATimeOpenOnce ==
  Spec /\ []OneAtATime /\ [][Undisturbed]_vars => []OpenOnceUnlessRestored
<1>1. IInv /\ SerialInv => OpenOnceUnlessRestored
  <2> SUFFICES ASSUME IInv, SerialInv PROVE OpenOnceUnlessRestored
    OBVIOUS
  <2>1. ASSUME NEW i \in Open, NEW j \in Open, i # j,
               invitations[i].email = invitations[j].email,
               invitations[i].tenant = invitations[j].tenant
        PROVE  "undone" \in {invitations[i].deleted, invitations[j].deleted}
    <3>1. {invitations[i].deleted, invitations[j].deleted} \subseteq {"no", "undone"}
      BY DEF IInv, TypeOK, Open, InvitationRow
    <3>2. ~(invitations[i].deleted = "no" /\ invitations[j].deleted = "no")
      BY <2>1 DEF SerialInv, OneFresh, Fresh
    <3> QED
      BY <3>1, <3>2
  <2>2. \A i \in Open : Made(i) = {}
    BY DEF SerialInv, MadeAccepted, Open
  <2> QED
    BY <2>1, <2>2 DEF OpenOnceUnlessRestored
<1> QED
  BY <1>1, InvHolds, SerialInvHolds, PTL

-----------------------------------------------------------------------------
(* The behaviours the runs explore are behaviours of the specification,    *)
(* and one request at a time in the serial modes.                          *)

OnlySlot == \A r \in Req \ {r1} : req[r] = Idle

LEMMA RunsAreBehaviours == MCSpec => Spec
<1>1. MCInit => Init
  BY DEF MCInit
<1>2. [MCNext]_mcvars => [Next]_vars
  BY DEF MCNext, Next, mcvars, vars
<1> QED
  BY <1>1, <1>2, PTL DEF MCSpec, Spec

LEMMA ModeStays == [MCNext]_mcvars => (serial' <=> serial)
BY DEF MCNext, mcvars, serial

LEMMA SerialRuns == MCSpec /\ serial => []OneAtATime /\ [][Undisturbed]_vars
<1>1. MCInit => OnlySlot
  BY DEF MCInit, Init, OnlySlot
<1>2. IInv /\ serial /\ OnlySlot /\ [MCNext]_mcvars => OnlySlot' /\ [Undisturbed]_vars
  <2> SUFFICES ASSUME IInv, serial, OnlySlot, [MCNext]_mcvars
               PROVE  OnlySlot' /\ [Undisturbed]_vars
    OBVIOUS
  <2>1. CASE UNCHANGED mcvars
    BY <2>1 DEF mcvars, vars, OnlySlot
  <2>2. ASSUME \E r \in Req : r = r1 /\ (Check(r) \/ Write(r))
        PROVE  OnlySlot' /\ [Undisturbed]_vars
    <3>1. Idle.op = "idle"
      BY DEF Idle
    <3>2. Check(r1) => \E rq : Start(r1, rq) /\ rq # Idle
      <4>1. ASSUME NEW rq, Start(r1, rq), rq.op # "idle"
            PROVE  \E q : Start(r1, q) /\ q # Idle
        BY <3>1, <4>1
      <4>2. ASSUME NEW t, NEW n, NEW b, UpdateTenant(r1, t, n, b)
            PROVE  \E q : Start(r1, q) /\ q # Idle
        BY <4>1, <4>2 DEF UpdateTenant
      <4>3. ASSUME NEW t, NEW u, NEW un, Reregister(r1, u, t, un)
            PROVE  \E q : Start(r1, q) /\ q # Idle
        BY <4>1, <4>3 DEF Reregister
      <4>4. ASSUME NEW t, NEW e, Invite(r1, t, e)
            PROVE  \E q : Start(r1, q) /\ q # Idle
        BY <4>1, <4>4 DEF Invite
      <4>5. ASSUME NEW t, NEW e, NEW un, Register(r1, t, e, un) \/ CreateUser(r1, t, e, un)
            PROVE  \E q : Start(r1, q) /\ q # Idle
        BY <4>1, <4>5 DEF Register, CreateUser
      <4>6. ASSUME NEW n, NEW e, NEW un, RegisterTenant(r1, n, e, un)
            PROVE  \E q : Start(r1, q) /\ q # Idle
        BY <4>1, <4>6 DEF RegisterTenant
      <4>7. ASSUME NEW i, NEW un, AcceptInvitation(r1, i, un)
            PROVE  \E q : Start(r1, q) /\ q # Idle
        BY <4>1, <4>7 DEF AcceptInvitation
      <4>8. ASSUME NEW u, NEW b, Activate(r1, u, b)
            PROVE  \E q : Start(r1, q) /\ q # Idle
        BY <4>1, <4>8 DEF Activate
      <4>9. ASSUME NEW x, CreateTenant(r1, x) \/ DeleteTenant(r1, x)
            PROVE  \E q : Start(r1, q) /\ q # Idle
        BY <4>1, <4>9 DEF CreateTenant, DeleteTenant
      <4> QED
        BY <4>2, <4>3, <4>4, <4>5, <4>6, <4>7, <4>8, <4>9 DEF Check
    <3>3. Write(r1) => Finish(r1) /\ req[r1] # Idle
      BY <3>1 DEF Write, InsertTenantAndAdmin, InsertTenant, FlushTenant,
         SoftDeleteTenant, SkipDeletedTenant, InsertUser, Revive, FlushActive,
         SkipDeletedUser, InsertInvitation, UniqueViolation, Rollback
    <3>4. /\ \A r \in Req \ {r1} : req'[r] = req[r]
          /\ req' # req
      BY <2>2, <3>2, <3>3 DEF Start, Finish, IInv, TypeOK
    <3> QED
      BY <3>4 DEF OnlySlot, Undisturbed
  <2>3. ASSUME req[r1] = Idle, Elsewhere
        PROVE  OnlySlot' /\ [Undisturbed]_vars
    <3>1. req' = req
      BY <2>3 DEF Elsewhere, DeleteAccount, RestoreAccount, ExpireInvitation,
         DeleteInvitation, RestoreInvitation
    <3> QED
      BY <2>3, <3>1 DEF OnlySlot, Undisturbed
  <2> QED
    BY <2>1, <2>2, <2>3 DEF MCNext
<1>3. OnlySlot => OneAtATime
  BY DEF OnlySlot, OneAtATime
<1> QED
  BY <1>1, <1>2, <1>3, ModeStays, RunsAreBehaviours, InvHolds, PTL DEF MCSpec

(* The serial behaviours of the runs: a second open invitation is one that *)
(* came back with its sender (create_invitation, accept_invitation).       *)
THEOREM SerialOpenOnce == MCSpec => []SerialOpenOnceUnlessRestored
<1>1. serial \/ ~serial
  OBVIOUS
<1> QED
  BY <1>1, ModeStays, RunsAreBehaviours, SerialRuns, OneAtATimeOpenOnce, PTL
     DEF MCSpec, SerialOpenOnceUnlessRestored
=============================================================================
