----------------------------- MODULE Onboarding -----------------------------
(***************************************************************************)
(* How tenants and accounts come to be: registration of a tenant with its  *)
(* first admin, signup, creation by an admin, invitations, activation, and *)
(* the life of a tenant (services/tenant_service.py, auth_service.py,      *)
(* user_service.py, invitation_service.py and their crud modules).         *)
(*                                                                         *)
(* Requests run as in Leaves: a step that reads and decides, a step that   *)
(* writes and commits, other requests between the two.  Uniqueness is      *)
(* decided twice: by a query, whose scope differs from route to route, and *)
(* by the constraints of the tables, which hold of deleted rows too.       *)
(*                                                                         *)
(* Abstracted: roles and who acts, passwords, the OTP of a verification.   *)
(* Deletion and restore of an account are one step each, and so is what    *)
(* their cascades do to an invitation (see Accounts).  E-mails are stored  *)
(* in lower case by every route, so Email has one member per address;      *)
(* usernames keep their case.  Super admins have no tenant and no route    *)
(* creates them.                                                           *)
(***************************************************************************)

CONSTANTS
  User,          (* ids of accounts; bounds their number                    *)
  Email,
  Username,      (* stripped usernames                                      *)
  Lower,         (* Username -> lower case                                  *)
  Tenant,        (* ids of tenants; bounds their number                     *)
  OrgName,       (* names of tenants                                        *)
  FirstTenants,  (* the tenants there are at the start, with their names    *)
  InvitationId,  (* ids of invitations; bounds their number                 *)
  Req,           (* slots for requests in flight; bounds the concurrency    *)
  None           (* SQL NULL, and a body field that was not sent            *)

ASSUME FirstTenantsAssumption ==
  /\ DOMAIN FirstTenants \subseteq Tenant
  /\ FirstTenants \in [DOMAIN FirstTenants -> OrgName]
  /\ \A t, s \in DOMAIN FirstTenants : FirstTenants[t] = FirstTenants[s] => t = s

ASSUME NoneAssumption ==
  None \notin Username \cup Tenant \cup OrgName \cup InvitationId \cup BOOLEAN

VARIABLES
  tenants,       (* committed rows, each a function from the ids used so    *)
  users,         (* far                                                     *)
  invitations,
  req            (* requests in flight                                      *)

vars == <<tenants, users, invitations, req>>

TenantRow == [name: OrgName, active: BOOLEAN, deleted: BOOLEAN]

(* deleted tells who is named in deleted_by.  via is history: the          *)
(* invitation whose acceptance made the account.                           *)
UserRow == [tenant: Tenant, email: Email, username: Username, active: BOOLEAN,
            deleted: {"no", "self", "admin"}, via: InvitationId \cup {None}]

(* deleted is "undone" after a restore; that it was deleted is history.    *)
InvitationRow == [tenant: Tenant, email: Email, accepted: BOOLEAN,
                  expired: BOOLEAN, deleted: {"no", "yes", "undone"}]

Idle == [op |-> "idle"]

Request ==
  {Idle}
    \cup [op: {"registerTenant"}, name: OrgName, email: Email, username: Username]
    \cup [op: {"createTenant"}, name: OrgName]
    \cup [op: {"updateTenant"}, tenant: Tenant, name: OrgName \cup {None},
          active: BOOLEAN \cup {None}]
    \cup [op: {"deleteTenant"}, tenant: Tenant]
    \cup [op: {"createUser"}, row: UserRow]
    \cup [op: {"revive"}, user: User, tenant: Tenant \cup {None},
          username: Username \cup {None}, active: BOOLEAN \cup {None}]
    \cup [op: {"activate"}, user: User, active: BOOLEAN \cup {None}]
    \cup [op: {"invite"}, row: InvitationRow]

TypeOK ==
  /\ DOMAIN tenants \subseteq Tenant
  /\ tenants \in [DOMAIN tenants -> TenantRow]
  /\ DOMAIN users \subseteq User
  /\ users \in [DOMAIN users -> UserRow]
  /\ DOMAIN invitations \subseteq InvitationId
  /\ invitations \in [DOMAIN invitations -> InvitationRow]
  /\ req \in [Req -> Request]

-----------------------------------------------------------------------------
(* Queries.                                                                *)

LiveTenants == {t \in DOMAIN tenants : ~tenants[t].deleted}
LiveUsers   == {u \in DOMAIN users : users[u].deleted = "no"}

Same(n, m)  == Lower[n] = Lower[m]

(* get_user_by_email_ci and get_user_by_username_ci: live users of t.      *)
EmailInTenant(e, t) ==
  \E u \in LiveUsers : users[u].tenant = t /\ users[u].email = e

UsernameInTenant(n, t) ==
  \E u \in LiveUsers : users[u].tenant = t /\ Same(users[u].username, n)

(* count_active_users_by_tenant counts these.                              *)
ActiveUsers(t) == {u \in LiveUsers : users[u].tenant = t /\ users[u].active}

(* The invitations whose token can still be used.                          *)
Open == {i \in DOMAIN invitations : /\ ~invitations[i].accepted
                                    /\ ~invitations[i].expired
                                    /\ invitations[i].deleted # "yes"}

(* Mutant: the comparison of expires_at with now is reversed.              *)
MutantPending(e, t) ==
  {i \in DOMAIN invitations : /\ invitations[i].tenant = t
                              /\ invitations[i].email = e
                              /\ invitations[i].expired}

(* get_invitation_by_email_tenant.                                         *)
Pending(e, t) ==
  {i \in Open : invitations[i].tenant = t /\ invitations[i].email = e}

(* Mutant: the constraint is a partial index over live rows.               *)
MutantFreeEmail(e) == \A u \in LiveUsers : users[u].email # e

(* The constraints: over every row but those excepted, deleted or not.     *)
FreeEmail(e) == \A u \in DOMAIN users : users[u].email # e
FreeUsername(n, except) ==
  \A u \in DOMAIN users \ except : users[u].username # n
FreeOrgName(n, except) ==
  \A t \in DOMAIN tenants \ except : tenants[t].name # n

(* Mutant: a column that was not sent is overwritten with NULL.            *)
MutantGiven(new, old) == new

Given(new, old) == IF new = None THEN old ELSE new
Changed(new, loaded) == IF new = loaded THEN None ELSE new

NewUser(t, e, n, i) ==
  [tenant |-> t, email |-> e, username |-> n, active |-> FALSE,
   deleted |-> "no", via |-> i]

Extend(f, x, value) == [y \in DOMAIN f \cup {x} |-> IF y = x THEN value ELSE f[y]]

-----------------------------------------------------------------------------
Init ==
  /\ tenants = [t \in DOMAIN FirstTenants |->
                  [name |-> FirstTenants[t], active |-> TRUE, deleted |-> FALSE]]
  /\ users = [u \in {} |-> Idle]
  /\ invitations = [i \in {} |-> Idle]
  /\ req = [r \in Req |-> Idle]

Start(r, request) ==
  /\ req[r] = Idle
  /\ req' = [req EXCEPT ![r] = request]
  /\ UNCHANGED <<tenants, users, invitations>>

Finish(r) == req' = [req EXCEPT ![r] = Idle]

(* Tenants.                                                                *)

TenantNameFree(n, except) == \A t \in LiveTenants \ except : tenants[t].name # n

(* Self-registration: e-mail and username are new among live users of      *)
(* every tenant.                                                           *)
RegisterTenant(r, n, e, un) ==
  /\ TenantNameFree(n, {})
  /\ \A u \in LiveUsers : users[u].email # e /\ ~Same(users[u].username, un)
  /\ Start(r, [op |-> "registerTenant", name |-> n, email |-> e, username |-> un])

InsertTenantAndAdmin(r, t, u) ==
  /\ req[r].op = "registerTenant"
  /\ t \notin DOMAIN tenants
  /\ u \notin DOMAIN users
  /\ FreeOrgName(req[r].name, {})
  /\ FreeEmail(req[r].email)
  /\ FreeUsername(req[r].username, {})
  /\ tenants' = Extend(tenants, t, [name |-> req[r].name, active |-> TRUE,
                                    deleted |-> FALSE])
  /\ users' = Extend(users, u, NewUser(t, req[r].email, req[r].username, None))
  /\ Finish(r)
  /\ UNCHANGED invitations

CreateTenant(r, n) ==
  /\ TenantNameFree(n, {})
  /\ Start(r, [op |-> "createTenant", name |-> n])

InsertTenant(r, t) ==
  /\ req[r].op = "createTenant"
  /\ t \notin DOMAIN tenants
  /\ FreeOrgName(req[r].name, {})
  /\ tenants' = Extend(tenants, t, [name |-> req[r].name, active |-> TRUE,
                                    deleted |-> FALSE])
  /\ Finish(r)
  /\ UNCHANGED <<users, invitations>>

UpdateTenant(r, t, n, b) ==
  /\ t \in LiveTenants
  /\ n # None => TenantNameFree(n, {t})
  /\ Start(r, [op |-> "updateTenant", tenant |-> t,
               name |-> Changed(n, tenants[t].name),
               active |-> Changed(b, tenants[t].active)])

FlushTenant(r) ==
  /\ req[r].op = "updateTenant"
  /\ LET t == req[r].tenant IN
       /\ FreeOrgName(req[r].name, {t})
       /\ tenants' = [tenants EXCEPT
                        ![t].name = Given(req[r].name, tenants[t].name),
                        ![t].active = Given(req[r].active, tenants[t].active)]
  /\ Finish(r)
  /\ UNCHANGED <<users, invitations>>

DeleteTenant(r, t) ==
  /\ t \in LiveTenants
  /\ ActiveUsers(t) = {}
  /\ Start(r, [op |-> "deleteTenant", tenant |-> t])

SoftDeleteTenant(r) ==
  /\ req[r].op = "deleteTenant"
  /\ tenants' = [tenants EXCEPT ![req[r].tenant].deleted = TRUE]
  /\ Finish(r)
  /\ UNCHANGED <<users, invitations>>

(* crud selects the tenant again and misses one that was deleted.          *)
SkipDeletedTenant(r) ==
  /\ req[r].op \in {"updateTenant", "deleteTenant"}
  /\ req[r].tenant \notin LiveTenants
  /\ Finish(r)
  /\ UNCHANGED <<tenants, users, invitations>>

(* Accounts.                                                               *)

AcceptsSignups(t) == t \in LiveTenants /\ tenants[t].active

(* register_user: no account, deleted or not, has the e-mail, and none in  *)
(* the tenant the username.                                                *)
Register(r, t, e, un) ==
  /\ AcceptsSignups(t)
  /\ FreeEmail(e)
  /\ \A u \in DOMAIN users : users[u].tenant = t => ~Same(users[u].username, un)
  /\ Start(r, [op |-> "createUser", row |-> NewUser(t, e, un, None)])

(* register_user with the e-mail of a self-deleted account: its row will   *)
(* be used again, in the tenant registered for.                            *)
Reregister(r, u, t, un) ==
  /\ AcceptsSignups(t)
  /\ u \in DOMAIN users
  /\ users[u].deleted = "self"
  /\ \A v \in DOMAIN users \ {u} :
       users[v].tenant = t => ~Same(users[v].username, un)
  /\ Start(r, [op |-> "revive", user |-> u,
               tenant |-> Changed(t, users[u].tenant),
               username |-> Changed(un, users[u].username),
               active |-> Changed(FALSE, users[u].active)])

Revive(r) ==
  /\ req[r].op = "revive"
  /\ LET u == req[r].user IN
       /\ FreeUsername(req[r].username, {u})
       /\ users' = [users EXCEPT
                      ![u].tenant = Given(req[r].tenant, users[u].tenant),
                      ![u].username = Given(req[r].username, users[u].username),
                      ![u].active = Given(req[r].active, users[u].active),
                      ![u].deleted = "no"]
  /\ Finish(r)
  /\ UNCHANGED <<tenants, invitations>>

(* POST /users/ by an admin.  That the tenant exists is left to the        *)
(* foreign key, which a deleted tenant satisfies.                          *)
CreateUser(r, t, e, un) ==
  /\ t \in DOMAIN tenants
  /\ ~EmailInTenant(e, t)
  /\ ~UsernameInTenant(un, t)
  /\ Start(r, [op |-> "createUser", row |-> NewUser(t, e, un, None)])

(* accept_invitation, which does not look at the tenant.                   *)
AcceptInvitation(r, i, un) ==
  /\ i \in Open
  /\ ~EmailInTenant(invitations[i].email, invitations[i].tenant)
  /\ ~UsernameInTenant(un, invitations[i].tenant)
  /\ Start(r, [op |-> "createUser",
               row |-> NewUser(invitations[i].tenant, invitations[i].email, un, i)])

(* mark_accepted, which misses an invitation deleted in the meantime.      *)
MarkAccepted(id) ==
  [i \in DOMAIN invitations |->
     IF i = id /\ invitations[i].deleted # "yes"
       THEN [invitations[i] EXCEPT !.accepted = TRUE]
       ELSE invitations[i]]

(* The account and, if an invitation makes it, the mark on the invitation. *)
InsertUser(r, u) ==
  /\ req[r].op = "createUser"
  /\ u \notin DOMAIN users
  /\ FreeEmail(req[r].row.email)
  /\ FreeUsername(req[r].row.username, {})
  /\ users' = Extend(users, u, req[r].row)
  /\ invitations' = MarkAccepted(req[r].row.via)
  /\ Finish(r)
  /\ UNCHANGED tenants

(* verify_email sets is_active, and so does update_user by an admin, which *)
(* may also clear it.                                                      *)
Activate(r, u, b) ==
  /\ u \in LiveUsers
  /\ Start(r, [op |-> "activate", user |-> u, active |-> Changed(b, users[u].active)])

FlushActive(r) ==
  /\ req[r].op = "activate"
  /\ LET u == req[r].user IN
       users' = [users EXCEPT ![u].active = Given(req[r].active, users[u].active)]
  /\ Finish(r)
  /\ UNCHANGED <<tenants, invitations>>

(* crud update_user selects the account again and misses a deleted one.    *)
SkipDeletedUser(r) ==
  /\ req[r].op = "activate"
  /\ req[r].user \notin LiveUsers
  /\ Finish(r)
  /\ UNCHANGED <<tenants, users, invitations>>

(* DELETE /users/me/ or DELETE /users/{id}/.                               *)
DeleteAccount(u, by) ==
  /\ u \in LiveUsers
  /\ users' = [users EXCEPT ![u].deleted = by]
  /\ UNCHANGED <<tenants, invitations, req>>

RestoreAccount(u) ==
  /\ u \in DOMAIN users \ LiveUsers
  /\ users' = [users EXCEPT ![u].deleted = "no"]
  /\ UNCHANGED <<tenants, invitations, req>>

(* Invitations.                                                            *)

Invite(r, t, e) ==
  /\ t \in LiveTenants
  /\ Pending(e, t) = {}
  /\ ~EmailInTenant(e, t)
  /\ Start(r, [op |-> "invite",
               row |-> [tenant |-> t, email |-> e, accepted |-> FALSE,
                        expired |-> FALSE, deleted |-> "no"]])

InsertInvitation(r, i) ==
  /\ req[r].op = "invite"
  /\ i \notin DOMAIN invitations
  /\ invitations' = Extend(invitations, i, req[r].row)
  /\ Finish(r)
  /\ UNCHANGED <<tenants, users>>

ExpireInvitation(i) ==
  /\ i \in DOMAIN invitations
  /\ ~invitations[i].expired
  /\ invitations' = [invitations EXCEPT ![i].expired = TRUE]
  /\ UNCHANGED <<tenants, users, req>>

(* The cascades of the deletion and of the restore of its sender.          *)
DeleteInvitation(i) ==
  /\ i \in DOMAIN invitations
  /\ invitations[i].deleted # "yes"
  /\ invitations' = [invitations EXCEPT ![i].deleted = "yes"]
  /\ UNCHANGED <<tenants, users, req>>

RestoreInvitation(i) ==
  /\ i \in DOMAIN invitations
  /\ invitations[i].deleted = "yes"
  /\ invitations' = [invitations EXCEPT ![i].deleted = "undone"]
  /\ UNCHANGED <<tenants, users, req>>

(* A constraint refuses the write; main.py answers 400 and the transaction *)
(* is rolled back.                                                         *)
UniqueViolation(r) ==
  /\ \/ /\ req[r].op \in {"registerTenant", "createTenant"}
        /\ ~FreeOrgName(req[r].name, {})
     \/ req[r].op = "updateTenant" /\ ~FreeOrgName(req[r].name, {req[r].tenant})
     \/ /\ req[r].op = "registerTenant"
        /\ ~(FreeEmail(req[r].email) /\ FreeUsername(req[r].username, {}))
     \/ /\ req[r].op = "createUser"
        /\ ~(FreeEmail(req[r].row.email) /\ FreeUsername(req[r].row.username, {}))
     \/ req[r].op = "revive" /\ ~FreeUsername(req[r].username, {req[r].user})
  /\ Finish(r)
  /\ UNCHANGED <<tenants, users, invitations>>

(* The connection drops, the commit fails or the process dies: rollback.   *)
Rollback(r) ==
  /\ req[r] # Idle
  /\ Finish(r)
  /\ UNCHANGED <<tenants, users, invitations>>

Check(r) ==
  \/ \E n \in OrgName : CreateTenant(r, n)
  \/ \E n \in OrgName, e \in Email, un \in Username : RegisterTenant(r, n, e, un)
  \/ \E i \in InvitationId, un \in Username : AcceptInvitation(r, i, un)
  \/ \E u \in User, b \in BOOLEAN : Activate(r, u, b)
  \/ \E t \in Tenant :
       \/ \E n \in OrgName \cup {None}, b \in BOOLEAN \cup {None} :
            UpdateTenant(r, t, n, b)
       \/ DeleteTenant(r, t)
       \/ \E u \in User, un \in Username : Reregister(r, u, t, un)
       \/ \E e \in Email :
            \/ Invite(r, t, e)
            \/ \E un \in Username : Register(r, t, e, un) \/ CreateUser(r, t, e, un)

Write(r) ==
  \/ \E t \in Tenant, u \in User : InsertTenantAndAdmin(r, t, u)
  \/ \E t \in Tenant : InsertTenant(r, t)
  \/ FlushTenant(r)
  \/ SoftDeleteTenant(r)
  \/ SkipDeletedTenant(r)
  \/ \E u \in User : InsertUser(r, u)
  \/ Revive(r)
  \/ FlushActive(r)
  \/ SkipDeletedUser(r)
  \/ \E i \in InvitationId : InsertInvitation(r, i)
  \/ UniqueViolation(r)
  \/ Rollback(r)

(* Steps of other components, each a transaction of its own, and of time.  *)
Elsewhere ==
  \/ \E u \in User : \/ \E by \in {"self", "admin"} : DeleteAccount(u, by)
                     \/ RestoreAccount(u)
  \/ \E i \in InvitationId :
       ExpireInvitation(i) \/ DeleteInvitation(i) \/ RestoreInvitation(i)

Next == (\E r \in Req : Check(r) \/ Write(r)) \/ Elsewhere

Spec == Init /\ [][Next]_vars

-----------------------------------------------------------------------------
(* Properties.                                                             *)

(* "Single-use token for accept link" (models/invitation.py:36): however   *)
(* many acceptances interleave with deletions, restores and registrations, *)
(* an invitation makes at most one account, of the e-mail it was sent to,  *)
(* and is marked as accepted only if it made one.                          *)
Made(i) == {u \in DOMAIN users : users[u].via = i}

InvitationSingleUse ==
  \A i \in DOMAIN invitations :
    /\ \A u, v \in Made(i) : u = v
    /\ \A u \in Made(i) : users[u].email = invitations[i].email
    /\ invitations[i].accepted => Made(i) # {}

(* Of two open invitations to one e-mail in a tenant, at least one came    *)
(* back with its sender (create_invitation looks for an open one, the      *)
(* restore of an account does not), and none that made an account is open. *)
(* True of requests that run one after the other: two invitations sent at  *)
(* once do not see each other, and mark_accepted misses an invitation that *)
(* was deleted meanwhile.                                                  *)
OpenOnceUnlessRestored ==
  /\ \A i, j \in Open :
       (/\ i # j
        /\ invitations[i].email = invitations[j].email
        /\ invitations[i].tenant = invitations[j].tenant)
         => "undone" \in {invitations[i].deleted, invitations[j].deleted}
  /\ \A i \in Open : Made(i) = {}

(* "username unique per tenant" (crud/user_crud.py:68).                    *)
UsernameUniquePerTenant ==
  \A u, v \in LiveUsers :
    (users[u].tenant = users[v].tenant /\ Same(users[u].username, users[v].username))
      => u = v
=============================================================================
