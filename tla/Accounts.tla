------------------------------ MODULE Accounts ------------------------------
(***************************************************************************)
(* Accounts and their soft deletion: registration, creation by an admin,   *)
(* DELETE /users/me/, DELETE /users/{id}/, POST /users/{id}/restore/, the  *)
(* re-registration of a self-deleted account, and the cascades over the    *)
(* rows a user appears in (services/user_service.py, auth_service.py and   *)
(* crud/user_crud.py).                                                     *)
(*                                                                         *)
(* "records" stands for the rows a cascade reaches: tasks have an owner    *)
(* and an assignee; comments, leaves and invitations have one user, which  *)
(* is both here.  deleted_at and deleted_by are always set and cleared     *)
(* together, so deletedBy alone tells whether a row is deleted.            *)
(*                                                                         *)
(* Requests run as in Leaves: a step that reads and decides, a step that   *)
(* writes and commits, other requests between the two.                     *)
(*                                                                         *)
(* Abstracted: names, passwords, verification and is_active; two accounts  *)
(* never claim the same e-mail or username.                                *)
(***************************************************************************)
EXTENDS Naturals

CONSTANTS
  User,        (* ids of accounts; bounds their number                      *)
  Tenant,
  FirstUsers,  (* the accounts there are at the start, with tenant and role *)
  RecordId,    (* ids of records; bounds their number                       *)
  Req,         (* slots for requests in flight; bounds the concurrency      *)
  None         (* SQL NULL                                                  *)

Role  == {"INTERN", "MENTOR", "TENANT_ADMIN", "SUPER_ADMIN"}
Admin == {"TENANT_ADMIN", "SUPER_ADMIN"}

ASSUME FirstUsersAssumption ==
  /\ DOMAIN FirstUsers \subseteq User
  /\ FirstUsers \in [DOMAIN FirstUsers -> [tenant: Tenant \cup {None}, role: Role]]
  /\ \A u \in DOMAIN FirstUsers :
       FirstUsers[u].role = "SUPER_ADMIN" <=> FirstUsers[u].tenant = None

ASSUME NoneAssumption == None \notin User \cup Tenant \cup Role

VARIABLES
  users,     (* committed accounts, a function from the ids used so far     *)
  records,   (* committed records, likewise                                 *)
  req        (* requests in flight                                          *)

vars == <<users, records, req>>

UserRow == [tenant: Tenant \cup {None}, role: Role, deletedBy: User \cup {None}]

(* takenWith is history: the user whose standing deletion took the record. *)
RecordRow == [tenant: Tenant \cup {None}, owner: User, assignee: User,
              deletedBy: User \cup {None}, takenWith: User \cup {None}]

Idle == [op |-> "idle"]

Request ==
  {Idle}
    \cup [op: {"createUser"}, row: UserRow]
    \cup [op: {"reregister"}, user: User, tenant: Tenant \cup {None},
          role: Role \cup {None}]
    \cup [op: {"delete"}, actor: User, user: User]
    \cup [op: {"restore"}, actor: User, user: User, by: User]
    \cup [op: {"createRecord"}, row: RecordRow]
    \cup [op: {"deleteRecord"}, actor: User, record: RecordId]

TypeOK ==
  /\ DOMAIN users \subseteq User
  /\ users \in [DOMAIN users -> UserRow]
  /\ DOMAIN records \subseteq RecordId
  /\ records \in [DOMAIN records -> RecordRow]
  /\ req \in [Req -> Request]

-----------------------------------------------------------------------------
LiveUsers   == {u \in DOMAIN users : users[u].deletedBy = None}
LiveRecords == {i \in DOMAIN records : records[i].deletedBy = None}

(* _can_access_user for an admin and another account.                      *)
CanAccessUser(a, u) ==
  \/ users[a].role = "SUPER_ADMIN" /\ users[u].role = "TENANT_ADMIN"
  \/ /\ users[a].role = "TENANT_ADMIN"
     /\ users[a].tenant # None
     /\ users[u].tenant = users[a].tenant

(* Lists: GET /users/ and GET /users/{id}/.  The routes turn interns away. *)

(* What a list is narrowed to; None lets every value pass.                 *)
Asked(column, value) == value = None \/ column = value

(* Mutant: a super admin lists every account.                              *)
MutantScope(a) ==
  [tenant |-> users[a].tenant,
   role   |-> IF users[a].role = "MENTOR" THEN "INTERN" ELSE None]

(* _user_scope_for_list: a super admin's tenant is None, all tenants.      *)
Scope(a) ==
  [tenant |-> users[a].tenant,
   role   |-> CASE users[a].role = "SUPER_ADMIN"  -> "TENANT_ADMIN"
                [] users[a].role = "TENANT_ADMIN" -> None
                [] OTHER                          -> "INTERN"]

InScope(a) == {u \in DOMAIN users : /\ Asked(users[u].tenant, Scope(a).tenant)
                                    /\ Asked(users[u].role, Scope(a).role)}

(* list_users with is_deleted false, and true.                             *)
Listed(a)        == InScope(a) \cap LiveUsers
ListedDeleted(a) == InScope(a) \ LiveUsers

(* The whole of _can_access_user.                                          *)
CanView(a, u) ==
  \/ u = a
  \/ CanAccessUser(a, u)
  \/ /\ users[a].role = "MENTOR"
     /\ users[a].tenant # None
     /\ users[u].tenant = users[a].tenant
     /\ users[u].role = "INTERN"

(* Mutant: any deleted account may register again.                         *)
MutantIsSelfDeleted(u) == users[u].deletedBy # None

IsSelfDeleted(u) == users[u].deletedBy = u

(* Mutant: a column that was not sent is overwritten with NULL.            *)
MutantGiven(new, old) == new

Given(new, old) == IF new = None THEN old ELSE new
Changed(new, loaded) == IF new = loaded THEN None ELSE new

Involves(record, u) == record.owner = u \/ record.assignee = u

(* _cascade_soft_delete_user_related: rows already deleted stay as they    *)
(* are.                                                                    *)
CascadeSoftDelete(u, by) ==
  [i \in DOMAIN records |->
     IF i \in LiveRecords /\ Involves(records[i], u)
       THEN [records[i] EXCEPT !.deletedBy = by, !.takenWith = u]
       ELSE records[i]]

(* Mutant: tasks assigned to the user are forgotten.                       *)
MutantRestoreOwned(u, by) ==
  [i \in DOMAIN records |->
     IF records[i].owner = u /\ records[i].deletedBy = by
       THEN [records[i] EXCEPT !.deletedBy = None, !.takenWith = None]
       ELSE records[i]]

(* Mutant: the filter on the user is missing.                              *)
MutantRestoreAll(u, by) ==
  [i \in DOMAIN records |->
     IF records[i].deletedBy = by
       THEN [records[i] EXCEPT !.deletedBy = None, !.takenWith = None]
       ELSE records[i]]

(* _cascade_restore_user_related: rows of the user that carry the same     *)
(* deleted_by, whatever deleted them.                                      *)
CascadeRestore(u, by) ==
  [i \in DOMAIN records |->
     IF Involves(records[i], u) /\ records[i].deletedBy = by
       THEN [records[i] EXCEPT !.deletedBy = None, !.takenWith = None]
       ELSE records[i]]

-----------------------------------------------------------------------------
Init ==
  /\ users = [u \in DOMAIN FirstUsers |->
                [tenant |-> FirstUsers[u].tenant, role |-> FirstUsers[u].role,
                 deletedBy |-> None]]
  /\ records = [i \in {} |-> Idle]
  /\ req = [r \in Req |-> Idle]

Start(r, request) ==
  /\ req[r] = Idle
  /\ req' = [req EXCEPT ![r] = request]
  /\ UNCHANGED <<users, records>>

Finish(r) == req' = [req EXCEPT ![r] = Idle]

(* Accounts.                                                               *)

NewUser(t, role) == [tenant |-> t, role |-> role, deletedBy |-> None]

(* register_user with an unknown e-mail: an intern of the tenant.          *)
Register(r, t) ==
  Start(r, [op |-> "createUser", row |-> NewUser(t, "INTERN")])

(* create_user: a super admin creates tenant admins of any tenant, a       *)
(* tenant admin creates mentors and interns of its own.                    *)
CreateUser(r, a, t, role) ==
  /\ a \in LiveUsers
  /\ \/ users[a].role = "SUPER_ADMIN" /\ role = "TENANT_ADMIN"
     \/ /\ users[a].role = "TENANT_ADMIN"
        /\ role \in {"MENTOR", "INTERN"}
        /\ t = users[a].tenant
  /\ Start(r, [op |-> "createUser", row |-> NewUser(t, role)])

InsertUser(r, u) ==
  /\ req[r].op = "createUser"
  /\ u \notin DOMAIN users
  /\ users' = [v \in DOMAIN users \cup {u} |->
                 IF v = u THEN req[r].row ELSE users[v]]
  /\ Finish(r)
  /\ UNCHANGED records

(* register_user with the e-mail of a self-deleted account: the same row   *)
(* is revived as an intern of the tenant registered for.  Nothing it owned *)
(* comes back.                                                             *)
Reregister(r, u, t) ==
  /\ u \in DOMAIN users
  /\ IsSelfDeleted(u)
  /\ Start(r, [op |-> "reregister", user |-> u,
               tenant |-> Changed(t, users[u].tenant),
               role |-> Changed("INTERN", users[u].role)])

Revive(r) ==
  /\ req[r].op = "reregister"
  /\ LET u == req[r].user IN
       /\ users' = [users EXCEPT ![u] =
                      [tenant |-> Given(req[r].tenant, users[u].tenant),
                       role |-> Given(req[r].role, users[u].role),
                       deletedBy |-> None]]
       /\ records' = [i \in DOMAIN records |->
                        IF records[i].takenWith = u
                          THEN [records[i] EXCEPT !.takenWith = None]
                          ELSE records[i]]
  /\ Finish(r)

(* Mutant: the router lets admins delete themselves.                       *)
MutantDeleteMe(r, a) ==
  /\ a \in LiveUsers
  /\ Start(r, [op |-> "delete", actor |-> a, user |-> a])

(* DELETE /users/me/: the router turns admins away.                        *)
DeleteMe(r, a) ==
  /\ a \in LiveUsers
  /\ users[a].role \notin Admin
  /\ Start(r, [op |-> "delete", actor |-> a, user |-> a])

(* Mutant: anybody deletes anybody of the same tenant.                     *)
MutantDeleteUser(r, a, u) ==
  /\ a \in LiveUsers
  /\ u \in LiveUsers \ {a}
  /\ users[a].tenant = users[u].tenant
  /\ Start(r, [op |-> "delete", actor |-> a, user |-> u])

DeleteUser(r, a, u) ==
  /\ a \in LiveUsers
  /\ u \in LiveUsers \ {a}
  /\ CanAccessUser(a, u)
  /\ Start(r, [op |-> "delete", actor |-> a, user |-> u])

(* crud soft_delete_user: the cascade and the row of the user.             *)
SoftDeleteUser(r) ==
  /\ req[r].op = "delete"
  /\ users' = [users EXCEPT ![req[r].user].deletedBy = req[r].actor]
  /\ records' = CascadeSoftDelete(req[r].user, req[r].actor)
  /\ Finish(r)

(* The second select of soft_delete_user finds that another request        *)
(* deleted the user.                                                       *)
SkipDeletedUser(r) ==
  /\ req[r].op = "delete"
  /\ req[r].user \notin LiveUsers
  /\ Finish(r)
  /\ UNCHANGED <<users, records>>

RestoreUser(r, a, u) ==
  /\ a \in LiveUsers
  /\ u \in DOMAIN users \ LiveUsers
  /\ CanAccessUser(a, u)
  /\ Start(r, [op |-> "restore", actor |-> a, user |-> u,
               by |-> users[u].deletedBy])

(* crud restore_user; deleted_by is the value the session loaded.          *)
Restore(r) ==
  /\ req[r].op = "restore"
  /\ users' = [users EXCEPT ![req[r].user].deletedBy = None]
  /\ records' = CascadeRestore(req[r].user, req[r].by)
  /\ Finish(r)

(* Records.                                                                *)

(* A task, comment or invitation by its author, or a leave an admin enters *)
(* for somebody else.  Who may assign to whom is the subject of Tasks, and *)
(* a later reassignment makes every pair of one tenant possible.           *)
CreateRecord(r, a, o, s) ==
  /\ {a, o, s} \subseteq LiveUsers
  /\ users[a].tenant # None
  /\ users[o].tenant = users[a].tenant
  /\ users[s].tenant = users[a].tenant
  /\ o = a \/ (users[a].role = "TENANT_ADMIN" /\ o = s)
  /\ Start(r, [op |-> "createRecord",
               row |-> [tenant |-> users[a].tenant, owner |-> o, assignee |-> s,
                        deletedBy |-> None, takenWith |-> None]])

InsertRecord(r, i) ==
  /\ req[r].op = "createRecord"
  /\ i \notin DOMAIN records
  /\ records' = [j \in DOMAIN records \cup {i} |->
                   IF j = i THEN req[r].row ELSE records[j]]
  /\ Finish(r)
  /\ UNCHANGED users

(* DELETE of a single record, by the rule for tasks (_can_delete_task).    *)
DeleteRecord(r, a, i) ==
  /\ a \in LiveUsers
  /\ i \in LiveRecords
  /\ records[i].tenant = users[a].tenant
  /\ \/ users[a].role = "TENANT_ADMIN"
     \/ users[a].role = "MENTOR" /\ Involves(records[i], a)
     \/ users[a].role = "INTERN" /\ records[i].owner = a
  /\ Start(r, [op |-> "deleteRecord", actor |-> a, record |-> i])

SoftDeleteRecord(r) ==
  /\ req[r].op = "deleteRecord"
  /\ records' = [records EXCEPT ![req[r].record].deletedBy = req[r].actor,
                                ![req[r].record].takenWith = None]
  /\ Finish(r)
  /\ UNCHANGED users

SkipDeletedRecord(r) ==
  /\ req[r].op = "deleteRecord"
  /\ req[r].record \notin LiveRecords
  /\ Finish(r)
  /\ UNCHANGED <<users, records>>

(* The connection drops, the commit fails or the process dies: rollback.   *)
Rollback(r) ==
  /\ req[r] # Idle
  /\ Finish(r)
  /\ UNCHANGED <<users, records>>

Check(r) ==
  \/ \E t \in Tenant : Register(r, t)
  \/ \E u \in User, t \in Tenant : Reregister(r, u, t)
  \/ \E a \in User :
       \/ \E t \in Tenant, role \in Role : CreateUser(r, a, t, role)
       \/ DeleteMe(r, a)
       \/ \E u \in User : DeleteUser(r, a, u) \/ RestoreUser(r, a, u)
       \/ \E o, s \in User : CreateRecord(r, a, o, s)
       \/ \E i \in RecordId : DeleteRecord(r, a, i)

Write(r) ==
  \/ \E u \in User : InsertUser(r, u)
  \/ Revive(r)
  \/ SoftDeleteUser(r)
  \/ SkipDeletedUser(r)
  \/ Restore(r)
  \/ \E i \in RecordId : InsertRecord(r, i)
  \/ SoftDeleteRecord(r)
  \/ SkipDeletedRecord(r)
  \/ Rollback(r)

Next == \E r \in Req : Check(r) \/ Write(r)

Spec == Init /\ [][Next]_vars

-----------------------------------------------------------------------------
(* Properties of every interleaving.                                       *)

(* No super admin is ever deleted, and no tenant admin is deleted by       *)
(* itself: the platform keeps its admins, and an admin's account can never *)
(* be revived as an intern's by re-registration.                           *)
AdminsProtected ==
  \A u \in DOMAIN users :
    /\ users[u].role = "SUPER_ADMIN" => users[u].deletedBy = None
    /\ users[u].role = "TENANT_ADMIN" => users[u].deletedBy # u

(* Whoever is named as the deleter of somebody else's account is an admin  *)
(* and still is one.                                                       *)
DeletedBySelfOrAdmin ==
  \A u \in DOMAIN users :
    users[u].deletedBy \in {None, u}
      \/ (users[u].deletedBy \in DOMAIN users
            /\ users[users[u].deletedBy].role \in Admin)

(* A list is a query on tenant and role, where no tenant means every       *)
(* tenant, and GET by id a rule in Python: whoever may list accounts lists *)
(* those, besides its own, that it may get, and the deleted accounts an    *)
(* admin lists are those it may restore.  No tenant admin or mentor is     *)
(* ever without a tenant, which would open every tenant to it.             *)
ListedIsGot ==
  \A a \in LiveUsers : users[a].role # "INTERN" =>
    /\ Listed(a) \cup {a} = {u \in LiveUsers : CanView(a, u)}
    /\ users[a].role \in Admin =>
         ListedDeleted(a) = {u \in DOMAIN users \ LiveUsers : CanAccessUser(a, u)}

(* Properties of requests that run one after the other.                    *)

(* A deletion by an admin is undone by a restore only, never by the        *)
(* account's own re-registration.                                          *)
AdminDeletionHolds ==
  \A u \in DOMAIN users :
    (users[u].deletedBy \notin {None, u} /\ users'[u].deletedBy = None)
      => \E r \in Req : req[r].op = "restore" /\ req[r].user = u

(* No live record is without a live user.  (A task keeps its other user    *)
(* while that one is deleted: the restore of one of its two users brings   *)
(* it back.)                                                               *)
NoOrphan ==
  \A i \in LiveRecords : \E u \in LiveUsers : Involves(records[i], u)

(* Restoring an account that somebody else deleted brings back every       *)
(* record the deletion took.  (Of one its user deleted, records it deleted *)
(* itself are not to come back, by crud/user_crud.py:259, but they do.)    *)
CascadeReturns ==
  \A r \in Req :
    (/\ req[r].op = "restore" /\ req[r].by # req[r].user
     /\ req'[r] = Idle /\ users' # users) =>
    \A i \in DOMAIN records :
      records[i].takenWith = req[r].user => records'[i].deletedBy = None

(* A tenant loses its last admin only to a super admin.                    *)
HasAdmin(t) ==
  \E u \in LiveUsers : users[u].tenant = t /\ users[u].role = "TENANT_ADMIN"

LastAdminTakenBySuperAdmin ==
  \A t \in Tenant :
    HasAdmin(t) /\ ~HasAdmin(t)'
      => \E r \in Req : /\ req[r].op = "delete"
                        /\ users[req[r].actor].role = "SUPER_ADMIN"

(* Claims of the code's comments that its behaviour refutes.               *)

(* "Restore related records that were cascade-deleted with this user"      *)
(* (crud/user_crud.py:259): all of them come back.                         *)
AllCascadedReturn == [][CascadeReturns]_vars

(* "Restore related records that were cascade-deleted with this user"      *)
(* (crud/user_crud.py:259): nothing else comes back.                       *)
OnlyCascadedReturn ==
  [][\A i \in DOMAIN records :
       (i \notin LiveRecords /\ records'[i].deletedBy = None)
         => \E r \in Req : /\ req[r].op = "restore"
                           /\ records[i].takenWith = req[r].user]_vars

(* "Block admin self-delete so tenant/platform always has at least one     *)
(* admin" (routers/users.py:51).                                           *)
TenantKeepsAdmin == [][\A t \in Tenant : HasAdmin(t) => HasAdmin(t)']_vars
=============================================================================
