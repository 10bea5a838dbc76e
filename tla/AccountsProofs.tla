--------------------------- MODULE AccountsProofs ---------------------------
(***************************************************************************)
(* Proofs about Accounts, for any number of accounts, records and          *)
(* concurrent requests.  What makes them work is that an account never     *)
(* changes sides: only the re-registration of an intern or a mentor writes *)
(* a role, and it writes INTERN.  The last sections are about requests     *)
(* that run one after the other.                                           *)
(***************************************************************************)
EXTENDS MCAccounts, TLAPS

(* A super admin has no tenant, which keeps it out of the scope of every   *)
(* tenant admin; nobody else is without one.                               *)
SuperHasNoTenant ==
  \A u \in DOMAIN users :
    users[u].role = "SUPER_ADMIN" <=> users[u].tenant = None

(* What a request in flight may rely on when it writes.                    *)
InFlightSafe(rq) ==
  /\ rq.op = "createUser" => /\ rq.row.role # "SUPER_ADMIN"
                             /\ rq.row.tenant # None
                             /\ rq.row.deletedBy = None
  /\ rq.op = "reregister" => /\ rq.user \in DOMAIN users
                             /\ users[rq.user].role \notin Admin
                             /\ rq.role \in {None, "INTERN"}
  /\ rq.op = "delete" => /\ {rq.actor, rq.user} \subseteq DOMAIN users
                         /\ users[rq.user].role # "SUPER_ADMIN"
                         /\ rq.actor = rq.user => users[rq.user].role \notin Admin
                         /\ rq.actor # rq.user => users[rq.actor].role \in Admin
  /\ rq.op = "restore" => rq.user \in DOMAIN users
  /\ rq.op = "deleteRecord" => rq.record \in DOMAIN records

(* The inductive invariant.                                                *)
IInv ==
  /\ TypeOK
  /\ SuperHasNoTenant
  /\ AdminsProtected
  /\ DeletedBySelfOrAdmin
  /\ \A r \in Req : InFlightSafe(req[r])

-----------------------------------------------------------------------------
LEMMA InitInv == Init => IInv
<1> SUFFICES ASSUME Init PROVE IInv
  OBVIOUS
<1> USE DEF Init
<1>1. TypeOK
  BY FirstUsersAssumption, NoneAssumption DEF TypeOK, UserRow, Request, Idle
<1>2. SuperHasNoTenant
  BY FirstUsersAssumption DEF SuperHasNoTenant
<1>3. AdminsProtected /\ DeletedBySelfOrAdmin
  BY FirstUsersAssumption, NoneAssumption
     DEF AdminsProtected, DeletedBySelfOrAdmin
<1>4. \A r \in Req : InFlightSafe(req[r])
  BY DEF InFlightSafe, Idle
<1> QED
  BY <1>1, <1>2, <1>3, <1>4 DEF IInv

(* A step that starts a well-formed request.                               *)
LEMMA StartKeepsInv ==
  ASSUME IInv, NEW r \in Req, NEW rq \in Request, InFlightSafe(rq), Start(r, rq)
  PROVE  IInv'
<1>1. users' = users /\ records' = records /\ req' = [req EXCEPT ![r] = rq]
  BY DEF Start
<1>2. TypeOK'
  BY <1>1 DEF IInv, TypeOK
<1>3. \A q \in Req : InFlightSafe(req[q])'
  BY <1>1 DEF IInv, TypeOK, InFlightSafe
<1> QED
  BY <1>1, <1>2, <1>3
     DEF IInv, SuperHasNoTenant, AdminsProtected, DeletedBySelfOrAdmin

(* A step that ends a request, given that accounts stay on their side and  *)
(* the rows it leaves are well formed.                                     *)
LEMMA FinishKeepsInv ==
  ASSUME IInv, NEW r \in Req, Finish(r),
         DOMAIN users \subseteq DOMAIN users', DOMAIN users' \subseteq User,
         users' \in [DOMAIN users' -> UserRow],
         DOMAIN records \subseteq DOMAIN records', DOMAIN records' \subseteq RecordId,
         records' \in [DOMAIN records' -> RecordRow],
         \A u \in DOMAIN users :
           \/ users'[u].role = users[u].role
           \/ users[u].role \notin Admin /\ users'[u].role \notin Admin,
         SuperHasNoTenant', AdminsProtected', DeletedBySelfOrAdmin'
  PROVE  IInv'
<1>1. req' = [req EXCEPT ![r] = Idle]
  BY DEF Finish
<1>2. TypeOK'
  BY <1>1 DEF IInv, TypeOK, Request
<1>3. ASSUME NEW q \in Req
      PROVE  InFlightSafe(req[q])'
  <2>1. CASE q = r
    BY <1>1, <2>1 DEF IInv, TypeOK, InFlightSafe, Idle
  <2>2. CASE q # r
    BY <1>1, <2>2 DEF IInv, TypeOK, InFlightSafe, Admin
  <2> QED
    BY <2>1, <2>2
<1> QED
  BY <1>2, <1>3 DEF IInv

LEMMA CheckKeepsInv ==
  ASSUME IInv, NEW r \in Req, Check(r)
  PROVE  IInv'
<1> USE DEF IInv, TypeOK
<1>1. ASSUME NEW t \in Tenant, Register(r, t)
      PROVE  IInv'
  <2> DEFINE rq == [op |-> "createUser", row |-> NewUser(t, "INTERN")]
  <2>1. rq \in Request /\ InFlightSafe(rq)
    BY NoneAssumption DEF Request, UserRow, Role, NewUser, InFlightSafe
  <2> QED
    BY <1>1, <2>1, StartKeepsInv DEF Register
<1>2. ASSUME NEW u \in User, NEW t \in Tenant, Reregister(r, u, t)
      PROVE  IInv'
  <2> DEFINE rq == [op |-> "reregister", user |-> u,
                    tenant |-> Changed(t, users[u].tenant),
                    role |-> Changed("INTERN", users[u].role)]
  <2>1. u \in DOMAIN users /\ users[u].role \notin Admin
    BY <1>2, NoneAssumption
       DEF Reregister, IsSelfDeleted, AdminsProtected, Admin
  <2>2. rq \in Request
    BY DEF Request, Changed, Role
  <2>3. InFlightSafe(rq)
    BY <2>1 DEF InFlightSafe, Changed
  <2>4. Start(r, rq)
    BY <1>2 DEF Reregister
  <2> QED
    BY <2>2, <2>3, <2>4, StartKeepsInv
<1>3. ASSUME NEW a \in User, NEW t \in Tenant, NEW role \in Role,
             CreateUser(r, a, t, role)
      PROVE  IInv'
  <2> DEFINE rq == [op |-> "createUser", row |-> NewUser(t, role)]
  <2>1. rq \in Request /\ InFlightSafe(rq)
    BY <1>3, NoneAssumption
       DEF CreateUser, Request, UserRow, NewUser, InFlightSafe
  <2>2. Start(r, rq)
    BY <1>3 DEF CreateUser
  <2> QED
    BY <2>1, <2>2, StartKeepsInv
<1>4. ASSUME NEW a \in User, DeleteMe(r, a)
      PROVE  IInv'
  <2> DEFINE rq == [op |-> "delete", actor |-> a, user |-> a]
  <2>1. rq \in Request /\ InFlightSafe(rq) /\ Start(r, rq)
    BY <1>4 DEF DeleteMe, LiveUsers, Request, InFlightSafe, Admin
  <2> QED
    BY <2>1, StartKeepsInv
<1>5. ASSUME NEW a \in User, NEW u \in User, DeleteUser(r, a, u)
      PROVE  IInv'
  <2> DEFINE rq == [op |-> "delete", actor |-> a, user |-> u]
  <2>1. /\ {a, u} \subseteq DOMAIN users
        /\ a # u
        /\ users[a].role \in Admin
        /\ users[u].role # "SUPER_ADMIN"
    BY <1>5 DEF DeleteUser, LiveUsers, CanAccessUser, SuperHasNoTenant, Admin
  <2>2. rq \in Request /\ InFlightSafe(rq) /\ Start(r, rq)
    BY <1>5, <2>1 DEF DeleteUser, Request, InFlightSafe
  <2> QED
    BY <2>2, StartKeepsInv
<1>6. ASSUME NEW a \in User, NEW u \in User, RestoreUser(r, a, u)
      PROVE  IInv'
  <2> DEFINE rq == [op |-> "restore", actor |-> a, user |-> u,
                    by |-> users[u].deletedBy]
  <2>1. u \in DOMAIN users /\ users[u].deletedBy \in User
    BY <1>6 DEF RestoreUser, LiveUsers, UserRow
  <2>2. rq \in Request /\ InFlightSafe(rq) /\ Start(r, rq)
    BY <1>6, <2>1 DEF RestoreUser, Request, InFlightSafe
  <2> QED
    BY <2>2, StartKeepsInv
<1>7. ASSUME NEW a \in User, NEW o \in User, NEW s \in User,
             CreateRecord(r, a, o, s)
      PROVE  IInv'
  <2> DEFINE rq == [op |-> "createRecord",
                    row |-> [tenant |-> users[a].tenant, owner |-> o,
                             assignee |-> s, deletedBy |-> None,
                             takenWith |-> None]]
  <2>1. users[a].tenant \in Tenant \cup {None}
    BY <1>7 DEF CreateRecord, LiveUsers, UserRow
  <2>2. rq \in Request /\ InFlightSafe(rq) /\ Start(r, rq)
    BY <1>7, <2>1 DEF CreateRecord, Request, RecordRow, InFlightSafe
  <2> QED
    BY <2>2, StartKeepsInv
<1>8. ASSUME NEW a \in User, NEW i \in RecordId, DeleteRecord(r, a, i)
      PROVE  IInv'
  <2> DEFINE rq == [op |-> "deleteRecord", actor |-> a, record |-> i]
  <2>1. rq \in Request /\ InFlightSafe(rq) /\ Start(r, rq)
    BY <1>8 DEF DeleteRecord, LiveRecords, Request, InFlightSafe
  <2> QED
    BY <2>1, StartKeepsInv
<1> QED
  BY <1>1, <1>2, <1>3, <1>4, <1>5, <1>6, <1>7, <1>8 DEF Check

-----------------------------------------------------------------------------
(* The cascades keep the table of records well typed.                      *)
LEMMA CascadesTyped ==
  ASSUME TypeOK, NEW u \in User, NEW by \in User
  PROVE  /\ DOMAIN CascadeSoftDelete(u, by) = DOMAIN records
         /\ CascadeSoftDelete(u, by) \in [DOMAIN records -> RecordRow]
         /\ DOMAIN CascadeRestore(u, by) = DOMAIN records
         /\ CascadeRestore(u, by) \in [DOMAIN records -> RecordRow]
<1>1. \A i \in DOMAIN records :
        /\ [records[i] EXCEPT !.deletedBy = by, !.takenWith = u] \in RecordRow
        /\ [records[i] EXCEPT !.deletedBy = None, !.takenWith = None] \in RecordRow
  BY DEF TypeOK, RecordRow
<1> QED
  BY <1>1 DEF CascadeSoftDelete, CascadeRestore, TypeOK

(* An account whose deletedBy changes alone, and the invariants on it.     *)
LEMMA SetDeletedBy ==
  ASSUME IInv, NEW u \in DOMAIN users, NEW by \in User \cup {None},
         users' = [users EXCEPT ![u].deletedBy = by],
         users[u].role = "SUPER_ADMIN" => by = None,
         users[u].role = "TENANT_ADMIN" => by # u,
         by \in {None, u} \/ (by \in DOMAIN users /\ users[by].role \in Admin)
  PROVE  /\ DOMAIN users' = DOMAIN users
         /\ users' \in [DOMAIN users' -> UserRow]
         /\ \A v \in DOMAIN users : users'[v].role = users[v].role
         /\ SuperHasNoTenant' /\ AdminsProtected' /\ DeletedBySelfOrAdmin'
<1>1. /\ DOMAIN users' = DOMAIN users
      /\ users' \in [DOMAIN users' -> UserRow]
      /\ \A v \in DOMAIN users : /\ users'[v].role = users[v].role
                                 /\ users'[v].tenant = users[v].tenant
                                 /\ v # u => users'[v] = users[v]
      /\ users'[u].deletedBy = by
  BY DEF IInv, TypeOK, UserRow
<1>2. SuperHasNoTenant'
  BY <1>1 DEF IInv, SuperHasNoTenant
<1>3. AdminsProtected'
  BY <1>1 DEF IInv, AdminsProtected
<1>4. DeletedBySelfOrAdmin'
  BY <1>1 DEF IInv, DeletedBySelfOrAdmin
<1> QED
  BY <1>1, <1>2, <1>3, <1>4

LEMMA WriteKeepsInv ==
  ASSUME IInv, NEW r \in Req, Write(r)
  PROVE  IInv'
<1> USE DEF IInv, TypeOK
<1>0. req[r] \in Request /\ InFlightSafe(req[r])
  OBVIOUS
<1>1. ASSUME NEW u \in User, InsertUser(r, u)
      PROVE  IInv'
  <2>1. /\ req[r].row \in UserRow
        /\ req[r].row.role # "SUPER_ADMIN"
        /\ req[r].row.tenant # None
        /\ req[r].row.deletedBy = None
    BY <1>0, <1>1 DEF InsertUser, InFlightSafe, Request, Idle
  <2>2. /\ DOMAIN users' = DOMAIN users \cup {u}
        /\ users'[u] = req[r].row
        /\ \A v \in DOMAIN users : users'[v] = users[v]
        /\ users' \in [DOMAIN users' -> UserRow]
        /\ records' = records
        /\ Finish(r)
    BY <1>1, <2>1 DEF InsertUser
  <2>3. SuperHasNoTenant'
    BY <2>1, <2>2 DEF SuperHasNoTenant
  <2>4. AdminsProtected' /\ DeletedBySelfOrAdmin'
    BY <2>1, <2>2, NoneAssumption DEF AdminsProtected, DeletedBySelfOrAdmin
  <2> QED
    BY <2>2, <2>3, <2>4, FinishKeepsInv
<1>2. CASE Revive(r)
  <2> DEFINE u == req[r].user
             row == [tenant |-> Given(req[r].tenant, users[u].tenant),
                     role |-> Given(req[r].role, users[u].role),
                     deletedBy |-> None]
  <2>1. /\ u \in DOMAIN users
        /\ users[u].role \notin Admin
        /\ req[r].role \in {None, "INTERN"}
        /\ req[r].tenant \in Tenant \cup {None}
    BY <1>0, <1>2 DEF Revive, InFlightSafe, Request, Idle
  <2>2. row \in UserRow /\ row.role \notin Admin /\ row.deletedBy = None
    BY <2>1 DEF UserRow, Given, Role, Admin
  <2>9. row.tenant # None
    BY <2>1 DEF SuperHasNoTenant, Given, Admin
  <2>3. users' = [users EXCEPT ![u] = row] /\ Finish(r)
    BY <1>2 DEF Revive
  <2> HIDE DEF row, u
  <2>4. /\ DOMAIN users' = DOMAIN users
        /\ users'[u] = row
        /\ \A v \in DOMAIN users : v # u => users'[v] = users[v]
        /\ users' \in [DOMAIN users' -> UserRow]
    BY <2>1, <2>2, <2>3
  <2>5. DOMAIN records' = DOMAIN records /\ records' \in [DOMAIN records -> RecordRow]
    <3>1. \A i \in DOMAIN records :
            [records[i] EXCEPT !.takenWith = None] \in RecordRow
      BY DEF RecordRow
    <3> QED
      BY <1>2, <3>1 DEF Revive
  <2>6. \A v \in DOMAIN users :
           \/ users'[v].role = users[v].role
           \/ users[v].role \notin Admin /\ users'[v].role \notin Admin
    BY <2>1, <2>2, <2>4
  <2>7. SuperHasNoTenant' /\ AdminsProtected'
    BY <2>2, <2>9, <2>4, NoneAssumption DEF SuperHasNoTenant, AdminsProtected, Admin
  <2>8. DeletedBySelfOrAdmin'
    BY <2>1, <2>2, <2>4, <2>6 DEF DeletedBySelfOrAdmin
  <2> QED
    BY <2>3, <2>4, <2>5, <2>6, <2>7, <2>8, FinishKeepsInv
<1>3. CASE SoftDeleteUser(r)
  <2> DEFINE a == req[r].actor
             u == req[r].user
  <2>1. /\ a \in DOMAIN users
        /\ u \in DOMAIN users
        /\ users[u].role # "SUPER_ADMIN"
        /\ a = u => users[u].role \notin Admin
        /\ a # u => users[a].role \in Admin
    BY <1>0, <1>3 DEF SoftDeleteUser, InFlightSafe
  <2>2. /\ users' = [users EXCEPT ![u].deletedBy = a]
        /\ records' = CascadeSoftDelete(u, a)
        /\ Finish(r)
    BY <1>3 DEF SoftDeleteUser
  <2> HIDE DEF a, u
  <2>3. /\ DOMAIN users' = DOMAIN users
        /\ users' \in [DOMAIN users' -> UserRow]
        /\ \A v \in DOMAIN users : users'[v].role = users[v].role
        /\ SuperHasNoTenant' /\ AdminsProtected' /\ DeletedBySelfOrAdmin'
    BY <2>1, <2>2, SetDeletedBy DEF Admin
  <2>4. DOMAIN records' = DOMAIN records /\ records' \in [DOMAIN records -> RecordRow]
    BY <2>1, <2>2, CascadesTyped
  <2> QED
    BY <2>2, <2>3, <2>4, FinishKeepsInv
<1>4. CASE Restore(r)
  <2> DEFINE u == req[r].user
  <2>1. u \in DOMAIN users /\ req[r].by \in User
    BY <1>0, <1>4 DEF Restore, InFlightSafe, Request, Idle
  <2>2. /\ users' = [users EXCEPT ![u].deletedBy = None]
        /\ records' = CascadeRestore(u, req[r].by)
        /\ Finish(r)
    BY <1>4 DEF Restore
  <2>3. None # u
    BY <2>1, NoneAssumption
  <2> HIDE DEF u
  <2>4. /\ DOMAIN users' = DOMAIN users
        /\ users' \in [DOMAIN users' -> UserRow]
        /\ \A v \in DOMAIN users : users'[v].role = users[v].role
        /\ SuperHasNoTenant' /\ AdminsProtected' /\ DeletedBySelfOrAdmin'
    BY <2>1, <2>2, <2>3, SetDeletedBy
  <2>5. DOMAIN records' = DOMAIN records /\ records' \in [DOMAIN records -> RecordRow]
    BY <2>1, <2>2, CascadesTyped
  <2> QED
    BY <2>2, <2>4, <2>5, FinishKeepsInv
<1>5. ASSUME NEW i \in RecordId, InsertRecord(r, i)
      PROVE  IInv'
  <2>1. req[r].row \in RecordRow
    BY <1>0, <1>5 DEF InsertRecord, Request, Idle
  <2>2. /\ DOMAIN records' = DOMAIN records \cup {i}
        /\ records' \in [DOMAIN records' -> RecordRow]
        /\ users' = users
        /\ Finish(r)
    BY <1>5, <2>1 DEF InsertRecord
  <2> QED
    BY <2>2, FinishKeepsInv
       DEF SuperHasNoTenant, AdminsProtected, DeletedBySelfOrAdmin
<1>6. CASE SoftDeleteRecord(r)
  <2> DEFINE i == req[r].record
  <2>1. i \in DOMAIN records /\ req[r].actor \in User
    BY <1>0, <1>6 DEF SoftDeleteRecord, InFlightSafe, Request, Idle
  <2>2. /\ records' = [records EXCEPT ![i].deletedBy = req[r].actor,
                                     ![i].takenWith = None]
        /\ users' = users
        /\ Finish(r)
    BY <1>6 DEF SoftDeleteRecord
  <2>3. DOMAIN records' = DOMAIN records /\ records' \in [DOMAIN records' -> RecordRow]
    BY <2>1, <2>2 DEF RecordRow
  <2> QED
    BY <2>2, <2>3, FinishKeepsInv
       DEF SuperHasNoTenant, AdminsProtected, DeletedBySelfOrAdmin
<1>7. CASE SkipDeletedUser(r) \/ SkipDeletedRecord(r) \/ Rollback(r)
  BY <1>7, FinishKeepsInv
     DEF SkipDeletedUser, SkipDeletedRecord, Rollback, SuperHasNoTenant,
         AdminsProtected, DeletedBySelfOrAdmin
<1> QED
  BY <1>1, <1>2, <1>3, <1>4, <1>5, <1>6, <1>7 DEF Write

LEMMA NextKeepsInv == IInv /\ [Next]_vars => IInv'
<1> SUFFICES ASSUME IInv, [Next]_vars PROVE IInv'
  OBVIOUS
<1>1. CASE Next
  BY <1>1, CheckKeepsInv, WriteKeepsInv DEF Next
<1>2. CASE UNCHANGED vars
  BY <1>2 DEF vars, IInv, TypeOK, SuperHasNoTenant, AdminsProtected,
     DeletedBySelfOrAdmin, InFlightSafe
<1> QED
  BY <1>1, <1>2

LEMMA InvHolds == Spec => []IInv
BY InitInv, NextKeepsInv, PTL DEF Spec

-----------------------------------------------------------------------------
(* Every row and every request in flight has its type.                     *)
THEOREM AccountsTypeCorrect == Spec => []TypeOK
BY InvHolds, PTL DEF IInv

(* However deletions, restores and re-registrations interleave, no super   *)
(* admin is deleted and no tenant admin deletes itself (delete_me,         *)
(* delete_user, register_user).                                            *)
THEOREM AdminsAreProtected == Spec => []AdminsProtected
BY InvHolds, PTL DEF IInv

(* An account deleted by somebody else names an admin as its deleter       *)
(* (delete_user, soft_delete_user).                                        *)
THEOREM OnlyAdminsDeleteOthers == Spec => []DeletedBySelfOrAdmin
BY InvHolds, PTL DEF IInv

(* The list of accounts shows what GET by id shows, and the list of        *)
(* deleted accounts what an admin may restore (list_users, get_user_by_id, *)
(* restore_user): only a super admin, who lists tenant admins, is without  *)
(* a tenant.                                                               *)
THEOREM AccountsListedAreGot == Spec => []ListedIsGot
<1>1. IInv => ListedIsGot
  <2> SUFFICES ASSUME IInv, NEW a \in LiveUsers, users[a].role # "INTERN"
               PROVE  /\ Listed(a) \cup {a} = {u \in LiveUsers : CanView(a, u)}
                      /\ users[a].role \in Admin =>
                           ListedDeleted(a) =
                             {u \in DOMAIN users \ LiveUsers : CanAccessUser(a, u)}
    BY DEF ListedIsGot
  <2>1. a \in DOMAIN users
    BY DEF LiveUsers
  <2>2. users[a].role \in Role
    BY <2>1 DEF IInv, TypeOK, UserRow
  <2>3. users[a].tenant = None <=> users[a].role = "SUPER_ADMIN"
    BY <2>1 DEF IInv, SuperHasNoTenant
  <2>4. CASE users[a].role = "SUPER_ADMIN"
    <3>1. Scope(a) = [tenant |-> None, role |-> "TENANT_ADMIN"]
      BY <2>3, <2>4 DEF Scope
    <3>2. \A u \in DOMAIN users : u \in InScope(a) <=> CanAccessUser(a, u)
      BY <2>4, <3>1, NoneAssumption DEF InScope, Asked, CanAccessUser, Role
    <3> QED
      BY <2>1, <2>4, <3>2
         DEF Listed, ListedDeleted, CanView, InScope, LiveUsers
  <2>5. CASE users[a].role = "TENANT_ADMIN"
    <3>1. Scope(a) = [tenant |-> users[a].tenant, role |-> None]
      BY <2>5 DEF Scope
    <3>2. \A u \in DOMAIN users : u \in InScope(a) <=> CanAccessUser(a, u)
      BY <2>3, <2>5, <3>1 DEF InScope, Asked, CanAccessUser
    <3> QED
      BY <2>1, <2>5, <3>2
         DEF Listed, ListedDeleted, CanView, InScope, LiveUsers
  <2>6. CASE users[a].role = "MENTOR"
    <3>1. Scope(a) = [tenant |-> users[a].tenant, role |-> "INTERN"]
      BY <2>6 DEF Scope
    <3>2. \A u \in DOMAIN users :
            u \in InScope(a) \cup {a} <=> CanView(a, u)
      BY <2>1, <2>3, <2>6, <3>1, NoneAssumption
         DEF InScope, Asked, CanView, CanAccessUser, Role
    <3> QED
      BY <2>1, <2>6, <3>2 DEF Listed, InScope, LiveUsers, Admin
  <2> QED
    BY <2>2, <2>4, <2>5, <2>6 DEF Role
<1> QED
  BY <1>1, InvHolds, PTL

-----------------------------------------------------------------------------
(* Requests that run one after the other.                                  *)

OneAtATime == \A q, r \in Req : req[q] # Idle /\ req[r] # Idle => q = r

(* A record that a standing deletion took is a record of the deleted       *)
(* account and names the same deleter.                                     *)
TakenOK(row) ==
  row.takenWith # None =>
    /\ row.takenWith \in DOMAIN users
    /\ Involves(row, row.takenWith)
    /\ users[row.takenWith].deletedBy # None
    /\ row.deletedBy = users[row.takenWith].deletedBy

(* A live record needs one of its users.                                   *)
NotOrphan(row) ==
  row.deletedBy = None => \E u \in LiveUsers : Involves(row, u)

(* A request in flight decided on the accounts as they are now.            *)
InFlightCurrent(rq) ==
  /\ rq.op = "reregister" => users[rq.user].deletedBy = rq.user
  /\ rq.op = "delete" =>
       /\ {rq.actor, rq.user} \subseteq LiveUsers
       /\ rq.actor # rq.user => CanAccessUser(rq.actor, rq.user)
  /\ rq.op = "restore" => rq.by = users[rq.user].deletedBy
  /\ rq.op = "createRecord" =>
       /\ {rq.row.owner, rq.row.assignee} \subseteq LiveUsers
       /\ rq.row.deletedBy = None /\ rq.row.takenWith = None

RowsOK == \A i \in DOMAIN records : TakenOK(records[i]) /\ NotOrphan(records[i])

SerialInv == RowsOK /\ \A r \in Req : InFlightCurrent(req[r])

LEMMA SerialStart ==
  ASSUME IInv, SerialInv, NEW r \in Req, NEW rq, InFlightCurrent(rq), Start(r, rq)
  PROVE  SerialInv'
<1>1. users' = users /\ records' = records /\ req' = [req EXCEPT ![r] = rq]
  BY DEF Start
<1>2. \A q \in Req : req'[q] = IF q = r THEN rq ELSE req[q]
  BY <1>1 DEF IInv, TypeOK
<1>3. LiveUsers' = LiveUsers
  BY <1>1 DEF LiveUsers
<1>4. RowsOK'
  BY <1>1, <1>3 DEF SerialInv, RowsOK, TakenOK, NotOrphan, Involves
<1>5. \A q \in Req : InFlightCurrent(req'[q])
  BY <1>2 DEF SerialInv
<1>6. \A q \in Req : InFlightCurrent(req[q])'
  BY <1>1, <1>3, <1>5 DEF InFlightCurrent, CanAccessUser
<1> QED
  BY <1>4, <1>6 DEF SerialInv

LEMMA SerialCheck ==
  ASSUME IInv, SerialInv, NEW r \in Req, Check(r)
  PROVE  SerialInv'
<1>1. ASSUME NEW t \in Tenant, Register(r, t)
      PROVE  SerialInv'
  BY <1>1, SerialStart DEF Register, InFlightCurrent
<1>2. ASSUME NEW u \in User, NEW t \in Tenant, Reregister(r, u, t)
      PROVE  SerialInv'
  BY <1>2, SerialStart DEF Reregister, IsSelfDeleted, InFlightCurrent
<1>3. ASSUME NEW a \in User, NEW t \in Tenant, NEW role \in Role,
             CreateUser(r, a, t, role)
      PROVE  SerialInv'
  BY <1>3, SerialStart DEF CreateUser, InFlightCurrent
<1>4. ASSUME NEW a \in User, DeleteMe(r, a)
      PROVE  SerialInv'
  BY <1>4, SerialStart DEF DeleteMe, InFlightCurrent
<1>5. ASSUME NEW a \in User, NEW u \in User, DeleteUser(r, a, u)
      PROVE  SerialInv'
  BY <1>5, SerialStart DEF DeleteUser, InFlightCurrent
<1>6. ASSUME NEW a \in User, NEW u \in User, RestoreUser(r, a, u)
      PROVE  SerialInv'
  BY <1>6, SerialStart DEF RestoreUser, InFlightCurrent
<1>7. ASSUME NEW a \in User, NEW o \in User, NEW s \in User, CreateRecord(r, a, o, s)
      PROVE  SerialInv'
  BY <1>7, SerialStart DEF CreateRecord, InFlightCurrent
<1>8. ASSUME NEW a \in User, NEW i \in RecordId, DeleteRecord(r, a, i)
      PROVE  SerialInv'
  BY <1>8, SerialStart DEF DeleteRecord, InFlightCurrent
<1> QED
  BY <1>1, <1>2, <1>3, <1>4, <1>5, <1>6, <1>7, <1>8 DEF Check

(* A step that ends the only request in flight.                            *)
LEMMA SerialFinish ==
  ASSUME IInv, OneAtATime, NEW r \in Req, req[r] # Idle, Finish(r), RowsOK'
  PROVE  SerialInv'
<1>1. \A q \in Req : req'[q] = Idle
  BY DEF OneAtATime, Finish, IInv, TypeOK
<1> QED
  BY <1>1 DEF SerialInv, InFlightCurrent, Idle

(* The deletion of a live account takes its live records with it.          *)
LEMMA SerialSoftDeleteUser ==
  ASSUME IInv, SerialInv, NEW r \in Req, SoftDeleteUser(r)
  PROVE  RowsOK'
<1> DEFINE a == req[r].actor
           u == req[r].user
<1>1. a \in LiveUsers /\ u \in LiveUsers /\ a \in User /\ u \in User
  BY DEF SoftDeleteUser, SerialInv, InFlightCurrent, LiveUsers, IInv, TypeOK
<1>2. users' = [users EXCEPT ![u].deletedBy = a] /\ records' = CascadeSoftDelete(u, a)
  BY DEF SoftDeleteUser
<1> HIDE DEF a, u
<1>3. a # None /\ u # None
  BY <1>1, NoneAssumption
<1>4. /\ DOMAIN users' = DOMAIN users
      /\ users'[u].deletedBy = a
      /\ \A v \in DOMAIN users : v # u => users'[v] = users[v]
      /\ \A v \in LiveUsers : v # u => v \in LiveUsers'
  BY <1>1, <1>2 DEF LiveUsers, IInv, TypeOK, UserRow
<1>5. ASSUME NEW i \in DOMAIN records
      PROVE  TakenOK(records[i])' /\ NotOrphan(records[i])'
  <2>1. records[i] \in RecordRow /\ TakenOK(records[i]) /\ NotOrphan(records[i])
    BY DEF IInv, TypeOK, SerialInv, RowsOK
  <2>2. CASE i \in LiveRecords /\ Involves(records[i], u)
    <3>1. records'[i] = [records[i] EXCEPT !.deletedBy = a, !.takenWith = u]
      BY <1>2, <2>2 DEF CascadeSoftDelete
    <3>2. /\ records'[i].takenWith = u /\ records'[i].deletedBy = a
          /\ Involves(records'[i], u)
      BY <2>1, <2>2, <3>1 DEF RecordRow, Involves
    <3> QED
      BY <1>1, <1>3, <1>4, <3>2 DEF TakenOK, NotOrphan, LiveUsers, Involves
  <2>3. CASE ~(i \in LiveRecords /\ Involves(records[i], u))
    <3>1. records'[i] = records[i]
      BY <1>2, <2>3 DEF CascadeSoftDelete
    <3>2. records[i].takenWith # u
      BY <1>1, <1>3, <2>1 DEF TakenOK, LiveUsers
    <3>3. TakenOK(records[i])'
      BY <1>4, <2>1, <3>1, <3>2 DEF TakenOK
    <3>4. NotOrphan(records[i])'
      BY <1>4, <2>1, <2>3, <3>1 DEF NotOrphan, LiveRecords, Involves
    <3> QED
      BY <3>3, <3>4
  <2> QED
    BY <2>2, <2>3
<1>6. DOMAIN records' = DOMAIN records
  BY <1>2 DEF CascadeSoftDelete
<1> QED
  BY <1>5, <1>6 DEF RowsOK

(* The restore of an account brings back what its deletion took.           *)
LEMMA SerialRestore ==
  ASSUME IInv, SerialInv, NEW r \in Req, Restore(r)
  PROVE  /\ RowsOK'
         /\ \A i \in DOMAIN records :
              records[i].takenWith = req[r].user => records'[i].deletedBy = None
<1> DEFINE u == req[r].user
           by == req[r].by
<1>1. u \in DOMAIN users /\ u \in User /\ by \in User /\ by = users[u].deletedBy
  <2>1. req[r] \in Request /\ req[r].op = "restore"
    BY DEF Restore, IInv, TypeOK
  <2>2. u \in User /\ by \in User
    BY <2>1 DEF Request, Idle
  <2>3. InFlightSafe(req[r]) /\ InFlightCurrent(req[r])
    BY DEF IInv, SerialInv
  <2> QED
    BY <2>1, <2>2, <2>3 DEF InFlightSafe, InFlightCurrent
<1>2. users' = [users EXCEPT ![u].deletedBy = None] /\ records' = CascadeRestore(u, by)
  BY DEF Restore
<1> HIDE DEF u, by
<1>3. u # None /\ by # None
  BY <1>1, NoneAssumption
<1>4. /\ DOMAIN users' = DOMAIN users
      /\ users'[u].deletedBy = None
      /\ \A v \in DOMAIN users : v # u => users'[v] = users[v]
      /\ LiveUsers' = LiveUsers \cup {u}
  BY <1>1, <1>2 DEF LiveUsers, IInv, TypeOK, UserRow
<1>5. ASSUME NEW i \in DOMAIN records
      PROVE  /\ TakenOK(records[i])' /\ NotOrphan(records[i])'
             /\ records[i].takenWith = u => records'[i].deletedBy = None
  <2>1. records[i] \in RecordRow /\ TakenOK(records[i]) /\ NotOrphan(records[i])
    BY DEF IInv, TypeOK, SerialInv, RowsOK
  <2>2. CASE Involves(records[i], u) /\ records[i].deletedBy = by
    <3>1. records'[i] = [records[i] EXCEPT !.deletedBy = None, !.takenWith = None]
      BY <1>2, <2>2 DEF CascadeRestore
    <3>2. /\ records'[i].takenWith = None /\ records'[i].deletedBy = None
          /\ Involves(records'[i], u)
      BY <2>1, <2>2, <3>1 DEF RecordRow, Involves
    <3> QED
      BY <1>4, <3>2 DEF TakenOK, NotOrphan, Involves
  <2>3. CASE ~(Involves(records[i], u) /\ records[i].deletedBy = by)
    <3>1. records'[i] = records[i]
      BY <1>2, <2>3 DEF CascadeRestore
    <3>2. records[i].takenWith # u
      BY <1>1, <1>3, <2>1, <2>3 DEF TakenOK
    <3>3. TakenOK(records[i])'
      BY <1>4, <2>1, <3>1, <3>2 DEF TakenOK
    <3>4. NotOrphan(records[i])'
      BY <1>4, <2>1, <3>1 DEF NotOrphan
    <3> QED
      BY <3>2, <3>3, <3>4
  <2> QED
    BY <2>2, <2>3
<1>6. DOMAIN records' = DOMAIN records
  BY <1>2 DEF CascadeRestore
<1>7. RowsOK'
  BY <1>5, <1>6 DEF RowsOK
<1> QED
  BY <1>5, <1>7 DEF u

(* A re-registration forgets what the deletion took.                       *)
LEMMA SerialRevive ==
  ASSUME IInv, SerialInv, NEW r \in Req, Revive(r)
  PROVE  RowsOK'
<1> DEFINE u == req[r].user
           row == [tenant |-> Given(req[r].tenant, users[u].tenant),
                   role |-> Given(req[r].role, users[u].role),
                   deletedBy |-> None]
<1>1. u \in DOMAIN users
  BY DEF Revive, IInv, InFlightSafe
<1>2. /\ users' = [users EXCEPT ![u] = row]
      /\ records' = [i \in DOMAIN records |->
                       IF records[i].takenWith = u
                         THEN [records[i] EXCEPT !.takenWith = None]
                         ELSE records[i]]
  BY DEF Revive
<1>3. row.deletedBy = None
  OBVIOUS
<1> HIDE DEF u, row
<1>4. /\ DOMAIN users' = DOMAIN users
      /\ \A v \in DOMAIN users : v # u => users'[v] = users[v]
      /\ LiveUsers' = LiveUsers \cup {u}
  BY <1>1, <1>2, <1>3 DEF LiveUsers
<1>5. ASSUME NEW i \in DOMAIN records
      PROVE  TakenOK(records[i])' /\ NotOrphan(records[i])'
  <2>1. records[i] \in RecordRow /\ TakenOK(records[i]) /\ NotOrphan(records[i])
    BY DEF IInv, TypeOK, SerialInv, RowsOK
  <2>2. /\ records'[i].owner = records[i].owner
        /\ records'[i].assignee = records[i].assignee
        /\ records'[i].deletedBy = records[i].deletedBy
    BY <1>2, <2>1 DEF RecordRow
  <2>3. NotOrphan(records[i])'
    BY <1>4, <2>1, <2>2 DEF NotOrphan, Involves
  <2>4. CASE records[i].takenWith = u
    BY <1>2, <2>1, <2>3, <2>4 DEF RecordRow, TakenOK
  <2>5. CASE records[i].takenWith # u
    BY <1>2, <1>4, <2>1, <2>3, <2>5 DEF TakenOK
  <2> QED
    BY <2>4, <2>5
<1>6. DOMAIN records' = DOMAIN records
  BY <1>2
<1> QED
  BY <1>5, <1>6 DEF RowsOK

LEMMA SerialWrite ==
  ASSUME IInv, SerialInv, OneAtATime, NEW r \in Req, Write(r)
  PROVE  SerialInv'
<1>0. /\ req[r] \in Request /\ InFlightSafe(req[r]) /\ InFlightCurrent(req[r])
      /\ users \in [DOMAIN users -> UserRow] /\ records \in [DOMAIN records -> RecordRow]
      /\ RowsOK
  BY DEF IInv, TypeOK, SerialInv
<1>1. Finish(r) /\ req[r] # Idle
  <2>1. Idle.op = "idle"
    BY DEF Idle
  <2> QED
    BY <2>1 DEF Write, InsertUser, Revive, SoftDeleteUser, SkipDeletedUser, Restore,
       InsertRecord, SoftDeleteRecord, SkipDeletedRecord, Rollback
<1>2. ASSUME NEW u \in User, InsertUser(r, u)
      PROVE  RowsOK'
  <2>1. /\ DOMAIN users \subseteq DOMAIN users' /\ records' = records
        /\ \A v \in DOMAIN users : users'[v] = users[v]
    BY <1>2 DEF InsertUser
  <2>2. LiveUsers \subseteq LiveUsers'
    BY <2>1 DEF LiveUsers
  <2> QED
    BY <1>0, <2>1, <2>2 DEF RowsOK, TakenOK, NotOrphan
<1>3. ASSUME NEW i \in RecordId, InsertRecord(r, i)
      PROVE  RowsOK'
  <2>1. /\ DOMAIN records' = DOMAIN records \cup {i} /\ users' = users
        /\ records'[i] = req[r].row
        /\ \A j \in DOMAIN records : records'[j] = records[j]
    BY <1>3 DEF InsertRecord
  <2>2. TakenOK(req[r].row) /\ NotOrphan(req[r].row)
    BY <1>0, <1>3 DEF InsertRecord, InFlightCurrent, TakenOK, NotOrphan, Involves
  <2>3. \A j \in DOMAIN records' : TakenOK(records'[j]) /\ NotOrphan(records'[j])
    BY <1>0, <2>1, <2>2 DEF RowsOK
  <2>4. LiveUsers' = LiveUsers
    BY <2>1 DEF LiveUsers
  <2> QED
    BY <2>1, <2>3, <2>4 DEF RowsOK, TakenOK, NotOrphan
<1>4. ASSUME SoftDeleteRecord(r)
      PROVE  RowsOK'
  <2> DEFINE i == req[r].record
  <2>1. i \in DOMAIN records /\ req[r].actor \in User
    BY <1>0, <1>4 DEF SoftDeleteRecord, InFlightSafe, Request, Idle
  <2>2. /\ records' = [records EXCEPT ![i].deletedBy = req[r].actor,
                                     ![i].takenWith = None]
        /\ users' = users
    BY <1>4 DEF SoftDeleteRecord
  <2> HIDE DEF i
  <2>3. /\ DOMAIN records' = DOMAIN records
        /\ records'[i].deletedBy # None /\ records'[i].takenWith = None
        /\ \A j \in DOMAIN records : j # i => records'[j] = records[j]
    BY <1>0, <2>1, <2>2, NoneAssumption DEF RecordRow
  <2>4. LiveUsers' = LiveUsers
    BY <2>2 DEF LiveUsers
  <2> QED
    BY <1>0, <2>2, <2>3, <2>4 DEF RowsOK, TakenOK, NotOrphan
<1>5. ASSUME SkipDeletedUser(r) \/ SkipDeletedRecord(r) \/ Rollback(r)
      PROVE  RowsOK'
  <2>1. UNCHANGED <<users, records>>
    BY <1>5 DEF SkipDeletedUser, SkipDeletedRecord, Rollback
  <2> QED
    BY <1>0, <2>1 DEF RowsOK, TakenOK, NotOrphan, LiveUsers
<1>6. RowsOK'
  BY <1>2, <1>3, <1>4, <1>5, SerialSoftDeleteUser, SerialRestore, SerialRevive
     DEF Write
<1> QED
  BY <1>1, <1>6, SerialFinish

LEMMA SerialInvHolds == Spec /\ []OneAtATime => []SerialInv
<1>1. Init => SerialInv
  BY DEF Init, SerialInv, RowsOK, InFlightCurrent, Idle
<1>2. IInv /\ OneAtATime /\ SerialInv /\ [Next]_vars => SerialInv'
  <2> SUFFICES ASSUME IInv, OneAtATime, SerialInv, [Next]_vars PROVE SerialInv'
    OBVIOUS
  <2>1. CASE UNCHANGED vars
    BY <2>1 DEF vars, SerialInv, RowsOK, TakenOK, NotOrphan, LiveUsers,
       InFlightCurrent, CanAccessUser
  <2> QED
    BY <2>1, SerialCheck, SerialWrite DEF Next
<1> QED
  BY <1>1, <1>2, InvHolds, PTL DEF Spec

(* Of requests that run one after the other, no live record is left with   *)
(* deleted accounts only: deletions take the records along                 *)
(* (soft_delete_user), and a restore brings back records of the account it *)
(* restores only (restore_user).  A task of two users comes back with the  *)
(* one that is restored, while the other may stay deleted.                 *)
THEOREM OneAtATimeNoOrphan == Spec /\ []OneAtATime => []NoOrphan
<1>1. SerialInv => NoOrphan
  BY DEF SerialInv, RowsOK, NotOrphan, NoOrphan, LiveRecords
<1> QED
  BY <1>1, SerialInvHolds, PTL

(* What a step does to an account: it is as before, or the request that    *)
(* writes it is the one of three that deletes, restores or revives it.     *)
LEMMA WriteOfUser ==
  ASSUME IInv, [Next]_vars, NEW u \in DOMAIN users
  PROVE  \/ u \in DOMAIN users' /\ users'[u] = users[u]
         \/ \E r \in Req :
              /\ req[r].user = u
              /\ SoftDeleteUser(r) \/ Restore(r) \/ Revive(r)
<1>1. CASE users' = users
  BY <1>1
<1>2. ASSUME NEW r \in Req, NEW v \in User, InsertUser(r, v)
      PROVE  u \in DOMAIN users' /\ users'[u] = users[u]
  BY <1>2 DEF InsertUser
<1>3. ASSUME NEW r \in Req, SoftDeleteUser(r) \/ Restore(r) \/ Revive(r), req[r].user # u
      PROVE  u \in DOMAIN users' /\ users'[u] = users[u]
  <2> DEFINE v == req[r].user
  <2>1. \E row : users' = [users EXCEPT ![v] = row]
    BY <1>3 DEF SoftDeleteUser, Restore, Revive
  <2>2. v # u
    BY <1>3
  <2> HIDE DEF v
  <2> QED
    BY <2>1, <2>2
<1>4. ASSUME NEW r \in Req, Check(r)
      PROVE  users' = users
  <2>1. \E rq : Start(r, rq)
    BY <1>4 DEF Check, Register, Reregister, CreateUser, DeleteMe, DeleteUser,
       RestoreUser, CreateRecord, DeleteRecord
  <2> QED
    BY <2>1 DEF Start
<1>5. ASSUME NEW r \in Req, Write(r), users' # users
      PROVE  \/ \E v \in User : InsertUser(r, v)
             \/ SoftDeleteUser(r) \/ Restore(r) \/ Revive(r)
  BY <1>5 DEF Write, SkipDeletedUser, InsertRecord, SoftDeleteRecord,
     SkipDeletedRecord, Rollback
<1> QED
  BY <1>1, <1>2, <1>3, <1>4, <1>5 DEF Next, vars

(* Of requests that run one after the other, the deletion of an account by *)
(* an admin is undone by restore_user only: the re-registration in         *)
(* register_user is for accounts that deleted themselves.                  *)
THEOREM OneAtATimeAdminDeletion == Spec /\ []OneAtATime => [][AdminDeletionHolds]_vars
<1>1. IInv /\ SerialInv /\ [Next]_vars => [AdminDeletionHolds]_vars
  <2> SUFFICES ASSUME IInv, SerialInv, [Next]_vars, NEW u \in DOMAIN users,
                      users[u].deletedBy \notin {None, u}, users'[u].deletedBy = None
               PROVE  \E r \in Req : req[r].op = "restore" /\ req[r].user = u
    BY DEF AdminDeletionHolds
  <2>1. PICK r \in Req : /\ req[r].user = u
                         /\ SoftDeleteUser(r) \/ Restore(r) \/ Revive(r)
    BY WriteOfUser
  <2>2. ASSUME SoftDeleteUser(r)
        PROVE  FALSE
    <3>1. req[r].actor \in LiveUsers /\ users' = [users EXCEPT ![u].deletedBy = req[r].actor]
      BY <2>1, <2>2 DEF SoftDeleteUser, SerialInv, InFlightCurrent
    <3>2. users'[u].deletedBy = req[r].actor
      BY <3>1 DEF IInv, TypeOK, UserRow
    <3> QED
      BY <3>1, <3>2, NoneAssumption DEF LiveUsers, IInv, TypeOK
  <2>3. ~Revive(r)
    BY <2>1 DEF Revive, SerialInv, InFlightCurrent
  <2> QED
    BY <2>1, <2>2, <2>3 DEF Restore
<1> QED
  BY <1>1, InvHolds, SerialInvHolds, PTL DEF Spec

(* Of requests that run one after the other, restoring an account that     *)
(* somebody else deleted brings back every record its deletion took:       *)
(* restore_user filters on the deleted_by that soft_delete_user wrote into *)
(* the account and its rows.                                               *)
THEOREM OneAtATimeCascadeReturns == Spec /\ []OneAtATime => [][CascadeReturns]_vars
<1>1. IInv /\ SerialInv /\ OneAtATime /\ [Next]_vars => [CascadeReturns]_vars
  <2> SUFFICES ASSUME IInv, SerialInv, OneAtATime, [Next]_vars, NEW r \in Req,
                      req[r].op = "restore", req[r].by # req[r].user,
                      req'[r] = Idle, users' # users
               PROVE  \A i \in DOMAIN records :
                        records[i].takenWith = req[r].user => records'[i].deletedBy = None
    BY DEF CascadeReturns
  <2>1. Idle.op = "idle"
    BY DEF Idle
  <2>2. PICK q \in Req : Check(q) \/ Write(q)
    BY DEF Next, vars
  <2>3. req[q] # Idle /\ Write(q)
    <3>1. Check(q) => users' = users
      BY DEF Check, Register, Reregister, CreateUser, DeleteMe, DeleteUser,
         RestoreUser, CreateRecord, DeleteRecord, Start
    <3>2. Write(q) => req[q] # Idle
      BY <2>1 DEF Write, InsertUser, Revive, SoftDeleteUser, SkipDeletedUser,
         Restore, InsertRecord, SoftDeleteRecord, SkipDeletedRecord, Rollback
    <3> QED
      BY <2>2, <3>1, <3>2
  <2>4. q = r
    BY <2>1, <2>3 DEF OneAtATime
  <2>5. Restore(r)
    BY <2>3, <2>4 DEF Write, InsertUser, Revive, SoftDeleteUser, SkipDeletedUser,
       InsertRecord, SoftDeleteRecord, SkipDeletedRecord, Rollback
  <2> QED
    BY <2>5, SerialRestore
<1> QED
  BY <1>1, InvHolds, SerialInvHolds, PTL DEF Spec

(* Of requests that run one after the other, only a super admin takes the  *)
(* last admin of a tenant: an admin cannot delete itself (delete_me,       *)
(* delete_user), so whoever deletes a fellow admin is left.                *)
THEOREM OneAtATimeLastAdmin ==
  Spec /\ []OneAtATime => [][LastAdminTakenBySuperAdmin]_vars
<1>1. IInv /\ SerialInv /\ [Next]_vars => [LastAdminTakenBySuperAdmin]_vars
  <2> SUFFICES ASSUME IInv, SerialInv, [Next]_vars, NEW t \in Tenant,
                      HasAdmin(t), ~HasAdmin(t)'
               PROVE  \E r \in Req : /\ req[r].op = "delete"
                                     /\ users[req[r].actor].role = "SUPER_ADMIN"
    BY DEF LastAdminTakenBySuperAdmin
  <2>1. PICK w \in LiveUsers : users[w].tenant = t /\ users[w].role = "TENANT_ADMIN"
    BY DEF HasAdmin
  <2>2. w \in DOMAIN users /\ users[w].deletedBy = None
    BY <2>1 DEF LiveUsers
  <2>3. ~(w \in DOMAIN users' /\ users'[w] = users[w])
    BY <2>1, <2>2 DEF HasAdmin, LiveUsers
  <2>4. PICK r \in Req : /\ req[r].user = w
                         /\ SoftDeleteUser(r) \/ Restore(r) \/ Revive(r)
    BY <2>2, <2>3, WriteOfUser
  <2>5. ~Revive(r)
    BY <2>1, <2>4 DEF Revive, IInv, InFlightSafe, Admin
  <2>6. ~Restore(r)
    <3>1. ASSUME Restore(r)
          PROVE  users' = [users EXCEPT ![w].deletedBy = None]
      BY <2>4, <3>1 DEF Restore
    <3>2. ASSUME Restore(r)
          PROVE  w \in DOMAIN users' /\ users'[w] = users[w]
      BY <2>2, <3>1, <3>2 DEF IInv, TypeOK, UserRow
    <3> QED
      BY <2>3, <3>2
  <2>7. SoftDeleteUser(r) /\ req[r].op = "delete"
    BY <2>4, <2>5, <2>6 DEF SoftDeleteUser
  <2> DEFINE a == req[r].actor
  <2>8. a \in LiveUsers /\ a # w /\ CanAccessUser(a, w)
    <3>1. InFlightSafe(req[r]) /\ InFlightCurrent(req[r])
      BY DEF IInv, SerialInv
    <3>2. a # w
      BY <2>1, <2>4, <2>7, <3>1 DEF InFlightSafe, Admin
    <3> QED
      BY <2>4, <2>7, <3>1, <3>2 DEF InFlightCurrent
  <2>9. users' = [users EXCEPT ![w].deletedBy = a]
    BY <2>4, <2>7 DEF SoftDeleteUser
  <2> HIDE DEF a
  <2>10. a \in LiveUsers' /\ users'[a] = users[a]
    BY <2>8, <2>9 DEF LiveUsers
  <2>11. ~(users[a].tenant = t /\ users[a].role = "TENANT_ADMIN")
    BY <2>10 DEF HasAdmin
  <2>12. users[a].role = "SUPER_ADMIN"
    BY <2>1, <2>8, <2>11 DEF CanAccessUser
  <2> QED
    BY <2>7, <2>12 DEF a
<1> QED
  BY <1>1, InvHolds, SerialInvHolds, PTL DEF Spec

-----------------------------------------------------------------------------
(* The behaviours the runs explore are behaviours of the specification,    *)
(* and one request at a time in serial mode.                               *)

OnlySlot == \A r \in Req \ {r1} : req[r] = Idle

LEMMA RunsAreBehaviours == MCSpec => Spec
<1>1. MCInit => Init
  BY DEF MCInit
<1>2. [MCNext]_mcvars => [Next]_vars
  BY DEF MCNext, Next, mcvars, vars
<1> QED
  BY <1>1, <1>2, PTL DEF MCSpec, Spec

LEMMA ModeStays == [MCNext]_mcvars => (serial' <=> serial)
BY DEF MCNext, mcvars, serial

LEMMA SerialRuns == MCSpec /\ serial => []OneAtATime
<1>1. MCInit => OnlySlot
  BY DEF MCInit, Init, OnlySlot
<1>2. IInv /\ serial /\ OnlySlot /\ [MCNext]_mcvars => OnlySlot' /\ serial'
  <2> SUFFICES ASSUME IInv, serial, OnlySlot, [MCNext]_mcvars
               PROVE  OnlySlot' /\ serial'
    OBVIOUS
  <2>1. CASE UNCHANGED mcvars
    BY <2>1 DEF mcvars, vars, OnlySlot, serial
  <2>2. CASE MCNext
    <3>1. mode' = mode /\ \E r \in Req : r = r1 /\ (Check(r) \/ Write(r))
      BY <2>2 DEF MCNext
    <3>2. Check(r1) => \E rq : Start(r1, rq)
      BY DEF Check, Register, Reregister, CreateUser, DeleteMe, DeleteUser,
         RestoreUser, CreateRecord, DeleteRecord
    <3>3. Write(r1) => Finish(r1)
      BY DEF Write, InsertUser, Revive, SoftDeleteUser, SkipDeletedUser, Restore,
         InsertRecord, SoftDeleteRecord, SkipDeletedRecord, Rollback
    <3>4. \A r \in Req \ {r1} : req'[r] = req[r]
      BY <3>1, <3>2, <3>3 DEF Start, Finish, IInv, TypeOK
    <3> QED
      BY <3>1, <3>4 DEF OnlySlot, serial
  <2> QED
    BY <2>1, <2>2
<1>3. OnlySlot => OneAtATime
  BY DEF OnlySlot, OneAtATime
<1> QED
  BY <1>1, <1>2, <1>3, RunsAreBehaviours, InvHolds, PTL DEF MCSpec

(* The serial behaviours of the runs: no live record is left with deleted  *)
(* accounts only (soft_delete_user, restore_user).                         *)
THEOREM SerialNoOrphans == MCSpec => []SerialNoOrphan
<1>1. serial \/ ~serial
  OBVIOUS
<1> QED
  BY <1>1, ModeStays, RunsAreBehaviours, SerialRuns, OneAtATimeNoOrphan, PTL
     DEF MCSpec, SerialNoOrphan

(* A property of the steps of serial behaviours says nothing of the rest.  *)
LEMMA ConcurrentSteps ==
  ~serial => /\ [serial => AdminDeletionHolds]_mcvars
             /\ [serial => CascadeReturns]_mcvars
             /\ [serial => LastAdminTakenBySuperAdmin]_mcvars
OBVIOUS

(* The serial behaviours of the runs: an admin's deletion stands           *)
(* (register_user, restore_user).                                          *)
THEOREM SerialAdminDeletionStands == MCSpec => SerialAdminDeletionHolds
<1>1. [AdminDeletionHolds]_vars => [serial => AdminDeletionHolds]_mcvars
  BY DEF AdminDeletionHolds, vars
<1> QED
  BY <1>1, ConcurrentSteps, ModeStays, RunsAreBehaviours, SerialRuns,
     OneAtATimeAdminDeletion, PTL DEF MCSpec, SerialAdminDeletionHolds

(* The serial behaviours of the runs: the restore of an account somebody   *)
(* else deleted brings back what the deletion took (soft_delete_user,      *)
(* restore_user).                                                          *)
THEOREM SerialCascadesReturn == MCSpec => SerialCascadeReturns
<1>1. [CascadeReturns]_vars => [serial => CascadeReturns]_mcvars
  BY DEF CascadeReturns, vars
<1> QED
  BY <1>1, ConcurrentSteps, ModeStays, RunsAreBehaviours, SerialRuns,
     OneAtATimeCascadeReturns, PTL DEF MCSpec, SerialCascadeReturns

(* The serial behaviours of the runs: the last admin of a tenant goes by a *)
(* super admin only (delete_me, delete_user).                              *)
THEOREM SerialLastAdmins == MCSpec => SerialLastAdminTaken
<1>1. [LastAdminTakenBySuperAdmin]_vars => [serial => LastAdminTakenBySuperAdmin]_mcvars
  BY DEF LastAdminTakenBySuperAdmin, HasAdmin, LiveUsers, vars
<1> QED
  BY <1>1, ConcurrentSteps, ModeStays, RunsAreBehaviours, SerialRuns,
     OneAtATimeLastAdmin, PTL DEF MCSpec, SerialLastAdminTaken
=============================================================================
