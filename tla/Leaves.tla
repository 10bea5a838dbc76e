------------------------------- MODULE Leaves -------------------------------
(***************************************************************************)
(* Leave requests: services/leave_service.py, crud/leave_crud.py and the   *)
(* routes of routers/leaves.py that change a row of the table "leaves".    *)
(*                                                                         *)
(* One HTTP request is one database transaction (a session of              *)
(* database/session.py, by get_db) at Postgres' READ COMMITTED, the        *)
(* default.  It runs in two steps: the service reads and decides           *)
(* (CreateLeave, UpdateLeave, DeleteLeave), and later flushes its UPDATE   *)
(* or INSERT and commits (Insert, Flush..., Soft...).  Between the two     *)
(* other requests may commit.  Row locks make the flush and the commit one *)
(* step for everybody else.  A request whose checks fail raises            *)
(* and changes nothing, so it has no step here.                            *)
(*                                                                         *)
(* Abstracted: leave_type and reason (no rule reads them), the clock (the  *)
(* schemas refuse dates in the past), users and roles (fixed here; their   *)
(* deletion and its cascade are the subject of Accounts).                  *)
(***************************************************************************)
EXTENDS Naturals

CONSTANTS
  User,      (* rows of "users" that belong to a tenant and are active      *)
  Tenant,
  TenantOf,  (* User -> Tenant                                              *)
  RoleOf,    (* User -> Role                                                *)
  LeaveId,   (* ids a leave can be given; bounds the number of leaves       *)
  Req,       (* slots for requests in flight; bounds the concurrency        *)
  MaxDay,    (* dates are 1..MaxDay                                         *)
  None       (* SQL NULL, and a body field that was not sent                *)

Role   == {"INTERN", "MENTOR", "TENANT_ADMIN"}
Status == {"pending", "approved", "rejected", "cancelled"}
Decision == {"approved", "rejected"}
Day    == 1..MaxDay

ASSUME ConstantsAssumption ==
  /\ TenantOf \in [User -> Tenant]
  /\ RoleOf \in [User -> Role]
  /\ MaxDay \in Nat
  /\ None \notin User
  /\ None \notin Day
  /\ None \notin Status

VARIABLES
  leaves,    (* the committed table, a function from the ids used so far    *)
  req        (* what each request in flight has read and decided to write   *)

vars == <<leaves, req>>

Row == [tenant: Tenant, user: User, start: Day, end: Day, status: Status,
        approvedBy: User \cup {None}, deletedBy: User \cup {None}]

(* The columns an UPDATE sets; None marks a column it leaves alone.        *)
Updates == [start: Day \cup {None}, end: Day \cup {None},
            status: Status \cup {None}, approvedBy: User \cup {None}]

Idle == [op |-> "idle"]

Request ==
  {Idle}
    \cup [op: {"insert"}, row: Row]
    \cup [op: {"update"}, actor: User, leave: LeaveId, set: Updates]
    \cup [op: {"delete"}, actor: User, leave: LeaveId]

TypeOK ==
  /\ DOMAIN leaves \subseteq LeaveId
  /\ leaves \in [DOMAIN leaves -> Row]
  /\ req \in [Req -> Request]

-----------------------------------------------------------------------------
(* Queries.                                                                *)

Live == {l \in DOMAIN leaves : leaves[l].deletedBy = None}

Overlap(s1, e1, s2, e2) == s1 <= e2 /\ e1 >= s2

(* crud has_overlapping_leave: any live leave of the user, whatever its    *)
(* status.                                                                 *)
HasOverlappingLeave(t, u, s, e) ==
  \E l \in Live : /\ leaves[l].tenant = t
                  /\ leaves[l].user = u
                  /\ Overlap(leaves[l].start, leaves[l].end, s, e)

(* _can_access_leave, after the tenant scope of get_leave.                 *)
CanAccess(a, row) ==
  /\ row.tenant = TenantOf[a]
  /\ \/ RoleOf[a] = "TENANT_ADMIN"
     \/ row.user = a
     \/ RoleOf[a] = "MENTOR" /\ RoleOf[row.user] = "INTERN"

(* Lists: GET /leaves/ and GET /leaves/{id}/, for a user that may be asked *)
(* for; the filters by status, type and dates narrow every list alike.     *)
Asked(column, value) == value = None \/ column = value

(* Mutant: the leaves of the mentor itself are forgotten.                  *)
MutantMentorUsers(a) ==
  {u \in User : TenantOf[u] = TenantOf[a] /\ RoleOf[u] = "INTERN"}

(* _get_mentor_leave_user_ids: the mentor and the interns of its tenant.   *)
MentorUsers(a) ==
  {a} \cup {u \in User : TenantOf[u] = TenantOf[a] /\ RoleOf[u] = "INTERN"}

Listed(a, u) ==
  {l \in Live :
     /\ leaves[l].tenant = TenantOf[a]
     /\ Asked(leaves[l].user, IF RoleOf[a] = "INTERN" /\ u = None THEN a ELSE u)
     /\ RoleOf[a] = "MENTOR" => leaves[l].user \in MentorUsers(a)}

CanGet(a, l) == l \in Live /\ CanAccess(a, leaves[l])

(* Mutant: the rules for mentors are forgotten.                            *)
MutantMayDecide(a, row) == RoleOf[a] # "INTERN" /\ row.status = "pending"

(* Who may write status APPROVED or REJECTED on a row as it was read.      *)
MayDecide(a, row) ==
  /\ RoleOf[a] # "INTERN"
  /\ row.status = "pending"
  /\ RoleOf[a] = "MENTOR" => row.user # a /\ RoleOf[row.user] = "INTERN"

MayCancel(a, row) ==
  /\ row.status = "pending"
  /\ RoleOf[a] = "INTERN" => row.user = a

(* Mutant: the final else, which refuses PENDING, is missing.              *)
MutantMaySetStatus(a, row, st) ==
  \/ st \in {None, "pending"}
  \/ st = "cancelled" /\ MayCancel(a, row)
  \/ st \in Decision /\ MayDecide(a, row)

MaySetStatus(a, row, st) ==
  \/ st = None
  \/ st = "cancelled" /\ MayCancel(a, row)
  \/ st \in Decision /\ MayDecide(a, row)

Given(new, old) == IF new = None THEN old ELSE new

(* SQLAlchemy puts a column in the UPDATE only when the value assigned     *)
(* differs from the value the session loaded.                              *)
Changed(new, loaded) == IF new = loaded THEN None ELSE new

(* Mutant: approved_by is recorded for an approval only.                   *)
MutantUpdateStatement(a, row, s, e, st) ==
  [start |-> Changed(s, row.start),
   end |-> Changed(e, row.end),
   status |-> Changed(st, row.status),
   approvedBy |-> IF st = "approved" THEN Changed(a, row.approvedBy) ELSE None]

(* The UPDATE statement that update_leave will flush for a row it loaded.  *)
UpdateStatement(a, row, s, e, st) ==
  [start |-> Changed(s, row.start),
   end |-> Changed(e, row.end),
   status |-> Changed(st, row.status),
   approvedBy |-> IF st \in Decision THEN Changed(a, row.approvedBy) ELSE None]

(* Mutant: a column that was not sent is overwritten with NULL.            *)
MutantApply(set, row) ==
  [row EXCEPT !.start = set.start, !.end = set.end, !.status = set.status]

Apply(set, row) ==
  [row EXCEPT !.start = Given(set.start, row.start),
              !.end = Given(set.end, row.end),
              !.status = Given(set.status, row.status),
              !.approvedBy = Given(set.approvedBy, row.approvedBy)]

-----------------------------------------------------------------------------
(* Requests that create, update and delete a leave.                        *)

Init ==
  /\ leaves = [l \in {} |-> Idle]
  /\ req = [r \in Req |-> Idle]

Start(r, request) ==
  /\ req[r] = Idle
  /\ req' = [req EXCEPT ![r] = request]
  /\ UNCHANGED leaves

Finish(r) == req' = [req EXCEPT ![r] = Idle]

(* A tenant admin names an intern or mentor of the tenant (router and      *)
(* service refuse anything else); others create for themselves.            *)
IsTarget(a, u) ==
  IF RoleOf[a] = "TENANT_ADMIN"
    THEN TenantOf[u] = TenantOf[a] /\ RoleOf[u] \in {"INTERN", "MENTOR"}
    ELSE u = a

NewRow(a, u, s, e) ==
  [tenant |-> TenantOf[a], user |-> u, start |-> s, end |-> e,
   status |-> IF RoleOf[a] = "TENANT_ADMIN" THEN "approved" ELSE "pending",
   approvedBy |-> IF RoleOf[a] = "TENANT_ADMIN" THEN a ELSE None,
   deletedBy |-> None]

CreateLeave(r, a, u, s, e) ==
  /\ s <= e
  /\ IsTarget(a, u)
  /\ ~HasOverlappingLeave(TenantOf[a], u, s, e)
  /\ Start(r, [op |-> "insert", row |-> NewRow(a, u, s, e)])

InsertLeave(r, l) ==
  /\ req[r].op = "insert"
  /\ l \notin DOMAIN leaves
  /\ leaves' = [i \in DOMAIN leaves \cup {l} |->
                  IF i = l THEN req[r].row ELSE leaves[i]]
  /\ Finish(r)

(* Mutant: dates are compared only when the body has both (the schema's    *)
(* check without the service's).                                           *)
MutantUpdateLeave(r, a, l, s, e, st) ==
  /\ l \in Live
  /\ CanAccess(a, leaves[l])
  /\ (s # None /\ e # None) => s <= e
  /\ MaySetStatus(a, leaves[l], st)
  /\ Start(r, [op |-> "update", actor |-> a, leave |-> l,
               set |-> UpdateStatement(a, leaves[l], s, e, st)])

(* Dates are compared after filling the missing one from the row read; no  *)
(* overlap check is made here.                                             *)
UpdateLeave(r, a, l, s, e, st) ==
  /\ l \in Live
  /\ CanAccess(a, leaves[l])
  /\ Given(s, leaves[l].start) <= Given(e, leaves[l].end)
  /\ MaySetStatus(a, leaves[l], st)
  /\ Start(r, [op |-> "update", actor |-> a, leave |-> l,
               set |-> UpdateStatement(a, leaves[l], s, e, st)])

(* crud update_leave selects the row again before it writes, but the       *)
(* session keeps the attributes it loaded first, and the UPDATE filters on *)
(* the id alone.                                                           *)
FlushUpdate(r) ==
  /\ req[r].op = "update"
  /\ LET l == req[r].leave IN
       leaves' = [leaves EXCEPT ![l] = Apply(req[r].set, leaves[l])]
  /\ Finish(r)

DeleteLeave(r, a, l) ==
  /\ RoleOf[a] = "TENANT_ADMIN"
  /\ l \in Live
  /\ leaves[l].tenant = TenantOf[a]
  /\ Start(r, [op |-> "delete", actor |-> a, leave |-> l])

SoftDeleteLeave(r) ==
  /\ req[r].op = "delete"
  /\ leaves' = [leaves EXCEPT ![req[r].leave].deletedBy = req[r].actor]
  /\ Finish(r)

(* The second select missed the row: another request had deleted it and    *)
(* committed.  Nothing is written and the request still answers.           *)
SkipDeleted(r) ==
  /\ req[r].op \in {"update", "delete"}
  /\ req[r].leave \notin Live
  /\ Finish(r)
  /\ UNCHANGED leaves

(* The connection drops, the commit fails or the process dies: rollback.   *)
Rollback(r) ==
  /\ req[r] # Idle
  /\ Finish(r)
  /\ UNCHANGED leaves

Check(r) ==
  \E a \in User :
    \/ \E u \in User, s \in Day, e \in Day : CreateLeave(r, a, u, s, e)
    \/ \E l \in LeaveId, s \in Day \cup {None}, e \in Day \cup {None},
          st \in Status \cup {None} : UpdateLeave(r, a, l, s, e, st)
    \/ \E l \in LeaveId : DeleteLeave(r, a, l)

Write(r) ==
  \/ \E l \in LeaveId : InsertLeave(r, l)
  \/ FlushUpdate(r)
  \/ SoftDeleteLeave(r)
  \/ SkipDeleted(r)
  \/ Rollback(r)

Next == \E r \in Req : Check(r) \/ Write(r)

Spec == Init /\ [][Next]_vars

-----------------------------------------------------------------------------
(* Properties.                                                             *)

(* An entitled approver is a tenant admin of the leave's tenant other than *)
(* the requester, or a mentor of it when the requester is an intern.       *)
Entitled(a, row) ==
  /\ a \in User
  /\ a # row.user
  /\ TenantOf[a] = row.tenant
  /\ \/ RoleOf[a] = "TENANT_ADMIN"
     \/ RoleOf[a] = "MENTOR" /\ RoleOf[row.user] = "INTERN"

RowAttributed(row) ==
  /\ row.status \in Decision => Entitled(row.approvedBy, row)
  /\ row.status = "pending" => row.approvedBy = None

(* However requests interleave, an approved or rejected leave names an     *)
(* approver who was entitled to decide it, never the requester, and a      *)
(* pending leave names none.                                               *)
ApprovalAttributed == \A l \in DOMAIN leaves : RowAttributed(leaves[l])

(* The list finds by query what GET by id admits by a rule on the row and  *)
(* its user, whatever user it is asked for, unless an intern asks for      *)
(* somebody else: its query is user_id or its own id (leave_service.py:117)*)
(* and shows the leaves of whomever it names.                              *)
ListedIsGot ==
  \A a \in User, u \in User \cup {None} :
    (RoleOf[a] = "INTERN" => u \in {None, a}) =>
      Listed(a, u) =
        {l \in DOMAIN leaves : CanGet(a, l) /\ Asked(leaves[l].user, u)}

(* The status and the approver of a decision come from one request: no     *)
(* interleaving of column-wise updates pairs one person's verdict with     *)
(* another's name.                                                         *)
DecisionKeepsItsApprover ==
  [][\A l \in DOMAIN leaves :
       (leaves'[l].status \in Decision /\ leaves'[l].status # leaves[l].status)
         => \E r \in Req : /\ req[r].op = "update"
                           /\ req[r].leave = l
                           /\ req[r].set.status = leaves'[l].status
                           /\ leaves'[l].approvedBy = req[r].actor]_vars

(* A leave that was decided or cancelled never returns to pending.         *)
NeverPendingAgain ==
  [][\A l \in DOMAIN leaves :
       leaves[l].status # "pending" => leaves'[l].status # "pending"]_vars

(* Properties of requests that run one after the other.                    *)

(* Only a pending leave can be approved, rejected or cancelled: the first  *)
(* verdict stands.                                                         *)
DecisionStands ==
  \A l \in DOMAIN leaves :
    leaves[l].status # "pending" => leaves'[l].status = leaves[l].status

(* No leave ends before it starts, although an update may send one of the  *)
(* two dates only.                                                         *)
DatesOrdered == \A l \in DOMAIN leaves : leaves[l].start <= leaves[l].end

(* Claims of the code's comments that its behaviour refutes.               *)

(* "Only PENDING leave can be approved or rejected"                        *)
(* (leave_service.py:324).                                                 *)
DecisionIsFinal == [][DecisionStands]_vars

(* "Overlapping leave for same user is rejected" (leave_service.py:1).     *)
NoOverlap ==
  \A l, m \in Live :
    (l # m /\ leaves[l].user = leaves[m].user)
      => ~Overlap(leaves[l].start, leaves[l].end, leaves[m].start, leaves[m].end)
=============================================================================
