---------------------------- MODULE LeavesProofs ----------------------------
(***************************************************************************)
(* Proofs about Leaves, for any number of users, leaves and concurrent     *)
(* requests.  Nothing is assumed about the order in which requests commit: *)
(* an update may write to a row that changed, or was deleted, since it was *)
(* read.  The last section is about requests that run one after the other, *)
(* and ties its result to the behaviours of MCLeaves.                      *)
(***************************************************************************)
EXTENDS MCLeaves, TLAPS

(* Leaves belong to interns and mentors, of the leave's own tenant: an     *)
(* admin creates them for others only, so an admin who decides is never    *)
(* the requester.                                                          *)
OwnedByNonAdmin(row) ==
  /\ RoleOf[row.user] \in {"INTERN", "MENTOR"}
  /\ row.tenant = TenantOf[row.user]

(* An update in flight carries a verdict together with its author, who is  *)
(* entitled to it on the row as it is now, and no author otherwise.        *)
SetAttributed(rq) ==
  /\ rq.set.status # "pending"
  /\ rq.set.status \in Decision
       => rq.set.approvedBy = rq.actor /\ Entitled(rq.actor, leaves[rq.leave])
  /\ rq.set.status \notin Decision => rq.set.approvedBy = None

InFlightAttributed(rq) ==
  /\ rq.op = "insert" => RowAttributed(rq.row) /\ OwnedByNonAdmin(rq.row)
  /\ rq.op = "update" => rq.leave \in DOMAIN leaves /\ SetAttributed(rq)
  /\ rq.op = "delete" => rq.leave \in DOMAIN leaves

(* The inductive invariant.                                                *)
IInv ==
  /\ TypeOK
  /\ ApprovalAttributed
  /\ \A l \in DOMAIN leaves : OwnedByNonAdmin(leaves[l])
  /\ \A r \in Req : InFlightAttributed(req[r])

-----------------------------------------------------------------------------
(* What an UPDATE leaves alone and what it may set.                        *)
LEMMA ApplyRow ==
  ASSUME NEW row \in Row, NEW set \in Updates
  PROVE  /\ Apply(set, row) \in Row
         /\ Apply(set, row).user = row.user
         /\ Apply(set, row).tenant = row.tenant
         /\ Apply(set, row).start = Given(set.start, row.start)
         /\ Apply(set, row).end = Given(set.end, row.end)
         /\ Apply(set, row).status = Given(set.status, row.status)
         /\ Apply(set, row).approvedBy = Given(set.approvedBy, row.approvedBy)
BY ConstantsAssumption DEF Apply, Given, Row, Updates

(* The statement an accepted update prepares is attributed to its actor.   *)
LEMMA StatementAttributed ==
  ASSUME NEW a \in User, NEW row \in Row, OwnedByNonAdmin(row),
         RowAttributed(row), CanAccess(a, row),
         NEW s \in Day \cup {None}, NEW e \in Day \cup {None},
         NEW st \in Status \cup {None}, MaySetStatus(a, row, st),
         NEW set, set = UpdateStatement(a, row, s, e, st)
  PROVE  /\ set \in Updates
         /\ set.status # "pending"
         /\ set.status \in Decision => set.approvedBy = a /\ Entitled(a, row)
         /\ set.status \notin Decision => set.approvedBy = None
<1>1. set \in Updates
  BY DEF UpdateStatement, Changed, Updates
<1>2. CASE st \in Decision
  <2>1. row.status = "pending" /\ row.approvedBy = None /\ a # None
    BY <1>2, ConstantsAssumption DEF MaySetStatus, MayDecide, MayCancel, Decision,
       RowAttributed, Status
  <2>2. set.status = st /\ set.approvedBy = a
    BY <1>2, <2>1 DEF UpdateStatement, Changed, Decision
  <2>3. MayDecide(a, row)
    BY <1>2, ConstantsAssumption DEF MaySetStatus, Decision, Status
  <2>4. Entitled(a, row)
    BY <2>3, ConstantsAssumption
       DEF MayDecide, Entitled, CanAccess, OwnedByNonAdmin, Role, Row
  <2> QED
    BY <1>1, <1>2, <2>2, <2>4 DEF Decision
<1>3. CASE st \notin Decision
  <2>1. set.approvedBy = None /\ set.status \in {None, "cancelled"}
    BY <1>3 DEF UpdateStatement, Changed, MaySetStatus
  <2> QED
    BY <1>1, <2>1, ConstantsAssumption DEF Decision, Status
<1> QED
  BY <1>2, <1>3

-----------------------------------------------------------------------------
LEMMA InitInv == Init => IInv
BY DEF Init, IInv, TypeOK, ApprovalAttributed, InFlightAttributed, Idle, Request

(* A step that starts a request, given that the request is well formed.    *)
LEMMA StartKeepsInv ==
  ASSUME IInv, NEW r \in Req, NEW rq \in Request, InFlightAttributed(rq),
         Start(r, rq)
  PROVE  IInv'
<1>1. leaves' = leaves /\ req' = [req EXCEPT ![r] = rq]
  BY DEF Start
<1>2. TypeOK'
  BY <1>1 DEF IInv, TypeOK
<1>3. \A q \in Req : InFlightAttributed(req'[q])
  BY <1>1 DEF IInv, TypeOK
<1> QED
  BY <1>1, <1>2, <1>3
     DEF IInv, ApprovalAttributed, InFlightAttributed, SetAttributed

(* A step that ends a request and leaves the owner and the tenant of every *)
(* row alone, given that the rows it leaves are well formed.               *)
LEMMA FinishKeepsInv ==
  ASSUME IInv, NEW r \in Req, Finish(r),
         DOMAIN leaves \subseteq DOMAIN leaves', DOMAIN leaves' \subseteq LeaveId,
         leaves' \in [DOMAIN leaves' -> Row],
         \A l \in DOMAIN leaves' :
           RowAttributed(leaves'[l]) /\ OwnedByNonAdmin(leaves'[l]),
         \A l \in DOMAIN leaves : /\ leaves'[l].user = leaves[l].user
                                  /\ leaves'[l].tenant = leaves[l].tenant
  PROVE  IInv'
<1>1. req' = [req EXCEPT ![r] = Idle]
  BY DEF Finish
<1>2. TypeOK'
  BY <1>1 DEF IInv, TypeOK, Request
<1>3. ASSUME NEW q \in Req
      PROVE  InFlightAttributed(req[q])'
  <2>1. CASE q = r
    BY <1>1, <2>1 DEF IInv, TypeOK, InFlightAttributed, Idle
  <2>2. CASE q # r
    <3>1. req'[q] = req[q] /\ InFlightAttributed(req[q])
      BY <1>1, <2>2 DEF IInv, TypeOK
    <3>2. CASE req[q].op = "update"
      BY <3>1, <3>2 DEF InFlightAttributed, SetAttributed, Entitled
    <3>3. CASE req[q].op # "update"
      BY <3>1, <3>3 DEF InFlightAttributed
    <3> QED
      BY <3>2, <3>3
  <2> QED
    BY <2>1, <2>2
<1> QED
  BY <1>2, <1>3 DEF IInv, ApprovalAttributed

LEMMA CheckKeepsInv ==
  ASSUME IInv, NEW r \in Req, Check(r)
  PROVE  IInv'
<1>1. PICK a \in User :
        \/ \E u \in User, s \in Day, e \in Day : CreateLeave(r, a, u, s, e)
        \/ \E l \in LeaveId, s \in Day \cup {None}, e \in Day \cup {None},
              st \in Status \cup {None} : UpdateLeave(r, a, l, s, e, st)
        \/ \E l \in LeaveId : DeleteLeave(r, a, l)
  BY DEF Check
<1>2. ASSUME NEW u \in User, NEW s \in Day, NEW e \in Day,
             CreateLeave(r, a, u, s, e)
      PROVE  IInv'
  <2> DEFINE row == NewRow(a, u, s, e)
             rq == [op |-> "insert", row |-> row]
  <2>1. row \in Row /\ rq \in Request
    BY ConstantsAssumption DEF NewRow, Row, Status, Request
  <2>2. RowAttributed(row) /\ OwnedByNonAdmin(row)
    BY <1>2, ConstantsAssumption
       DEF CreateLeave, IsTarget, NewRow, RowAttributed, OwnedByNonAdmin,
           Entitled, Decision, Role
  <2>3. InFlightAttributed(rq)
    BY <2>2 DEF InFlightAttributed
  <2>4. Start(r, rq)
    BY <1>2 DEF CreateLeave
  <2> QED
    BY <2>1, <2>3, <2>4, StartKeepsInv
<1>3. ASSUME NEW l \in LeaveId, NEW s \in Day \cup {None},
             NEW e \in Day \cup {None}, NEW st \in Status \cup {None},
             UpdateLeave(r, a, l, s, e, st)
      PROVE  IInv'
  <2> DEFINE set == UpdateStatement(a, leaves[l], s, e, st)
             rq == [op |-> "update", actor |-> a, leave |-> l, set |-> set]
  <2>1. /\ l \in DOMAIN leaves
        /\ leaves[l] \in Row
        /\ RowAttributed(leaves[l])
        /\ OwnedByNonAdmin(leaves[l])
    BY <1>3 DEF UpdateLeave, Live, IInv, TypeOK, ApprovalAttributed
  <2>2. CanAccess(a, leaves[l]) /\ MaySetStatus(a, leaves[l], st) /\ Start(r, rq)
    BY <1>3 DEF UpdateLeave
  <2>3. /\ set \in Updates
        /\ set.status # "pending"
        /\ set.status \in Decision => set.approvedBy = a /\ Entitled(a, leaves[l])
        /\ set.status \notin Decision => set.approvedBy = None
    BY <2>1, <2>2, StatementAttributed
  <2> HIDE DEF set
  <2>4. rq \in Request
    BY <2>3 DEF Request
  <2>5. InFlightAttributed(rq)
    BY <2>1, <2>3 DEF InFlightAttributed, SetAttributed
  <2> QED
    BY <2>2, <2>4, <2>5, StartKeepsInv
<1>4. ASSUME NEW l \in LeaveId, DeleteLeave(r, a, l)
      PROVE  IInv'
  <2> DEFINE rq == [op |-> "delete", actor |-> a, leave |-> l]
  <2>1. rq \in Request /\ InFlightAttributed(rq) /\ Start(r, rq)
    BY <1>4 DEF DeleteLeave, Live, Request, InFlightAttributed
  <2> QED
    BY <2>1, StartKeepsInv
<1> QED
  BY <1>1, <1>2, <1>3, <1>4

LEMMA WriteKeepsInv ==
  ASSUME IInv, NEW r \in Req, Write(r)
  PROVE  IInv'
<1> USE DEF IInv, TypeOK, ApprovalAttributed
<1>0. req[r] \in Request /\ InFlightAttributed(req[r])
  OBVIOUS
<1>1. ASSUME NEW l \in LeaveId, InsertLeave(r, l)
      PROVE  IInv'
  <2>1. /\ req[r].row \in Row
        /\ RowAttributed(req[r].row)
        /\ OwnedByNonAdmin(req[r].row)
    BY <1>0, <1>1 DEF InsertLeave, InFlightAttributed, Request, Idle
  <2>2. /\ DOMAIN leaves' = DOMAIN leaves \cup {l}
        /\ leaves'[l] = req[r].row
        /\ \A i \in DOMAIN leaves : leaves'[i] = leaves[i]
        /\ leaves' \in [DOMAIN leaves' -> Row]
    BY <1>1, <2>1 DEF InsertLeave
  <2>3. Finish(r)
    BY <1>1 DEF InsertLeave
  <2>4. \A i \in DOMAIN leaves' :
           RowAttributed(leaves'[i]) /\ OwnedByNonAdmin(leaves'[i])
    BY <2>1, <2>2
  <2> QED
    BY <2>2, <2>3, <2>4, FinishKeepsInv
<1>2. CASE FlushUpdate(r)
  <2> DEFINE l == req[r].leave
             set == req[r].set
  <2>1. /\ l \in DOMAIN leaves
        /\ set \in Updates
        /\ SetAttributed(req[r])
        /\ req[r].actor \in User
    BY <1>0, <1>2 DEF FlushUpdate, InFlightAttributed, Request, Idle
  <2>2. leaves' = [leaves EXCEPT ![l] = Apply(set, leaves[l])] /\ Finish(r)
    BY <1>2 DEF FlushUpdate
  <2>3. /\ Apply(set, leaves[l]) \in Row
        /\ Apply(set, leaves[l]).user = leaves[l].user
        /\ Apply(set, leaves[l]).tenant = leaves[l].tenant
        /\ Apply(set, leaves[l]).status = Given(set.status, leaves[l].status)
        /\ Apply(set, leaves[l]).approvedBy
             = Given(set.approvedBy, leaves[l].approvedBy)
    BY <2>1, ApplyRow
  <2>4. RowAttributed(Apply(set, leaves[l]))
    <3>1. RowAttributed(leaves[l]) /\ leaves[l] \in Row
      BY <2>1
    <3>2. CASE set.status \in Decision
      BY <2>1, <2>3, <3>1, <3>2, ConstantsAssumption
         DEF SetAttributed, RowAttributed, Given, Entitled, Decision, Status
    <3>3. CASE set.status \notin Decision
      BY <2>1, <2>3, <3>1, <3>3, ConstantsAssumption
         DEF SetAttributed, RowAttributed, Given, Entitled, Decision, Status
    <3> QED
      BY <3>2, <3>3
  <2>5. OwnedByNonAdmin(Apply(set, leaves[l]))
    BY <2>1, <2>3 DEF OwnedByNonAdmin
  <2>6. /\ DOMAIN leaves' = DOMAIN leaves
        /\ leaves'[l] = Apply(set, leaves[l])
        /\ \A i \in DOMAIN leaves : i # l => leaves'[i] = leaves[i]
        /\ leaves' \in [DOMAIN leaves' -> Row]
    BY <2>1, <2>2, <2>3
  <2> HIDE DEF set, l
  <2>7. \A i \in DOMAIN leaves' :
           RowAttributed(leaves'[i]) /\ OwnedByNonAdmin(leaves'[i])
    BY <2>4, <2>5, <2>6
  <2>8. \A i \in DOMAIN leaves : /\ leaves'[i].user = leaves[i].user
                                 /\ leaves'[i].tenant = leaves[i].tenant
    BY <2>3, <2>6
  <2> QED
    BY <2>2, <2>6, <2>7, <2>8, FinishKeepsInv
<1>3. CASE SoftDeleteLeave(r)
  <2> DEFINE l == req[r].leave
  <2>1. l \in DOMAIN leaves /\ req[r].actor \in User
    BY <1>0, <1>3 DEF SoftDeleteLeave, InFlightAttributed, Request, Idle
  <2>2. leaves' = [leaves EXCEPT ![l].deletedBy = req[r].actor] /\ Finish(r)
    BY <1>3 DEF SoftDeleteLeave
  <2>3. /\ DOMAIN leaves' = DOMAIN leaves
        /\ leaves' \in [DOMAIN leaves' -> Row]
        /\ \A i \in DOMAIN leaves :
             /\ leaves'[i].user = leaves[i].user
             /\ leaves'[i].tenant = leaves[i].tenant
             /\ leaves'[i].status = leaves[i].status
             /\ leaves'[i].approvedBy = leaves[i].approvedBy
    BY <2>1, <2>2 DEF Row
  <2>4. \A i \in DOMAIN leaves' :
           RowAttributed(leaves'[i]) /\ OwnedByNonAdmin(leaves'[i])
    BY <2>3 DEF RowAttributed, OwnedByNonAdmin, Entitled
  <2> QED
    BY <2>2, <2>3, <2>4, FinishKeepsInv
<1>4. CASE SkipDeleted(r)
  BY <1>4, FinishKeepsInv DEF SkipDeleted
<1>5. CASE Rollback(r)
  BY <1>5, FinishKeepsInv DEF Rollback
<1> QED
  BY <1>1, <1>2, <1>3, <1>4, <1>5 DEF Write

LEMMA NextKeepsInv == IInv /\ [Next]_vars => IInv'
<1> SUFFICES ASSUME IInv, [Next]_vars PROVE IInv'
  OBVIOUS
<1>1. CASE Next
  BY <1>1, CheckKeepsInv, WriteKeepsInv DEF Next
<1>2. CASE UNCHANGED vars
  BY <1>2 DEF vars, IInv, TypeOK, ApprovalAttributed, InFlightAttributed,
     SetAttributed
<1> QED
  BY <1>1, <1>2

LEMMA InvHolds == Spec => []IInv
BY InitInv, NextKeepsInv, PTL DEF Spec

-----------------------------------------------------------------------------
(* Every row and every request in flight has its type.                     *)
THEOREM LeavesTypeCorrect == Spec => []TypeOK
BY InvHolds, PTL DEF IInv

(* An approved or rejected leave names an entitled approver other than its *)
(* requester, whatever the number and the interleaving of requests         *)
(* (update_leave, create_leave).                                           *)
THEOREM ApprovalsAreAttributed == Spec => []ApprovalAttributed
BY InvHolds, PTL DEF IInv

(* The list of leaves shows what GET by id shows (list_leaves,             *)
(* get_leave_by_id), unless an intern asks for the leaves of another user, *)
(* which list_leaves grants and get_leave_by_id refuses: ListedIsGot says  *)
(* nothing of that request.  The two rules for mentors agree because a     *)
(* leave is always of its user's tenant.                                   *)
THEOREM LeavesListedAreGot == Spec => []ListedIsGot
<1>1. IInv => ListedIsGot
  <2> SUFFICES ASSUME IInv, NEW a \in User, NEW u \in User \cup {None},
                      RoleOf[a] = "INTERN" => u \in {None, a}
               PROVE  \A l \in DOMAIN leaves :
                        l \in Listed(a, u)
                          <=> CanGet(a, l) /\ Asked(leaves[l].user, u)
    BY DEF ListedIsGot, Listed, Live
  <2>1. RoleOf[a] \in Role
    BY ConstantsAssumption
  <2> TAKE l \in DOMAIN leaves
  <2>2. /\ leaves[l].user \in User
        /\ OwnedByNonAdmin(leaves[l])
    BY DEF IInv, TypeOK, Row
  <2>3. CASE RoleOf[a] = "INTERN"
    BY <2>2, <2>3, ConstantsAssumption
       DEF Listed, CanGet, CanAccess, Asked, OwnedByNonAdmin
  <2>4. CASE RoleOf[a] = "MENTOR"
    BY <2>2, <2>4 DEF Listed, CanGet, CanAccess, Asked, MentorUsers,
       OwnedByNonAdmin
  <2>5. CASE RoleOf[a] = "TENANT_ADMIN"
    BY <2>5 DEF Listed, CanGet, CanAccess, Asked
  <2> QED
    BY <2>1, <2>3, <2>4, <2>5 DEF Role
<1> QED
  BY <1>1, InvHolds, PTL

-----------------------------------------------------------------------------
(* Only the flush of an update changes the status of an existing leave, to *)
(* the status and the approver that the update carries.                    *)
LEMMA OnlyFlushDecides ==
  ASSUME IInv, [Next]_vars, NEW l \in DOMAIN leaves,
         leaves'[l].status # leaves[l].status
  PROVE  \E r \in Req :
           /\ req[r].op = "update"
           /\ req[r].leave = l
           /\ SetAttributed(req[r])
           /\ req[r].set.status # None
           /\ leaves'[l].status = req[r].set.status
           /\ leaves'[l].approvedBy
                = Given(req[r].set.approvedBy, leaves[l].approvedBy)
<1> USE DEF IInv, TypeOK
<1>1. PICK r \in Req : Check(r) \/ Write(r)
  BY DEF Next, vars
<1>2. CASE Check(r)
  BY <1>2 DEF Check, CreateLeave, UpdateLeave, DeleteLeave, Start
<1>3. ASSUME NEW i \in LeaveId, InsertLeave(r, i)
      PROVE  FALSE
  BY <1>3 DEF InsertLeave
<1>4. CASE FlushUpdate(r)
  <2> DEFINE m == req[r].leave
             set == req[r].set
  <2>1. /\ m \in DOMAIN leaves
        /\ set \in Updates
        /\ SetAttributed(req[r])
        /\ req[r].op = "update"
    BY <1>4 DEF FlushUpdate, InFlightAttributed, Request, Idle
  <2>2. leaves' = [leaves EXCEPT ![m] = Apply(set, leaves[m])]
    BY <1>4 DEF FlushUpdate
  <2>3. /\ Apply(set, leaves[m]).status = Given(set.status, leaves[m].status)
        /\ Apply(set, leaves[m]).approvedBy
             = Given(set.approvedBy, leaves[m].approvedBy)
    BY <2>1, ApplyRow
  <2> HIDE DEF set
  <2>4. l = m
    BY <2>1, <2>2
  <2>5. leaves'[l] = Apply(set, leaves[m])
    BY <2>1, <2>2, <2>4
  <2>6. leaves'[l].status = set.status /\ set.status # None
    BY <2>3, <2>4, <2>5 DEF Given
  <2> QED
    BY <2>1, <2>3, <2>4, <2>5, <2>6 DEF set
<1>5. CASE SoftDeleteLeave(r)
  <2> DEFINE m == req[r].leave
  <2>1. m \in DOMAIN leaves
    BY <1>5 DEF SoftDeleteLeave, InFlightAttributed, Request, Idle
  <2>2. leaves' = [leaves EXCEPT ![m].deletedBy = req[r].actor]
    BY <1>5 DEF SoftDeleteLeave
  <2>3. leaves'[l].status = leaves[l].status
    BY <2>1, <2>2 DEF Row
  <2> QED
    BY <2>3
<1>6. CASE SkipDeleted(r) \/ Rollback(r)
  BY <1>6 DEF SkipDeleted, Rollback
<1> QED
  BY <1>1, <1>2, <1>3, <1>4, <1>5, <1>6 DEF Write

(* A verdict and the name beside it come from one request (update_leave).  *)
THEOREM VerdictKeepsItsAuthor == Spec => DecisionKeepsItsApprover
<1>1. ASSUME IInv, [Next]_vars, NEW l \in DOMAIN leaves,
             leaves'[l].status \in Decision, leaves'[l].status # leaves[l].status
      PROVE  \E r \in Req : /\ req[r].op = "update"
                            /\ req[r].leave = l
                            /\ req[r].set.status = leaves'[l].status
                            /\ leaves'[l].approvedBy = req[r].actor
  BY <1>1, OnlyFlushDecides, ConstantsAssumption
     DEF SetAttributed, Given, Entitled
<1>2. ASSUME IInv, [Next]_vars
      PROVE  [\A l \in DOMAIN leaves :
                (leaves'[l].status \in Decision
                   /\ leaves'[l].status # leaves[l].status)
                  => \E r \in Req : /\ req[r].op = "update"
                                    /\ req[r].leave = l
                                    /\ req[r].set.status = leaves'[l].status
                                    /\ leaves'[l].approvedBy = req[r].actor]_vars
  BY <1>1, <1>2
<1> QED
  BY <1>2, InvHolds, PTL DEF Spec, DecisionKeepsItsApprover

(* No leave returns to pending once it left that status (update_leave).    *)
THEOREM PendingIsLeftForGood == Spec => NeverPendingAgain
<1>1. ASSUME IInv, [Next]_vars, NEW l \in DOMAIN leaves,
             leaves[l].status # "pending"
      PROVE  leaves'[l].status # "pending"
  BY <1>1, OnlyFlushDecides DEF SetAttributed
<1>2. ASSUME IInv, [Next]_vars
      PROVE  [\A l \in DOMAIN leaves :
                leaves[l].status # "pending"
                  => leaves'[l].status # "pending"]_vars
  BY <1>1, <1>2
<1> QED
  BY <1>2, InvHolds, PTL DEF Spec, NeverPendingAgain

-----------------------------------------------------------------------------
(* Requests that run one after the other.                                  *)

OneAtATime == \A q, r \in Req : req[q] # Idle /\ req[r] # Idle => q = r

(* A request in flight decided on the table as it is now: it is about to   *)
(* leave ordered dates, and moves the status of a pending leave only.      *)
InFlightCurrent(rq) ==
  /\ rq.op = "insert" => rq.row.start <= rq.row.end
  /\ rq.op = "update" =>
       /\ Given(rq.set.start, leaves[rq.leave].start)
            <= Given(rq.set.end, leaves[rq.leave].end)
       /\ rq.set.status # None => leaves[rq.leave].status = "pending"

SerialInv == DatesOrdered /\ \A r \in Req : InFlightCurrent(req[r])

LEMMA SerialStart ==
  ASSUME IInv, SerialInv, NEW r \in Req, NEW rq, InFlightCurrent(rq), Start(r, rq)
  PROVE  SerialInv'
<1>1. leaves' = leaves /\ req' = [req EXCEPT ![r] = rq]
  BY DEF Start
<1>2. \A q \in Req : req'[q] = IF q = r THEN rq ELSE req[q]
  BY <1>1 DEF IInv, TypeOK
<1> QED
  BY <1>1, <1>2 DEF SerialInv, DatesOrdered, InFlightCurrent

LEMMA SerialCheck ==
  ASSUME IInv, SerialInv, NEW r \in Req, Check(r)
  PROVE  SerialInv'
<1>1. ASSUME NEW a \in User, NEW u \in User, NEW s \in Day, NEW e \in Day,
             CreateLeave(r, a, u, s, e)
      PROVE  SerialInv'
  BY <1>1, SerialStart DEF CreateLeave, NewRow, InFlightCurrent
<1>2. ASSUME NEW a \in User, NEW l \in LeaveId, NEW s \in Day \cup {None},
             NEW e \in Day \cup {None}, NEW st \in Status \cup {None},
             UpdateLeave(r, a, l, s, e, st)
      PROVE  SerialInv'
  <2> DEFINE set == UpdateStatement(a, leaves[l], s, e, st)
             rq == [op |-> "update", actor |-> a, leave |-> l, set |-> set]
  <2>1. /\ Given(set.start, leaves[l].start) = Given(s, leaves[l].start)
        /\ Given(set.end, leaves[l].end) = Given(e, leaves[l].end)
    BY DEF UpdateStatement, Given, Changed
  <2>2. set.status # None => leaves[l].status = "pending"
    BY <1>2 DEF UpdateLeave, UpdateStatement, Changed, MaySetStatus, MayCancel,
       MayDecide
  <2>3. InFlightCurrent(rq) /\ Start(r, rq)
    BY <1>2, <2>1, <2>2 DEF UpdateLeave, InFlightCurrent
  <2> QED
    BY <2>3, SerialStart
<1>3. ASSUME NEW a \in User, NEW l \in LeaveId, DeleteLeave(r, a, l)
      PROVE  SerialInv'
  BY <1>3, SerialStart DEF DeleteLeave, InFlightCurrent
<1> QED
  BY <1>1, <1>2, <1>3 DEF Check

(* A step that ends the only request in flight.                            *)
LEMMA SerialFinish ==
  ASSUME IInv, OneAtATime, NEW r \in Req, req[r] # Idle, Finish(r),
         \A l \in DOMAIN leaves' : leaves'[l].start <= leaves'[l].end
  PROVE  SerialInv'
<1>1. \A q \in Req : req'[q] = Idle
  BY DEF OneAtATime, Finish, IInv, TypeOK
<1> QED
  BY <1>1 DEF SerialInv, DatesOrdered, InFlightCurrent, Idle

LEMMA SerialWrite ==
  ASSUME IInv, SerialInv, OneAtATime, NEW r \in Req, Write(r)
  PROVE  SerialInv'
<1>0. /\ req[r] \in Request /\ InFlightAttributed(req[r]) /\ InFlightCurrent(req[r])
      /\ \A l \in DOMAIN leaves : leaves[l] \in Row /\ leaves[l].start <= leaves[l].end
  BY DEF IInv, TypeOK, SerialInv, DatesOrdered
<1>1. ASSUME NEW l \in LeaveId, InsertLeave(r, l)
      PROVE  SerialInv'
  BY <1>0, <1>1, SerialFinish DEF InsertLeave, InFlightCurrent, Idle
<1>2. CASE FlushUpdate(r)
  <2> DEFINE l == req[r].leave
             row == Apply(req[r].set, leaves[l])
  <2>1. l \in DOMAIN leaves /\ req[r].set \in Updates /\ req[r] # Idle
    BY <1>0, <1>2 DEF FlushUpdate, InFlightAttributed, Request, Idle
  <2>2. row.start <= row.end
    BY <1>0, <1>2, <2>1, ApplyRow DEF FlushUpdate, InFlightCurrent
  <2>3. leaves' = [leaves EXCEPT ![l] = row] /\ Finish(r)
    BY <1>2 DEF FlushUpdate
  <2> HIDE DEF row
  <2>4. \A i \in DOMAIN leaves' : leaves'[i].start <= leaves'[i].end
    BY <1>0, <2>1, <2>2, <2>3
  <2> QED
    BY <2>1, <2>3, <2>4, SerialFinish
<1>3. CASE SoftDeleteLeave(r)
  <2>1. req[r].leave \in DOMAIN leaves /\ req[r] # Idle
    BY <1>0, <1>3 DEF SoftDeleteLeave, InFlightAttributed, Idle
  <2>2. \A i \in DOMAIN leaves' : leaves'[i].start <= leaves'[i].end
    BY <1>0, <1>3, <2>1 DEF SoftDeleteLeave, Row
  <2> QED
    BY <1>3, <2>1, <2>2, SerialFinish DEF SoftDeleteLeave
<1>4. CASE SkipDeleted(r) \/ Rollback(r)
  BY <1>0, <1>4, SerialFinish DEF SkipDeleted, Rollback, Idle
<1> QED
  BY <1>1, <1>2, <1>3, <1>4 DEF Write

LEMMA SerialInvHolds == Spec /\ []OneAtATime => []SerialInv
<1>1. Init => SerialInv
  BY DEF Init, SerialInv, DatesOrdered, InFlightCurrent, Idle
<1>2. IInv /\ OneAtATime /\ SerialInv /\ [Next]_vars => SerialInv'
  <2> SUFFICES ASSUME IInv, OneAtATime, SerialInv, [Next]_vars PROVE SerialInv'
    OBVIOUS
  <2>1. CASE UNCHANGED vars
    BY <2>1 DEF vars, SerialInv, DatesOrdered, InFlightCurrent
  <2> QED
    BY <2>1, SerialCheck, SerialWrite DEF Next
<1> QED
  BY <1>1, <1>2, InvHolds, PTL DEF Spec

(* Requests that run one after the other never leave a leave that ends     *)
(* before it starts, although an update may carry one date only and the    *)
(* other is taken from the row it read (create_leave, update_leave).       *)
THEOREM OneAtATimeDatesOrdered == Spec /\ []OneAtATime => []DatesOrdered
<1>1. SerialInv => DatesOrdered
  BY DEF SerialInv
<1> QED
  BY <1>1, SerialInvHolds, PTL

(* "Only PENDING leave can be approved or rejected"                        *)
(* (leave_service.py:324) is true of requests that run one after the       *)
(* other: what the check and the write of update_leave lack is that        *)
(* nothing runs between them.                                              *)
THEOREM OneAtATimeDecisionStands == Spec /\ []OneAtATime => DecisionIsFinal
<1>1. ASSUME IInv, SerialInv, [Next]_vars, NEW l \in DOMAIN leaves,
             leaves[l].status # "pending"
      PROVE  leaves'[l].status = leaves[l].status
  BY <1>1, OnlyFlushDecides DEF SerialInv, InFlightCurrent
<1>2. ASSUME IInv, SerialInv, [Next]_vars
      PROVE  [DecisionStands]_vars
  BY <1>1, <1>2 DEF DecisionStands
<1> QED
  BY <1>2, InvHolds, SerialInvHolds, PTL DEF Spec, DecisionIsFinal

(* The runs of MCLeaves are behaviours of Leaves, so that every theorem    *)
(* above holds of them; a serial one uses the slot r1 only.                *)
OnlySlot == \A r \in Req \ {r1} : req[r] = Idle

LEMMA RunsAreBehaviours == MCSpec => Spec
<1>1. MCInit => Init
  BY DEF MCInit
<1>2. [MCNext]_mcvars => [Next]_vars
  BY DEF MCNext, Next, mcvars, vars
<1> QED
  BY <1>1, <1>2, PTL DEF MCSpec, Spec

LEMMA SerialRuns == MCSpec /\ serial => []OneAtATime
<1>1. MCInit => OnlySlot
  BY DEF MCInit, Init, OnlySlot
<1>2. IInv /\ serial /\ OnlySlot /\ [MCNext]_mcvars => OnlySlot' /\ serial'
  <2> SUFFICES ASSUME IInv, serial, OnlySlot, [MCNext]_mcvars
               PROVE  OnlySlot' /\ serial'
    OBVIOUS
  <2>1. CASE UNCHANGED mcvars
    BY <2>1 DEF mcvars, vars, OnlySlot, serial
  <2>2. CASE MCNext
    <3>1. mode' = mode /\ \E r \in Req : r = r1 /\ (Check(r) \/ Write(r))
      BY <2>2 DEF MCNext
    <3>2. Check(r1) => \E rq : Start(r1, rq)
      BY DEF Check, CreateLeave, UpdateLeave, DeleteLeave
    <3>3. Write(r1) => Finish(r1)
      BY DEF Write, InsertLeave, FlushUpdate, SoftDeleteLeave, SkipDeleted,
         Rollback
    <3>4. \A r \in Req \ {r1} : req'[r] = req[r]
      BY <3>1, <3>2, <3>3 DEF Start, Finish, IInv, TypeOK
    <3> QED
      BY <3>1, <3>4 DEF OnlySlot, serial
  <2> QED
    BY <2>1, <2>2
<1>3. OnlySlot => OneAtATime
  BY DEF OnlySlot, OneAtATime
<1> QED
  BY <1>1, <1>2, <1>3, RunsAreBehaviours, InvHolds, PTL DEF MCSpec

(* The serial behaviours of the run, of any number of users and leaves.    *)
THEOREM SerialDatesAreOrdered == MCSpec => []SerialDatesOrdered
<1>1. [MCNext]_mcvars => (serial' <=> serial)
  BY DEF MCNext, mcvars, serial
<1>2. serial \/ ~serial
  OBVIOUS
<1> QED
  BY <1>1, <1>2, RunsAreBehaviours, SerialRuns, OneAtATimeDatesOrdered, PTL
     DEF MCSpec, SerialDatesOrdered
=============================================================================
