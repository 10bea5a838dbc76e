----------------------------- MODULE TasksProofs -----------------------------
(***************************************************************************)
(* Proofs about Tasks, for any number of users, tasks and concurrent       *)
(* requests, and without a bound on the log.  The last section is about    *)
(* requests that run one after the other.                                  *)
(***************************************************************************)
EXTENDS Tasks, TLAPS

(* The people of one task, with its log.                                   *)
RowOneTenant(row, h) ==
  /\ TenantOf[row.owner] = row.tenant
  /\ TenantOf[row.assignee] = row.tenant
  /\ row.deletedBy # None => TenantOf[row.deletedBy] = row.tenant
  /\ \A k \in DOMAIN h : TenantOf[h[k].actor] = row.tenant

LastMove(moves) == {k \in moves : \A j \in moves : j <= k}

(* In the order of the commits the log replays to the task.                *)
RowReplays(row, h) ==
  /\ StatusMoved(h) = {} => row.status = "pending"
  /\ StatusMoved(h) # {} =>
       \E k \in LastMove(StatusMoved(h)) : row.status = h[k].newStatus
  /\ PriorityMoved(h) # {} =>
       \E k \in LastMove(PriorityMoved(h)) : row.priority = h[k].newPriority

(* The transaction of a row began before the row was committed.            *)
RowBegan(h) == \A k \in DOMAIN h : h[k].createdAt < k

RowOK(row, h) ==
  RowOneTenant(row, h) /\ RowReplays(row, h) /\ RowBegan(h)

(* An update in flight sets status or priority exactly when its log row    *)
(* moves them, to the value the log row ends at, although both were        *)
(* computed from a task that may have changed since.                       *)
SetMatches(set, e) ==
  /\ set.status = IF StatusMoves(e) THEN e.newStatus ELSE None
  /\ set.priority = IF PriorityMoves(e) THEN e.newPriority ELSE None

InFlightOK(rq) ==
  /\ rq.op = "insert" =>
       /\ rq.row.status = "pending" /\ rq.row.deletedBy = None
       /\ RowOneTenant(rq.row, <<>>)
  /\ rq.op = "begun" =>
       rq.task \in DOMAIN tasks /\ rq.began <= Len(log[rq.task])
  /\ rq.op = "update" =>
       /\ rq.task \in DOMAIN tasks
       /\ rq.entry.createdAt <= Len(log[rq.task])
       /\ SetMatches(rq.set, rq.entry)
       /\ TenantOf[rq.entry.actor] = tasks[rq.task].tenant
       /\ rq.set.assignee # None => TenantOf[rq.set.assignee] = tasks[rq.task].tenant
  /\ rq.op = "delete" =>
       /\ rq.task \in DOMAIN tasks
       /\ TenantOf[rq.actor] = tasks[rq.task].tenant
       /\ RoleOf[rq.actor] = "INTERN" => tasks[rq.task].owner = rq.actor

(* The inductive invariant.                                                *)
IInv ==
  /\ TypeOK
  /\ \A t \in DOMAIN tasks : RowOK(tasks[t], log[t])
  /\ \A r \in Req : InFlightOK(req[r])

-----------------------------------------------------------------------------
(* Statement, log row and their application.                               *)

LEMMA ApplyRow ==
  ASSUME NEW row \in Row, NEW set \in Updates
  PROVE  /\ Apply(set, row) \in Row
         /\ Apply(set, row).tenant = row.tenant
         /\ Apply(set, row).owner = row.owner
         /\ Apply(set, row).deletedBy = row.deletedBy
         /\ Apply(set, row).assignee = Given(set.assignee, row.assignee)
         /\ Apply(set, row).title = Given(set.title, row.title)
         /\ Apply(set, row).status = Given(set.status, row.status)
         /\ Apply(set, row).priority = Given(set.priority, row.priority)
BY DEF Apply, Given, Row, Updates

LEMMA StatementMatches ==
  ASSUME NEW a \in User, NEW row \in Row,
         NEW ti \in Title \cup {None}, NEW s \in User \cup {None},
         NEW st \in Status \cup {None}, NEW pr \in Priority \cup {None},
         NEW began \in Nat
  PROVE  /\ UpdateStatement(row, ti, s, st, pr) \in Updates
         /\ LogEntry(a, row, st, pr, began) \in Entry
         /\ LogEntry(a, row, st, pr, began).actor = a
         /\ LogEntry(a, row, st, pr, began).createdAt = began
         /\ SetMatches(UpdateStatement(row, ti, s, st, pr),
                       LogEntry(a, row, st, pr, began))
         /\ UpdateStatement(row, ti, s, st, pr).assignee \in {None, s}
<1> USE ConstantsAssumption DEF UpdateStatement, LogEntry, Changed, Given
<1>1. UpdateStatement(row, ti, s, st, pr) \in Updates
  BY DEF Updates
<1>2. LogEntry(a, row, st, pr, began) \in Entry
  BY DEF Entry, Row
<1>3. SetMatches(UpdateStatement(row, ti, s, st, pr), LogEntry(a, row, st, pr, began))
  BY DEF SetMatches, StatusMoves, PriorityMoves, Row
<1> QED
  BY <1>1, <1>2, <1>3

(* Appending a row to the log: which moves it adds.                        *)
LEMMA AppendMoves ==
  ASSUME NEW h \in Seq(Entry), NEW e \in Entry
  PROVE  LET g == Append(h, e)
             n == Len(h) + 1 IN
         /\ g \in Seq(Entry) /\ g[n] = e
         /\ \A k \in DOMAIN g : (k \in DOMAIN h /\ g[k] = h[k]) \/ (k = n /\ g[k] = e)
         /\ StatusMoves(e) => n \in LastMove(StatusMoved(g))
         /\ ~StatusMoves(e) => /\ StatusMoved(g) = StatusMoved(h)
                               /\ \A k \in StatusMoved(h) : g[k] = h[k]
         /\ PriorityMoves(e) => n \in LastMove(PriorityMoved(g))
         /\ ~PriorityMoves(e) => /\ PriorityMoved(g) = PriorityMoved(h)
                                 /\ \A k \in PriorityMoved(h) : g[k] = h[k]
<1> DEFINE g == Append(h, e)
           n == Len(h) + 1
<1>1. /\ g \in Seq(Entry) /\ DOMAIN g = 1..n /\ DOMAIN h = 1..(n - 1) /\ n \in Nat \ {0}
      /\ g[n] = e /\ \A k \in DOMAIN h : g[k] = h[k]
  OBVIOUS
<1> HIDE DEF g, n
<1>2. \A k \in DOMAIN g : k = n \/ k \in DOMAIN h
  BY <1>1
<1>3. ASSUME StatusMoves(e)
      PROVE  n \in LastMove(StatusMoved(g))
  BY <1>1, <1>3 DEF StatusMoved, LastMove
<1>4. ASSUME ~StatusMoves(e)
      PROVE  StatusMoved(g) = StatusMoved(h)
  BY <1>1, <1>2, <1>4 DEF StatusMoved
<1>5. ASSUME PriorityMoves(e)
      PROVE  n \in LastMove(PriorityMoved(g))
  BY <1>1, <1>5 DEF PriorityMoved, LastMove
<1>6. ASSUME ~PriorityMoves(e)
      PROVE  PriorityMoved(g) = PriorityMoved(h)
  BY <1>1, <1>2, <1>6 DEF PriorityMoved
<1>7. \A k \in StatusMoved(h) \cup PriorityMoved(h) : g[k] = h[k]
  BY <1>1 DEF StatusMoved, PriorityMoved
<1> QED
  BY <1>1, <1>2, <1>3, <1>4, <1>5, <1>6, <1>7 DEF g, n

(* One update keeps a task and its log in step.                            *)
LEMMA UpdateKeepsRow ==
  ASSUME NEW row \in Row, NEW h \in Seq(Entry), NEW set \in Updates, NEW e \in Entry,
         RowOK(row, h), SetMatches(set, e), TenantOf[e.actor] = row.tenant,
         e.createdAt <= Len(h),
         set.assignee # None => TenantOf[set.assignee] = row.tenant
  PROVE  /\ Logged(e, h) \in Seq(Entry)
         /\ Len(h) <= Len(Logged(e, h))
         /\ RowOK(Apply(set, row), Logged(e, h))
<1> DEFINE g == Append(h, e)
           n == Len(h) + 1
           new == Apply(set, row)
<1>1. /\ new.tenant = row.tenant /\ new.owner = row.owner
      /\ new.deletedBy = row.deletedBy
      /\ new.assignee = Given(set.assignee, row.assignee)
      /\ new.status = IF StatusMoves(e) THEN e.newStatus ELSE row.status
      /\ new.priority = IF PriorityMoves(e) THEN e.newPriority ELSE row.priority
  BY ApplyRow, ConstantsAssumption DEF SetMatches, Given, Entry
<1> HIDE DEF new
<1>2. CASE StatusMoves(e) \/ PriorityMoves(e)
  <2>1. Logged(e, h) = g /\ Len(g) = n /\ Len(h) <= n
    BY <1>2 DEF Logged
  <2>2. /\ g \in Seq(Entry) /\ g[n] = e
        /\ \A k \in DOMAIN g : (k \in DOMAIN h /\ g[k] = h[k]) \/ (k = n /\ g[k] = e)
    BY AppendMoves
  <2>3. RowOneTenant(new, g)
    BY <1>1, <2>2 DEF RowOK, RowOneTenant, Given
  <2>4. RowBegan(g)
    <3>1. e.createdAt < n
      BY DEF Entry
    <3> HIDE DEF g, n
    <3> QED
      BY <2>2, <3>1 DEF RowOK, RowBegan
  <2>5. /\ StatusMoved(g) = {} => new.status = "pending"
        /\ StatusMoved(g) # {} =>
             \E k \in LastMove(StatusMoved(g)) : new.status = g[k].newStatus
    <3>1. CASE StatusMoves(e)
      <4>1. n \in LastMove(StatusMoved(g))
        BY <3>1, AppendMoves
      <4>2. LastMove(StatusMoved(g)) \subseteq StatusMoved(g)
        BY DEF LastMove
      <4> HIDE DEF g, n
      <4> QED
        BY <1>1, <2>2, <3>1, <4>1, <4>2
    <3>2. CASE ~StatusMoves(e)
      <4>1. /\ StatusMoved(g) = StatusMoved(h)
            /\ \A k \in StatusMoved(h) : g[k] = h[k]
            /\ new.status = row.status
        BY <1>1, <3>2, AppendMoves
      <4>2. LastMove(StatusMoved(g)) = LastMove(StatusMoved(h))
        BY <4>1
      <4>3. LastMove(StatusMoved(h)) \subseteq StatusMoved(h)
        BY DEF LastMove
      <4> HIDE DEF g
      <4> QED
        BY <4>1, <4>2, <4>3 DEF RowOK, RowReplays
    <3> QED
      BY <3>1, <3>2
  <2>6. PriorityMoved(g) # {} =>
          \E k \in LastMove(PriorityMoved(g)) : new.priority = g[k].newPriority
    <3>1. CASE PriorityMoves(e)
      <4>1. n \in LastMove(PriorityMoved(g))
        BY <3>1, AppendMoves
      <4> HIDE DEF g, n
      <4> QED
        BY <1>1, <2>2, <3>1, <4>1
    <3>2. CASE ~PriorityMoves(e)
      <4>1. /\ PriorityMoved(g) = PriorityMoved(h)
            /\ \A k \in PriorityMoved(h) : g[k] = h[k]
            /\ new.priority = row.priority
        BY <1>1, <3>2, AppendMoves
      <4>2. LastMove(PriorityMoved(g)) = LastMove(PriorityMoved(h))
        BY <4>1
      <4>3. LastMove(PriorityMoved(h)) \subseteq PriorityMoved(h)
        BY DEF LastMove
      <4> HIDE DEF g
      <4> QED
        BY <4>1, <4>2, <4>3 DEF RowOK, RowReplays
    <3> QED
      BY <3>1, <3>2
  <2> HIDE DEF g, n
  <2> QED
    BY <2>1, <2>2, <2>3, <2>4, <2>5, <2>6 DEF RowOK, RowReplays, new
<1>3. CASE ~(StatusMoves(e) \/ PriorityMoves(e))
  <2>1. Logged(e, h) = h
    BY <1>3 DEF Logged
  <2>2. RowOneTenant(new, h) /\ RowReplays(new, h)
    BY <1>1, <1>3 DEF RowOK, RowOneTenant, RowReplays, Given
  <2> QED
    BY <2>1, <2>2 DEF RowOK, new
<1> QED
  BY <1>2, <1>3

-----------------------------------------------------------------------------
LEMMA InitInv == Init => IInv
BY DEF Init, IInv, TypeOK, InFlightOK, Idle, Request

(* A step that starts a request or takes it further, given that the        *)
(* request is well formed.                                                 *)
LEMMA HoldKeepsInv ==
  ASSUME IInv, NEW r \in Req, NEW rq \in Request, InFlightOK(rq), Hold(r, rq)
  PROVE  IInv'
<1>1. tasks' = tasks /\ log' = log /\ req' = [req EXCEPT ![r] = rq]
  BY DEF Hold
<1>2. TypeOK'
  BY <1>1 DEF IInv, TypeOK
<1>3. \A q \in Req : InFlightOK(req'[q])
  BY <1>1 DEF IInv, TypeOK
<1> QED
  BY <1>1, <1>2, <1>3 DEF IInv, InFlightOK

(* A step that ends a request and leaves owner and tenant of every task    *)
(* alone, given that the rows and logs it leaves are well formed.          *)
LEMMA FinishKeepsInv ==
  ASSUME IInv, NEW r \in Req, Finish(r),
         DOMAIN tasks \subseteq DOMAIN tasks', DOMAIN tasks' \subseteq TaskId,
         tasks' \in [DOMAIN tasks' -> Row],
         log' \in [DOMAIN tasks' -> Seq(Entry)],
         \A t \in DOMAIN tasks' : RowOK(tasks'[t], log'[t]),
         \A t \in DOMAIN tasks : /\ tasks'[t].owner = tasks[t].owner
                                 /\ tasks'[t].tenant = tasks[t].tenant
                                 /\ Len(log[t]) <= Len(log'[t])
  PROVE  IInv'
<1>1. req' = [req EXCEPT ![r] = Idle]
  BY DEF Finish
<1>2. TypeOK'
  BY <1>1 DEF IInv, TypeOK, Request
<1>3. ASSUME NEW q \in Req
      PROVE  InFlightOK(req[q])'
  <2>1. CASE q = r
    BY <1>1, <2>1 DEF IInv, TypeOK, InFlightOK, Idle
  <2>2. CASE q # r
    <3>1. req'[q] = req[q] /\ req[q] \in Request /\ InFlightOK(req[q])
      BY <1>1, <2>2 DEF IInv, TypeOK
    <3>2. \A t \in DOMAIN tasks : /\ Len(log[t]) \in Nat /\ Len(log'[t]) \in Nat
                                 /\ Len(log[t]) <= Len(log'[t])
      BY DEF IInv, TypeOK
    <3>3. /\ req[q].op = "begun" => req[q].began \in Nat
          /\ req[q].op = "update" => req[q].entry.createdAt \in Nat
      BY <3>1 DEF Request, Entry, Idle
    <3>4. req[q].op = "begun" => req[q].began <= Len(log'[req[q].task])
      BY <3>1, <3>2, <3>3 DEF InFlightOK
    <3>5. req[q].op = "update" => req[q].entry.createdAt <= Len(log'[req[q].task])
      BY <3>1, <3>2, <3>3 DEF InFlightOK
    <3> QED
      BY <3>1, <3>4, <3>5 DEF InFlightOK
  <2> QED
    BY <2>1, <2>2
<1> QED
  BY <1>2, <1>3 DEF IInv

LEMMA CheckKeepsInv ==
  ASSUME IInv, NEW r \in Req, Check(r)
  PROVE  IInv'
<1> USE ConstantsAssumption DEF IInv
<1>1. ASSUME NEW a \in User, NEW s \in User, NEW ti \in Title, NEW pr \in Priority,
             CreateTask(r, a, s, ti, pr)
      PROVE  IInv'
  <2> DEFINE rq == [op |-> "insert", row |-> NewRow(a, s, ti, pr)]
  <2>1. rq \in Request
    BY DEF NewRow, Row, Request
  <2>2. InFlightOK(rq)
    BY <1>1 DEF InFlightOK, NewRow, CreateTask, ValidAssignee, RowOneTenant
  <2> QED
    BY <1>1, <2>1, <2>2, HoldKeepsInv DEF CreateTask, Start
<1>2. ASSUME NEW a \in User, NEW t \in TaskId, NEW ti \in Title \cup {None},
             NEW s \in User \cup {None}, NEW st \in Status \cup {None},
             NEW pr \in Priority \cup {None}, UpdateTask(r, a, t, ti, s, st, pr)
      PROVE  IInv'
  <2> DEFINE set == UpdateStatement(tasks[t], ti, s, st, pr)
             e   == LogEntry(a, tasks[t], st, pr, req[r].began)
             rq  == [op |-> "update", task |-> t, set |-> set, entry |-> e]
  <2>1. /\ t \in DOMAIN tasks /\ tasks[t] \in Row
        /\ req[r].began \in Nat /\ req[r].began <= Len(log[t])
    BY <1>2 DEF UpdateTask, Began, Live, TypeOK, Request, Idle, InFlightOK
  <2>2. /\ set \in Updates /\ e \in Entry /\ e.actor = a
        /\ e.createdAt = req[r].began
        /\ SetMatches(set, e) /\ set.assignee \in {None, s}
    BY <2>1, StatementMatches
  <2>3. /\ TenantOf[a] = tasks[t].tenant
        /\ s # None => TenantOf[s] = tasks[t].tenant
        /\ Hold(r, rq)
    BY <1>2 DEF UpdateTask, CanAccess, ValidAssignee
  <2> HIDE DEF set, e
  <2>4. rq \in Request
    BY <2>2 DEF Request
  <2>5. InFlightOK(rq)
    BY <2>1, <2>2, <2>3 DEF InFlightOK
  <2> QED
    BY <2>3, <2>4, <2>5, HoldKeepsInv
<1>3. ASSUME NEW a \in User, NEW t \in TaskId, DeleteTask(r, a, t)
      PROVE  IInv'
  <2> DEFINE rq == [op |-> "delete", actor |-> a, task |-> t]
  <2>1. rq \in Request
    BY DEF Request
  <2>2. InFlightOK(rq)
    BY <1>3 DEF InFlightOK, DeleteTask, Live, CanDelete, CanAccess
  <2> QED
    BY <1>3, <2>1, <2>2, HoldKeepsInv DEF DeleteTask, Start
<1>4. ASSUME NEW t \in TaskId, BeginUpdate(r, t)
      PROVE  IInv'
  <2> DEFINE rq == [op |-> "begun", task |-> t, began |-> Len(log[t])]
  <2>1. t \in DOMAIN tasks /\ Len(log[t]) \in Nat
    BY <1>4 DEF BeginUpdate, Live, TypeOK
  <2>2. rq \in Request
    BY <2>1 DEF Request
  <2>3. InFlightOK(rq)
    BY <2>1 DEF InFlightOK
  <2> QED
    BY <1>4, <2>2, <2>3, HoldKeepsInv DEF BeginUpdate, Start
<1> QED
  BY <1>1, <1>2, <1>3, <1>4 DEF Check

LEMMA WriteKeepsInv ==
  ASSUME IInv, NEW r \in Req, Write(r)
  PROVE  IInv'
<1> USE DEF IInv
<1>0. req[r] \in Request /\ InFlightOK(req[r])
  BY DEF TypeOK
<1>1. ASSUME NEW t \in TaskId, InsertTask(r, t)
      PROVE  IInv'
  <2>1. /\ req[r].op = "insert" /\ t \notin DOMAIN tasks
        /\ tasks' = [i \in DOMAIN tasks \cup {t} |->
                       IF i = t THEN req[r].row ELSE tasks[i]]
        /\ log' = [i \in DOMAIN tasks \cup {t} |-> IF i = t THEN <<>> ELSE log[i]]
        /\ Finish(r)
    BY <1>1 DEF InsertTask
  <2>2. req[r].row \in Row
    BY <1>0, <2>1 DEF Request, Idle
  <2>3. RowOK(req[r].row, <<>>)
    BY <1>0, <2>1 DEF InFlightOK, RowOK, RowReplays, RowBegan, StatusMoved, PriorityMoved
  <2>4. /\ DOMAIN tasks \subseteq DOMAIN tasks' /\ DOMAIN tasks' \subseteq TaskId
        /\ tasks' \in [DOMAIN tasks' -> Row]
        /\ log' \in [DOMAIN tasks' -> Seq(Entry)]
    BY <2>1, <2>2 DEF TypeOK
  <2>5. \A i \in DOMAIN tasks' : RowOK(tasks'[i], log'[i])
    BY <2>1, <2>3
  <2>6. \A i \in DOMAIN tasks : tasks'[i] = tasks[i] /\ Len(log[i]) <= Len(log'[i])
    BY <2>1 DEF TypeOK
  <2> QED
    BY <2>1, <2>4, <2>5, <2>6, FinishKeepsInv
<1>2. CASE FlushUpdate(r)
  <2> DEFINE t == req[r].task
             row == Apply(req[r].set, tasks[t])
             h == Logged(req[r].entry, log[t])
  <2>1. /\ req[r].op = "update"
        /\ tasks' = [tasks EXCEPT ![t] = row]
        /\ log' = [log EXCEPT ![t] = h]
        /\ Finish(r)
    BY <1>2 DEF FlushUpdate
  <2>2. /\ t \in DOMAIN tasks /\ req[r].set \in Updates /\ req[r].entry \in Entry
        /\ tasks[t] \in Row /\ log[t] \in Seq(Entry)
    BY <1>0, <2>1 DEF Request, Idle, InFlightOK, TypeOK
  <2>3. row \in Row /\ row.tenant = tasks[t].tenant /\ row.owner = tasks[t].owner
    BY <2>2, ApplyRow
  <2>4. h \in Seq(Entry) /\ RowOK(row, h) /\ Len(log[t]) <= Len(h)
    BY <1>0, <2>1, <2>2, UpdateKeepsRow DEF InFlightOK
  <2> HIDE DEF t, row, h
  <2>5. /\ DOMAIN tasks \subseteq DOMAIN tasks' /\ DOMAIN tasks' \subseteq TaskId
        /\ tasks' \in [DOMAIN tasks' -> Row]
        /\ log' \in [DOMAIN tasks' -> Seq(Entry)]
    BY <2>1, <2>2, <2>3, <2>4 DEF TypeOK
  <2>6. \A i \in DOMAIN tasks' : RowOK(tasks'[i], log'[i])
    BY <2>1, <2>2, <2>4 DEF TypeOK
  <2>7. \A i \in DOMAIN tasks : /\ tasks'[i].owner = tasks[i].owner
                                /\ tasks'[i].tenant = tasks[i].tenant
    BY <2>1, <2>2, <2>3
  <2>8. \A i \in DOMAIN tasks : Len(log[i]) <= Len(log'[i])
    BY <2>1, <2>2, <2>4 DEF TypeOK
  <2> QED
    BY <2>1, <2>5, <2>6, <2>7, <2>8, FinishKeepsInv
<1>3. CASE SoftDeleteTask(r)
  <2> DEFINE t == req[r].task
             row == [tasks[t] EXCEPT !.deletedBy = req[r].actor]
  <2>1. /\ req[r].op = "delete"
        /\ tasks' = [tasks EXCEPT ![t] = row]
        /\ log' = log
        /\ Finish(r)
    BY <1>3 DEF SoftDeleteTask
  <2>2. /\ t \in DOMAIN tasks /\ req[r].actor \in User /\ tasks[t] \in Row
    BY <1>0, <2>1 DEF Request, Idle, InFlightOK, TypeOK
  <2>3. /\ row \in Row /\ row.tenant = tasks[t].tenant /\ row.owner = tasks[t].owner
        /\ row.assignee = tasks[t].assignee /\ row.status = tasks[t].status
        /\ row.priority = tasks[t].priority /\ row.deletedBy = req[r].actor
    BY <2>2 DEF Row
  <2>4. RowOK(row, log[t])
    BY <1>0, <2>1, <2>2, <2>3
       DEF InFlightOK, RowOK, RowOneTenant, RowReplays
  <2> HIDE DEF t, row
  <2>5. /\ DOMAIN tasks \subseteq DOMAIN tasks' /\ DOMAIN tasks' \subseteq TaskId
        /\ tasks' \in [DOMAIN tasks' -> Row]
        /\ log' \in [DOMAIN tasks' -> Seq(Entry)]
    BY <2>1, <2>2, <2>3 DEF TypeOK
  <2>6. \A i \in DOMAIN tasks' : RowOK(tasks'[i], log'[i])
    BY <2>1, <2>2, <2>4 DEF TypeOK
  <2>7. \A i \in DOMAIN tasks : /\ tasks'[i].owner = tasks[i].owner
                                /\ tasks'[i].tenant = tasks[i].tenant
                                /\ Len(log[i]) <= Len(log'[i])
    BY <2>1, <2>2, <2>3 DEF TypeOK
  <2> QED
    BY <2>1, <2>5, <2>6, <2>7, FinishKeepsInv
<1>4. CASE SkipDeleted(r) \/ Rollback(r)
  <2>1. Finish(r) /\ UNCHANGED <<tasks, log>>
    BY <1>4 DEF SkipDeleted, Rollback
  <2> QED
    BY <2>1, FinishKeepsInv DEF TypeOK
<1> QED
  BY <1>1, <1>2, <1>3, <1>4 DEF Write

LEMMA NextKeepsInv == IInv /\ [Next]_vars => IInv'
<1>1. ASSUME IInv, UNCHANGED vars
      PROVE  IInv'
  BY <1>1 DEF IInv, TypeOK, InFlightOK, vars
<1> QED
  BY <1>1, CheckKeepsInv, WriteKeepsInv DEF Next

LEMMA Invariance == Spec => []IInv
BY InitInv, NextKeepsInv, PTL DEF Spec

-----------------------------------------------------------------------------
(* The tables always hold rows of their schema.                            *)
THEOREM TasksTypeCorrect == Spec => []TypeOK
<1>1. IInv => TypeOK
  BY DEF IInv
<1> QED
  BY Invariance, <1>1, PTL

(* Everybody who owns, holds, changed or deleted a task is of its tenant,  *)
(* whatever requests interleave.                                           *)
THEOREM TasksStayInTenant == Spec => []OneTenant
<1>1. IInv => OneTenant
  BY DEF IInv, RowOK, RowOneTenant, OneTenant
<1> QED
  BY Invariance, <1>1, PTL

(* Who deleted a task, on top of the invariant.                            *)
RowInternDeletesOwn(row) ==
  (row.deletedBy # None /\ RoleOf[row.deletedBy] = "INTERN")
    => row.owner = row.deletedBy

DeletersInv == \A t \in DOMAIN tasks : RowInternDeletesOwn(tasks[t])

LEMMA CheckHolds ==
  ASSUME NEW r \in Req, Check(r)
  PROVE  \E rq : Hold(r, rq)
<1>1. ASSUME NEW a \in User, NEW s \in User, NEW ti \in Title, NEW pr \in Priority,
             CreateTask(r, a, s, ti, pr)
      PROVE  \E rq : Hold(r, rq)
  BY <1>1 DEF CreateTask, Start
<1>2. ASSUME NEW a \in User, NEW t \in TaskId, NEW ti \in Title \cup {None},
             NEW s \in User \cup {None}, NEW st \in Status \cup {None},
             NEW pr \in Priority \cup {None}, UpdateTask(r, a, t, ti, s, st, pr)
      PROVE  \E rq : Hold(r, rq)
  BY <1>2 DEF UpdateTask
<1>3. ASSUME NEW a \in User, NEW t \in TaskId, DeleteTask(r, a, t)
      PROVE  \E rq : Hold(r, rq)
  BY <1>3 DEF DeleteTask, Start
<1>4. ASSUME NEW t \in TaskId, BeginUpdate(r, t)
      PROVE  \E rq : Hold(r, rq)
  BY <1>4 DEF BeginUpdate, Start
<1> QED
  BY <1>1, <1>2, <1>3, <1>4 DEF Check

LEMMA NextKeepsDeleters ==
  ASSUME IInv, DeletersInv, [Next]_vars
  PROVE  DeletersInv'
<1>1. CASE UNCHANGED tasks
  BY <1>1 DEF DeletersInv
<1>2. ASSUME NEW r \in Req, Check(r)
      PROVE  UNCHANGED tasks
  BY <1>2, CheckHolds DEF Hold
<1>3. ASSUME NEW r \in Req, Write(r)
      PROVE  DeletersInv'
  <2>0. /\ req[r] \in Request /\ InFlightOK(req[r])
        /\ tasks \in [DOMAIN tasks -> Row]
    BY DEF IInv, TypeOK
  <2>1. ASSUME NEW t \in TaskId, InsertTask(r, t)
        PROVE  DeletersInv'
    BY <2>0, <2>1 DEF InsertTask, InFlightOK, DeletersInv, RowInternDeletesOwn
  <2>2. CASE FlushUpdate(r)
    <3> DEFINE t == req[r].task
               row == Apply(req[r].set, tasks[t])
    <3>1. /\ t \in DOMAIN tasks /\ req[r].set \in Updates
          /\ tasks' = [tasks EXCEPT ![t] = row]
      BY <2>0, <2>2 DEF FlushUpdate, Request, Idle, InFlightOK
    <3>2. row.owner = tasks[t].owner /\ row.deletedBy = tasks[t].deletedBy
      BY <2>0, <3>1, ApplyRow
    <3>3. RowInternDeletesOwn(row)
      BY <3>1, <3>2 DEF DeletersInv, RowInternDeletesOwn
    <3> HIDE DEF t, row
    <3> QED
      BY <3>1, <3>3 DEF DeletersInv
  <2>3. CASE SoftDeleteTask(r)
    <3> DEFINE t == req[r].task
               row == [tasks[t] EXCEPT !.deletedBy = req[r].actor]
    <3>1. /\ t \in DOMAIN tasks /\ tasks' = [tasks EXCEPT ![t] = row]
          /\ RoleOf[req[r].actor] = "INTERN" => tasks[t].owner = req[r].actor
      BY <2>0, <2>3 DEF SoftDeleteTask, InFlightOK
    <3>2. RowInternDeletesOwn(row)
      BY <2>0, <3>1 DEF RowInternDeletesOwn, Row
    <3> HIDE DEF t, row
    <3> QED
      BY <3>1, <3>2 DEF DeletersInv
  <2>4. CASE SkipDeleted(r) \/ Rollback(r)
    BY <1>1, <2>4 DEF SkipDeleted, Rollback
  <2> QED
    BY <1>3, <2>1, <2>2, <2>3, <2>4 DEF Write
<1> QED
  BY <1>1, <1>2, <1>3 DEF Next, vars

(* An intern deletes only what it created, even when its deletion crosses  *)
(* a reassignment.                                                         *)
THEOREM InternsDeleteTheirOwn == Spec => []InternDeletesOwn
<1>1. Init => DeletersInv
  BY DEF Init, DeletersInv
<1>2. DeletersInv => InternDeletesOwn
  BY DEF DeletersInv, RowInternDeletesOwn, InternDeletesOwn, Live
<1> QED
  BY <1>1, <1>2, NextKeepsDeleters, Invariance, PTL DEF Spec

(* Whichever row that moves the status or the priority the log lists       *)
(* first, the task is where that row ends, or one whose update overlapped  *)
(* with it, whatever requests interleave and however stale the values they *)
(* logged (update_task, create_history_entry).                             *)
THEOREM LogTellsTheTask == Spec => []LogTells
<1>1. IInv => LogTells
  <2> SUFFICES ASSUME IInv, NEW t \in DOMAIN tasks
               PROVE  LET h == log[t] IN
                 /\ StatusMoved(h) = {} => tasks[t].status = "pending"
                 /\ \A n \in Newest(StatusMoved(h), h) :
                      \E k \in StatusMoved(h) :
                        h[n].createdAt < k /\ tasks[t].status = h[k].newStatus
                 /\ \A n \in Newest(PriorityMoved(h), h) :
                      \E k \in PriorityMoved(h) :
                        h[n].createdAt < k /\ tasks[t].priority = h[k].newPriority
    BY DEF LogTells
  <2> DEFINE h == log[t]
  <2>1. RowReplays(tasks[t], h) /\ RowBegan(h) /\ h \in Seq(Entry)
    BY DEF IInv, RowOK, TypeOK
  <2> HIDE DEF h
  <2>2. \A n \in DOMAIN h : n \in Nat /\ h[n].createdAt \in Nat /\ h[n].createdAt < n
    <3> SUFFICES ASSUME NEW n \in DOMAIN h
                 PROVE  n \in Nat /\ h[n].createdAt \in Nat /\ h[n].createdAt < n
      OBVIOUS
    <3>1. n \in Nat /\ h[n] \in Entry
      BY <2>1
    <3> QED
      BY <2>1, <3>1 DEF RowBegan, Entry
  <2>3. ASSUME NEW moves \in SUBSET DOMAIN h, NEW k \in LastMove(moves),
               NEW n \in Newest(moves, h)
        PROVE  k \in moves /\ h[n].createdAt < k
    <3>1. k \in moves /\ n \in moves /\ n <= k /\ k \in Nat /\ n \in Nat
      BY <2>2 DEF LastMove, Newest
    <3> QED
      BY <2>2, <3>1
  <2>4. \A moves : Newest(moves, h) \subseteq moves
    BY DEF Newest
  <2>5. StatusMoved(h) \in SUBSET DOMAIN h /\ PriorityMoved(h) \in SUBSET DOMAIN h
    BY DEF StatusMoved, PriorityMoved
  <2>6. ASSUME NEW n \in Newest(StatusMoved(h), h)
        PROVE  \E k \in StatusMoved(h) :
                 h[n].createdAt < k /\ tasks[t].status = h[k].newStatus
    BY <2>1, <2>3, <2>4, <2>5 DEF RowReplays
  <2>7. ASSUME NEW n \in Newest(PriorityMoved(h), h)
        PROVE  \E k \in PriorityMoved(h) :
                 h[n].createdAt < k /\ tasks[t].priority = h[k].newPriority
    BY <2>1, <2>3, <2>4, <2>5 DEF RowReplays
  <2> QED
    BY <2>1, <2>6, <2>7 DEF RowReplays, h
<1> QED
  BY Invariance, <1>1, PTL

-----------------------------------------------------------------------------
(* Requests that run one after the other.                                  *)

OneAtATime == \A q, r \in Req : req[q] # Idle /\ req[r] # Idle => q = r

(* Another live task has the owner, assignee and title of the row.         *)
Rival(row, except) == Taken(row.tenant, row.owner, row.assignee, row.title, except)

(* The log of one task, and the task where the log ends.                   *)
RowChains(row, h) ==
  /\ \A k \in DOMAIN h :
       /\ h[k].createdAt = k - 1
       /\ IF k = 1 THEN h[k].oldStatus = "pending"
          ELSE /\ h[k].oldStatus = h[k - 1].newStatus
               /\ h[k].oldPriority = h[k - 1].newPriority
  /\ IF h = <<>> THEN row.status = "pending"
     ELSE /\ row.status = h[Len(h)].newStatus
          /\ row.priority = h[Len(h)].newPriority

(* A request in flight began and decided on the tables as they are now:    *)
(* what it is about to write has no rival, and its log row starts where    *)
(* the task is and the log ends.                                           *)
InFlightCurrent(rq) ==
  /\ rq.op = "insert" => ~Rival(rq.row, {})
  /\ rq.op = "begun" => rq.began = Len(log[rq.task])
  /\ rq.op = "update" =>
       /\ rq.entry.createdAt = Len(log[rq.task])
       /\ ~Rival(Apply(rq.set, tasks[rq.task]), {rq.task})
       /\ rq.entry.oldStatus = tasks[rq.task].status
       /\ rq.entry.oldPriority = tasks[rq.task].priority

SerialInv ==
  /\ NoDuplicateTask
  /\ \A t \in DOMAIN tasks : RowChains(tasks[t], log[t])
  /\ \A r \in Req : InFlightCurrent(req[r])

(* One update, computed from the row it writes to, keeps the chain.        *)
LEMMA UpdateKeepsChain ==
  ASSUME NEW row \in Row, NEW h \in Seq(Entry), NEW set \in Updates, NEW e \in Entry,
         RowChains(row, h), SetMatches(set, e),
         e.createdAt = Len(h),
         e.oldStatus = row.status, e.oldPriority = row.priority
  PROVE  RowChains(Apply(set, row), Logged(e, h))
<1> DEFINE new == Apply(set, row)
           g == Append(h, e)
           n == Len(h)
<1>1. new.status = e.newStatus /\ new.priority = e.newPriority
  BY ApplyRow, ConstantsAssumption
     DEF SetMatches, Given, Entry, StatusMoves, PriorityMoves
<1> HIDE DEF new
<1>2. CASE StatusMoves(e) \/ PriorityMoves(e)
  <2>1. Logged(e, h) = g
    BY <1>2 DEF Logged
  <2>2. /\ n \in Nat /\ Len(g) = n + 1 /\ DOMAIN g = 1..(n + 1) /\ DOMAIN h = 1..n
        /\ g[n + 1] = e /\ \A k \in 1..n : g[k] = h[k]
        /\ g # <<>> /\ (h = <<>> <=> n = 0)
    <3>1. n \in Nat /\ DOMAIN h = 1..n /\ (h = <<>> <=> n = 0)
      OBVIOUS
    <3>2. g \in Seq(Entry) /\ Len(g) = n + 1
      OBVIOUS
    <3>3. g[n + 1] = e /\ \A k \in 1..n : g[k] = h[k]
      BY <3>1
    <3>4. DOMAIN g = 1..(n + 1)
      BY <3>1, <3>2
    <3>5. g # <<>>
      <4> HIDE DEF g, n
      <4> QED
        BY <3>1, <3>2
    <3> QED
      BY <3>1, <3>2, <3>3, <3>4, <3>5
  <2> HIDE DEF g, n
  <2>3. IF n = 0 THEN e.oldStatus = "pending"
        ELSE e.oldStatus = h[n].newStatus /\ e.oldPriority = h[n].newPriority
    BY <2>2 DEF RowChains, n
  <2>4. \A k \in DOMAIN g :
          IF k = 1 THEN g[k].oldStatus = "pending"
          ELSE /\ g[k].oldStatus = g[k - 1].newStatus
               /\ g[k].oldPriority = g[k - 1].newPriority
    <3> SUFFICES ASSUME NEW k \in 1..(n + 1)
                 PROVE  IF k = 1 THEN g[k].oldStatus = "pending"
                        ELSE /\ g[k].oldStatus = g[k - 1].newStatus
                             /\ g[k].oldPriority = g[k - 1].newPriority
      BY <2>2
    <3>1. CASE k = n + 1
      <4>1. CASE n = 0
        BY <2>2, <2>3, <3>1, <4>1
      <4>2. CASE n # 0
        <5>1. k # 1 /\ k - 1 = n /\ n \in 1..n /\ g[k] = e
          BY <2>2, <3>1, <4>2
        <5>2. g[k - 1] = h[n]
          BY <2>2, <5>1
        <5> QED
          BY <2>3, <4>2, <5>1, <5>2
      <4> QED
        BY <4>1, <4>2
    <3>2. CASE k # n + 1
      <4>1. k \in 1..n /\ (k # 1 => k - 1 \in 1..n)
        BY <2>2, <3>2
      <4>2. g[k] = h[k] /\ (k # 1 => g[k - 1] = h[k - 1]) /\ k \in DOMAIN h
        BY <2>2, <4>1
      <4>3. IF k = 1 THEN h[k].oldStatus = "pending"
            ELSE /\ h[k].oldStatus = h[k - 1].newStatus
                 /\ h[k].oldPriority = h[k - 1].newPriority
        BY <4>2 DEF RowChains
      <4> QED
        BY <4>2, <4>3
    <3> QED
      BY <3>1, <3>2
  <2>5. \A k \in DOMAIN g : g[k].createdAt = k - 1
    <3>1. e.createdAt = (n + 1) - 1
      BY <2>2 DEF n
    <3>2. \A k \in 1..n : h[k].createdAt = k - 1
      BY <2>2 DEF RowChains
    <3> QED
      BY <2>2, <3>1, <3>2
  <2> QED
    BY <1>1, <2>1, <2>2, <2>4, <2>5 DEF RowChains, new
<1>3. CASE ~(StatusMoves(e) \/ PriorityMoves(e))
  <2>1. Logged(e, h) = h /\ new.status = row.status /\ new.priority = row.priority
    BY <1>1, <1>3 DEF Logged, StatusMoves, PriorityMoves
  <2> QED
    BY <2>1 DEF RowChains, new
<1> QED
  BY <1>2, <1>3

LEMMA SerialHold ==
  ASSUME IInv, SerialInv, NEW r \in Req, NEW rq, InFlightCurrent(rq), Hold(r, rq)
  PROVE  SerialInv'
<1>1. tasks' = tasks /\ log' = log /\ req' = [req EXCEPT ![r] = rq]
  BY DEF Hold
<1>2. \A q \in Req : req'[q] = IF q = r THEN rq ELSE req[q]
  BY <1>1 DEF IInv, TypeOK
<1> QED
  BY <1>1, <1>2 DEF SerialInv, NoDuplicateTask, Live, InFlightCurrent, Rival, Taken

LEMMA SerialCheck ==
  ASSUME IInv, SerialInv, NEW r \in Req, Check(r)
  PROVE  SerialInv'
<1>1. ASSUME NEW a \in User, NEW s \in User, NEW ti \in Title, NEW pr \in Priority,
             CreateTask(r, a, s, ti, pr)
      PROVE  SerialInv'
  BY <1>1, SerialHold DEF CreateTask, Start, NewRow, InFlightCurrent, Rival
<1>2. ASSUME NEW a \in User, NEW t \in TaskId, NEW ti \in Title \cup {None},
             NEW s \in User \cup {None}, NEW st \in Status \cup {None},
             NEW pr \in Priority \cup {None}, UpdateTask(r, a, t, ti, s, st, pr)
      PROVE  SerialInv'
  <2> DEFINE row == tasks[t]
             set == UpdateStatement(row, ti, s, st, pr)
             rq  == [op |-> "update", task |-> t, set |-> set,
                     entry |-> LogEntry(a, row, st, pr, req[r].began)]
  <2>1. row \in Row /\ req[r].began = Len(log[t]) /\ Len(log[t]) \in Nat
    <3>1. /\ t \in DOMAIN tasks /\ req[r].op = "begun" /\ req[r].task = t
      BY <1>2 DEF UpdateTask, Began, Live
    <3>2. InFlightCurrent(req[r]) /\ row \in Row /\ log[t] \in Seq(Entry)
      BY <3>1 DEF IInv, TypeOK, SerialInv
    <3> QED
      BY <3>1, <3>2 DEF InFlightCurrent
  <2>2. set \in Updates
    BY <2>1, StatementMatches
  <2>3. /\ Given(set.title, row.title) = Given(ti, row.title)
        /\ Given(set.assignee, row.assignee) = Given(s, row.assignee)
    BY DEF UpdateStatement, Given, Changed
  <2>4. ~Rival(Apply(set, row), {t})
    BY <1>2, <2>1, <2>2, <2>3, ApplyRow DEF UpdateTask, Rival
  <2>5. InFlightCurrent(rq)
    BY <2>1, <2>4 DEF InFlightCurrent, LogEntry
  <2> QED
    BY <1>2, <2>5, SerialHold DEF UpdateTask
<1>3. ASSUME NEW a \in User, NEW t \in TaskId, DeleteTask(r, a, t)
      PROVE  SerialInv'
  BY <1>3, SerialHold DEF DeleteTask, Start, InFlightCurrent
<1>4. ASSUME NEW t \in TaskId, BeginUpdate(r, t)
      PROVE  SerialInv'
  BY <1>4, SerialHold DEF BeginUpdate, Start, InFlightCurrent
<1> QED
  BY <1>1, <1>2, <1>3, <1>4 DEF Check

(* A step that ends the only request in flight.                            *)
LEMMA SerialFinish ==
  ASSUME IInv, OneAtATime, NEW r \in Req, req[r] # Idle, Finish(r),
         NoDuplicateTask', \A t \in DOMAIN tasks' : RowChains(tasks'[t], log'[t])
  PROVE  SerialInv'
<1>1. \A q \in Req : req'[q] = Idle
  BY DEF OneAtATime, Finish, IInv, TypeOK
<1> QED
  BY <1>1 DEF SerialInv, InFlightCurrent, Idle

(* One row is added or written, and it has no rival.                       *)
LEMMA NoRivalNoDuplicate ==
  ASSUME NoDuplicateTask, NEW t, NEW row, ~Rival(row, {t}),
         DOMAIN tasks' = DOMAIN tasks \cup {t}, tasks'[t] = row,
         \A i \in DOMAIN tasks \ {t} : tasks'[i] = tasks[i]
  PROVE  NoDuplicateTask'
<1>1. Live' \ {t} = Live \ {t}
  BY DEF Live
<1> QED
  BY <1>1 DEF NoDuplicateTask, Rival, Taken, Live

LEMMA SerialWrite ==
  ASSUME IInv, SerialInv, OneAtATime, NEW r \in Req, Write(r)
  PROVE  SerialInv'
<1>0. /\ req[r] \in Request /\ InFlightOK(req[r]) /\ InFlightCurrent(req[r])
      /\ tasks \in [DOMAIN tasks -> Row] /\ log \in [DOMAIN tasks -> Seq(Entry)]
      /\ NoDuplicateTask /\ \A t \in DOMAIN tasks : RowChains(tasks[t], log[t])
  BY DEF IInv, TypeOK, SerialInv
<1>1. ASSUME NEW t \in TaskId, InsertTask(r, t)
      PROVE  SerialInv'
  <2>1. /\ req[r].op = "insert" /\ t \notin DOMAIN tasks
        /\ tasks' = [i \in DOMAIN tasks \cup {t} |->
                       IF i = t THEN req[r].row ELSE tasks[i]]
        /\ log' = [i \in DOMAIN tasks \cup {t} |-> IF i = t THEN <<>> ELSE log[i]]
        /\ Finish(r)
    BY <1>1 DEF InsertTask
  <2>2. ~Rival(req[r].row, {t})
    BY <1>0, <2>1 DEF InFlightCurrent, Rival, Taken
  <2>3. NoDuplicateTask'
    BY <1>0, <2>1, <2>2, NoRivalNoDuplicate
  <2>4. RowChains(req[r].row, <<>>)
    BY <1>0, <2>1 DEF InFlightOK, RowChains
  <2>5. \A i \in DOMAIN tasks' : RowChains(tasks'[i], log'[i])
    BY <1>0, <2>1, <2>4
  <2>6. req[r] # Idle
    BY <2>1 DEF Idle
  <2> QED
    BY <2>1, <2>3, <2>5, <2>6, SerialFinish
<1>2. CASE FlushUpdate(r)
  <2> DEFINE t == req[r].task
             row == Apply(req[r].set, tasks[t])
             h == Logged(req[r].entry, log[t])
  <2>1. /\ req[r].op = "update"
        /\ tasks' = [tasks EXCEPT ![t] = row]
        /\ log' = [log EXCEPT ![t] = h]
        /\ Finish(r)
    BY <1>2 DEF FlushUpdate
  <2>2. /\ t \in DOMAIN tasks /\ req[r].set \in Updates /\ req[r].entry \in Entry
        /\ tasks[t] \in Row /\ log[t] \in Seq(Entry)
    BY <1>0, <2>1 DEF Request, Idle, InFlightOK
  <2>3. ~Rival(row, {t})
    BY <1>0, <2>1 DEF InFlightCurrent
  <2>4. RowChains(row, h)
    BY <1>0, <2>1, <2>2, UpdateKeepsChain DEF InFlightOK, InFlightCurrent
  <2> HIDE DEF t, row, h
  <2>5. NoDuplicateTask'
    BY <1>0, <2>1, <2>2, <2>3, NoRivalNoDuplicate
  <2>6. \A i \in DOMAIN tasks' : RowChains(tasks'[i], log'[i])
    BY <1>0, <2>1, <2>2, <2>4
  <2> QED
    BY <2>1, <2>5, <2>6, SerialFinish DEF Idle
<1>3. CASE SoftDeleteTask(r)
  <2> DEFINE t == req[r].task
             row == [tasks[t] EXCEPT !.deletedBy = req[r].actor]
  <2>1. /\ req[r].op = "delete"
        /\ tasks' = [tasks EXCEPT ![t] = row]
        /\ log' = log
        /\ Finish(r)
    BY <1>3 DEF SoftDeleteTask
  <2>2. /\ t \in DOMAIN tasks /\ req[r].actor \in User /\ tasks[t] \in Row
    BY <1>0, <2>1 DEF Request, Idle, InFlightOK
  <2>3. /\ row.status = tasks[t].status /\ row.priority = tasks[t].priority
        /\ row.deletedBy # None
    BY <2>2, ConstantsAssumption DEF Row
  <2> HIDE DEF t, row
  <2>4. NoDuplicateTask'
    BY <1>0, <2>1, <2>2, <2>3 DEF NoDuplicateTask, Live
  <2>5. \A i \in DOMAIN tasks' : RowChains(tasks'[i], log'[i])
    BY <1>0, <2>1, <2>2, <2>3 DEF RowChains
  <2> QED
    BY <2>1, <2>4, <2>5, SerialFinish DEF Idle
<1>4. CASE SkipDeleted(r) \/ Rollback(r)
  <2>1. Finish(r) /\ UNCHANGED <<tasks, log>> /\ req[r] # Idle
    BY <1>4 DEF SkipDeleted, Rollback, Idle
  <2>2. NoDuplicateTask'
    BY <1>0, <2>1 DEF NoDuplicateTask, Live
  <2> QED
    BY <1>0, <2>1, <2>2, SerialFinish
<1> QED
  BY <1>1, <1>2, <1>3, <1>4 DEF Write

LEMMA SerialStep ==
  ASSUME IInv, SerialInv, OneAtATime, [Next]_vars
  PROVE  SerialInv'
<1>1. CASE UNCHANGED vars
  BY <1>1 DEF vars, SerialInv, NoDuplicateTask, Live, InFlightCurrent, Rival, Taken
<1> QED
  BY <1>1, SerialCheck, SerialWrite DEF Next

LEMMA SerialInit == Init => SerialInv
BY DEF Init, SerialInv, NoDuplicateTask, Live, InFlightCurrent, Idle

LEMMA SerialInvHolds == Spec /\ []OneAtATime => []SerialInv
BY SerialInit, SerialStep, Invariance, PTL DEF Spec

(* Requests that run one after the other never leave two live tasks of the *)
(* same owner, assignee and title: the check of create_task, and that of   *)
(* update_task with the assignee and the title the task is to have, are    *)
(* enough without a unique index.                                          *)
THEOREM OneAtATimeNoDuplicateTask == Spec /\ []OneAtATime => []NoDuplicateTask
<1>1. SerialInv => NoDuplicateTask
  BY DEF SerialInv
<1> QED
  BY <1>1, SerialInvHolds, PTL

(* Of requests that run one after the other, each log row starts where the *)
(* one before it ended and the last ends at the task (update_task,         *)
(* create_task_history).                                                   *)
THEOREM OneAtATimeLogChains == Spec /\ []OneAtATime => []LogChains
<1>1. SerialInv => LogChains
  BY DEF SerialInv, RowChains, LogChains
<1> QED
  BY <1>1, SerialInvHolds, PTL
=============================================================================
