------------------------------- MODULE Tasks --------------------------------
(***************************************************************************)
(* Tasks and their audit log: services/task_service.py, crud/task_crud.py  *)
(* and crud/task_history_crud.py.                                          *)
(*                                                                         *)
(* Requests run as in Leaves: a step that reads and decides, a step that   *)
(* writes and commits, other requests between the two.  The log row of an  *)
(* update is in the same transaction as the update, and its created_at is  *)
(* the start of that transaction, so an update has a step before the one   *)
(* that reads: it begins.  The log is listed by created_at, which is not   *)
(* the order of the commits.                                               *)
(*                                                                         *)
(* Abstracted: description and deadline (no rule reads them), users, their *)
(* roles and activity (fixed here; see Accounts).                          *)
(***************************************************************************)
EXTENDS Naturals, Sequences

CONSTANTS
  User,      (* rows of "users" that belong to a tenant and are active      *)
  Tenant,
  TenantOf,  (* User -> Tenant                                              *)
  RoleOf,    (* User -> Role                                                *)
  TaskId,    (* ids a task can be given; bounds the number of tasks         *)
  Title,     (* stripped titles                                             *)
  Status,    (* task statuses, "pending" among them                         *)
  Priority,  (* task priorities                                             *)
  Req,       (* slots for requests in flight; bounds the concurrency        *)
  MaxLog,    (* bounds the log rows of a task, per request in flight        *)
  None       (* SQL NULL, and a body field that was not sent                *)

Role == {"INTERN", "MENTOR", "TENANT_ADMIN"}

ASSUME ConstantsAssumption ==
  /\ TenantOf \in [User -> Tenant]
  /\ RoleOf \in [User -> Role]
  /\ "pending" \in Status
  /\ MaxLog \in Nat
  /\ None \notin User \cup Title \cup Status \cup Priority

VARIABLES
  tasks,     (* the committed table, a function from the ids used so far    *)
  log,       (* the rows of task_history, by task, as they were committed   *)
  req        (* what each request in flight has read and decided to write   *)

vars == <<tasks, log, req>>

Row == [tenant: Tenant, owner: User, assignee: User, title: Title,
        status: Status, priority: Priority, deletedBy: User \cup {None}]

(* createdAt tells which rows of the task had been committed when the      *)
(* transaction of this one began: the first so many.  That is what the     *)
(* timestamps tell for certain of their order.                             *)
Entry == [actor: User, createdAt: Nat, oldStatus: Status, newStatus: Status,
          oldPriority: Priority, newPriority: Priority]

(* The columns an UPDATE sets; None marks a column it leaves alone.        *)
Updates == [title: Title \cup {None}, assignee: User \cup {None},
            status: Status \cup {None}, priority: Priority \cup {None}]

Idle == [op |-> "idle"]

Request ==
  {Idle}
    \cup [op: {"insert"}, row: Row]
    \cup [op: {"begun"}, task: TaskId, began: Nat]
    \cup [op: {"update"}, task: TaskId, set: Updates, entry: Entry]
    \cup [op: {"delete"}, actor: User, task: TaskId]

TypeOK ==
  /\ DOMAIN tasks \subseteq TaskId
  /\ tasks \in [DOMAIN tasks -> Row]
  /\ log \in [DOMAIN tasks -> Seq(Entry)]
  /\ req \in [Req -> Request]

-----------------------------------------------------------------------------
(* Queries and rules.                                                      *)

Live == {t \in DOMAIN tasks : tasks[t].deletedBy = None}

(* get_task_by_owner_assignee_title; more than one match raises as well.   *)
Taken(tenant, o, s, title, except) ==
  \E t \in Live \ except : /\ tasks[t].tenant = tenant
                           /\ tasks[t].owner = o
                           /\ tasks[t].assignee = s
                           /\ tasks[t].title = title

CanAccess(a, row) ==
  /\ row.tenant = TenantOf[a]
  /\ RoleOf[a] = "TENANT_ADMIN" \/ a \in {row.owner, row.assignee}

(* Mutant: an intern may delete what it can access.                        *)
MutantCanDelete(a, row) == CanAccess(a, row)

CanDelete(a, row) ==
  /\ CanAccess(a, row)
  /\ RoleOf[a] = "INTERN" => row.owner = a

(* Mutant: the organization of the assignee is not compared.               *)
MutantValidAssignee(a, s, tenant) ==
  /\ RoleOf[a] = "TENANT_ADMIN" => RoleOf[s] \in {"MENTOR", "INTERN"}
  /\ RoleOf[a] = "MENTOR" => s = a \/ RoleOf[s] = "INTERN"

(* _validate_assignee, which has no rule for interns.                      *)
ValidAssignee(a, s, tenant) ==
  /\ TenantOf[s] = tenant
  /\ RoleOf[a] = "TENANT_ADMIN" => RoleOf[s] \in {"MENTOR", "INTERN"}
  /\ RoleOf[a] = "MENTOR" => s = a \/ RoleOf[s] = "INTERN"

Given(new, old) == IF new = None THEN old ELSE new
Changed(new, loaded) == IF new = loaded THEN None ELSE new

UpdateStatement(row, ti, s, st, pr) ==
  [title |-> Changed(ti, row.title), assignee |-> Changed(s, row.assignee),
   status |-> Changed(st, row.status), priority |-> Changed(pr, row.priority)]

Apply(set, row) ==
  [row EXCEPT !.title = Given(set.title, row.title),
              !.assignee = Given(set.assignee, row.assignee),
              !.status = Given(set.status, row.status),
              !.priority = Given(set.priority, row.priority)]

(* Mutant: the old values are read after the attributes were set.          *)
MutantLogEntry(a, row, st, pr, began) ==
  [actor |-> a, createdAt |-> began,
   oldStatus |-> Given(st, row.status), newStatus |-> Given(st, row.status),
   oldPriority |-> Given(pr, row.priority), newPriority |-> Given(pr, row.priority)]

(* The log row of an update: old values as they were loaded.               *)
LogEntry(a, row, st, pr, began) ==
  [actor |-> a, createdAt |-> began,
   oldStatus |-> row.status, newStatus |-> Given(st, row.status),
   oldPriority |-> row.priority, newPriority |-> Given(pr, row.priority)]

StatusMoves(e)   == e.oldStatus # e.newStatus
PriorityMoves(e) == e.oldPriority # e.newPriority

(* Mutant: a change of priority alone is not logged.                       *)
MutantLogged(e, old) == IF StatusMoves(e) THEN Append(old, e) ELSE old

(* A log row is written only when the update changed status or priority.   *)
Logged(e, old) ==
  IF StatusMoves(e) \/ PriorityMoves(e) THEN Append(old, e) ELSE old

-----------------------------------------------------------------------------
(* Requests that create, update and delete a task.                         *)

Init ==
  /\ tasks = [t \in {} |-> Idle]
  /\ log = [t \in {} |-> Idle]
  /\ req = [r \in Req |-> Idle]

Hold(r, request) ==
  /\ req' = [req EXCEPT ![r] = request]
  /\ UNCHANGED <<tasks, log>>

Start(r, request) == req[r] = Idle /\ Hold(r, request)

Finish(r) == req' = [req EXCEPT ![r] = Idle]

NewRow(a, s, ti, pr) ==
  [tenant |-> TenantOf[a], owner |-> a, assignee |-> s, title |-> ti,
   status |-> "pending", priority |-> pr, deletedBy |-> None]

CreateTask(r, a, s, ti, pr) ==
  /\ RoleOf[a] = "INTERN" => s = a
  /\ ValidAssignee(a, s, TenantOf[a])
  /\ ~Taken(TenantOf[a], a, s, ti, {})
  /\ Start(r, [op |-> "insert", row |-> NewRow(a, s, ti, pr)])

InsertTask(r, t) ==
  /\ req[r].op = "insert"
  /\ t \notin DOMAIN tasks
  /\ tasks' = [i \in DOMAIN tasks \cup {t} |->
                 IF i = t THEN req[r].row ELSE tasks[i]]
  /\ log' = [i \in DOMAIN tasks \cup {t} |-> IF i = t THEN <<>> ELSE log[i]]
  /\ Finish(r)

(* The first query of the request, the one that finds the user, opens its  *)
(* transaction.                                                            *)
BeginUpdate(r, t) ==
  /\ t \in Live
  /\ Start(r, [op |-> "begun", task |-> t, began |-> Len(log[t])])

Began(r, t) == req[r].op = "begun" /\ req[r].task = t

(* Mutant: uniqueness is checked with the assignee the task has now.       *)
MutantUpdateTask(r, a, t, ti, s, st, pr) ==
  /\ Began(r, t)
  /\ t \in Live
  /\ CanAccess(a, tasks[t])
  /\ s # None => ValidAssignee(a, s, tasks[t].tenant)
  /\ ~Taken(tasks[t].tenant, tasks[t].owner, tasks[t].assignee,
            Given(ti, tasks[t].title), {t})
  /\ Len(Logged(LogEntry(a, tasks[t], st, pr, req[r].began), log[t])) <= MaxLog
  /\ Hold(r, [op |-> "update", task |-> t,
              set |-> UpdateStatement(tasks[t], ti, s, st, pr),
              entry |-> LogEntry(a, tasks[t], st, pr, req[r].began)])

(* Uniqueness is checked for the assignee and the title the task will      *)
(* have, and for its owner, whoever updates it.                            *)
UpdateTask(r, a, t, ti, s, st, pr) ==
  /\ Began(r, t)
  /\ t \in Live
  /\ CanAccess(a, tasks[t])
  /\ s # None => ValidAssignee(a, s, tasks[t].tenant)
  /\ ~Taken(tasks[t].tenant, tasks[t].owner, Given(s, tasks[t].assignee),
            Given(ti, tasks[t].title), {t})
  /\ Len(Logged(LogEntry(a, tasks[t], st, pr, req[r].began), log[t])) <= MaxLog
  /\ Hold(r, [op |-> "update", task |-> t,
              set |-> UpdateStatement(tasks[t], ti, s, st, pr),
              entry |-> LogEntry(a, tasks[t], st, pr, req[r].began)])

(* The UPDATE filters on the id alone and the task is not selected again:  *)
(* it may have changed, or been deleted, since it was read.                *)
FlushUpdate(r) ==
  /\ req[r].op = "update"
  /\ LET t == req[r].task IN
       /\ tasks' = [tasks EXCEPT ![t] = Apply(req[r].set, tasks[t])]
       /\ log' = [log EXCEPT ![t] = Logged(req[r].entry, log[t])]
  /\ Finish(r)

DeleteTask(r, a, t) ==
  /\ t \in Live
  /\ CanDelete(a, tasks[t])
  /\ Start(r, [op |-> "delete", actor |-> a, task |-> t])

SoftDeleteTask(r) ==
  /\ req[r].op = "delete"
  /\ tasks' = [tasks EXCEPT ![req[r].task].deletedBy = req[r].actor]
  /\ Finish(r)
  /\ UNCHANGED log

(* soft_delete_task selects again and misses a task that another request   *)
(* deleted.                                                                *)
SkipDeleted(r) ==
  /\ req[r].op = "delete"
  /\ req[r].task \notin Live
  /\ Finish(r)
  /\ UNCHANGED <<tasks, log>>

(* The connection drops, the commit fails or the process dies: rollback.   *)
Rollback(r) ==
  /\ req[r] # Idle
  /\ Finish(r)
  /\ UNCHANGED <<tasks, log>>

Check(r) ==
  \E a \in User :
    \/ \E s \in User, ti \in Title, pr \in Priority : CreateTask(r, a, s, ti, pr)
    \/ \E t \in TaskId, ti \in Title \cup {None}, s \in User \cup {None},
          st \in Status \cup {None}, pr \in Priority \cup {None} :
         UpdateTask(r, a, t, ti, s, st, pr)
    \/ \E t \in TaskId : BeginUpdate(r, t) \/ DeleteTask(r, a, t)

Write(r) ==
  \/ \E t \in TaskId : InsertTask(r, t)
  \/ FlushUpdate(r)
  \/ SoftDeleteTask(r)
  \/ SkipDeleted(r)
  \/ Rollback(r)

Next == \E r \in Req : Check(r) \/ Write(r)

Spec == Init /\ [][Next]_vars

-----------------------------------------------------------------------------
(* Properties.                                                             *)

(* Whatever requests interleave, a task, its owner, its assignee, its      *)
(* deleter and everybody who changed it belong to one tenant.              *)
OneTenant ==
  \A t \in DOMAIN tasks :
    LET people == {tasks[t].owner, tasks[t].assignee} \cup
                  ({tasks[t].deletedBy} \ {None}) \cup
                  {log[t][k].actor : k \in DOMAIN log[t]}
    IN \A u \in people : TenantOf[u] = tasks[t].tenant

(* A task deleted by an intern is one it created, even when the task was   *)
(* reassigned while the deletion was under way.  (This is about requests   *)
(* to delete a task; an intern that deletes its account takes along those  *)
(* it is assigned as well, see Accounts.)                                  *)
InternDeletesOwn ==
  \A t \in DOMAIN tasks \ Live :
    RoleOf[tasks[t].deletedBy] = "INTERN" => tasks[t].owner = tasks[t].deletedBy

StatusMoved(h)   == {k \in DOMAIN h : StatusMoves(h[k])}
PriorityMoved(h) == {k \in DOMAIN h : PriorityMoves(h[k])}

(* The rows the list may show first, as far as the timestamps tell.        *)
Newest(moves, h) ==
  {n \in moves : \A k \in moves : h[k].createdAt <= h[n].createdAt}

(* The log tells the state of the task, up to updates that overlapped:     *)
(* whichever row that moves the status is listed first, the task has the   *)
(* status that row ends at, or the one a row ends at that was committed    *)
(* after that one's transaction began; and a task whose log never moves    *)
(* the status is pending.  So do the rows that move the priority.  True of *)
(* every interleaving: no committed change is missing from the log.        *)
LogTells ==
  \A t \in DOMAIN tasks :
    LET h == log[t] IN
      /\ StatusMoved(h) = {} => tasks[t].status = "pending"
      /\ \A n \in Newest(StatusMoved(h), h) :
           \E k \in StatusMoved(h) :
             h[n].createdAt < k /\ tasks[t].status = h[k].newStatus
      /\ \A n \in Newest(PriorityMoved(h), h) :
           \E k \in PriorityMoved(h) :
             h[n].createdAt < k /\ tasks[t].priority = h[k].newPriority

(* The list of the log, oldest first, is a chain: rows began in the order  *)
(* they were committed, each starts where the one before it ended, the     *)
(* first at pending, and the last ends at the task as it is; a task        *)
(* without rows is pending.  True of requests that run one after the       *)
(* other.                                                                  *)
LogChains ==
  \A t \in DOMAIN tasks :
    LET h == log[t] IN
      /\ \A k \in DOMAIN h :
           /\ h[k].createdAt = k - 1
           /\ IF k = 1 THEN h[k].oldStatus = "pending"
              ELSE /\ h[k].oldStatus = h[k - 1].newStatus
                   /\ h[k].oldPriority = h[k - 1].newPriority
      /\ IF h = <<>> THEN tasks[t].status = "pending"
         ELSE /\ tasks[t].status = h[Len(h)].newStatus
              /\ tasks[t].priority = h[Len(h)].newPriority

(* No two live tasks of a tenant have the same owner, assignee and title.  *)
(* True of requests that run one after the other; "Enforces assignee rules *)
(* and unique (owner, assignee, title)" (task_service.py:1) claims it of   *)
(* all.                                                                    *)
NoDuplicateTask ==
  \A t, v \in Live :
    (/\ tasks[t].tenant = tasks[v].tenant /\ tasks[t].owner = tasks[v].owner
     /\ tasks[t].assignee = tasks[v].assignee /\ tasks[t].title = tasks[v].title)
      => t = v
=============================================================================
