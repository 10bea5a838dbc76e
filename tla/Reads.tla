-------------------------------- MODULE Reads ---------------------------------
(***************************************************************************)
(* What is read of tasks and comments while others write them: the lists,  *)
(* the single rows, and the statistics of a user's dashboard               *)
(* (services/task_service.py, comment_service.py, dashboard_service.py).   *)
(*                                                                         *)
(* No read is one step.  A page of a list and its total are two queries, a *)
(* walk through a list is a request per page, and the dashboard of a user  *)
(* is six queries; each query sees what is committed by then (READ         *)
(* COMMITTED), and every write of Comments and Tasks may come in between,  *)
(* and the deletion or the restore of an account, which writes all of its  *)
(* tasks and comments in one commit (crud/user_crud.py).                   *)
(*                                                                         *)
(* Abstracted: the layout of the responses.  The deletion and the restore  *)
(* of an account are a step each (Accounts has them as requests that       *)
(* cross), and a deleted account may go on sending requests here, which    *)
(* allows more behaviours than the code does.  Super admins are no users   *)
(* here: the accounts of tenant admins they delete go with tasks and       *)
(* comments as others do, but name somebody of no tenant as the deleter.   *)
(***************************************************************************)
EXTENDS Comments, FiniteSets

CONSTANTS
  Reader,      (* slots for reads in flight; bounds the concurrency         *)
  PageSize

ASSUME PageSizeAssumption == PageSize \in Nat \ {0}

(* The figures of a dashboard name every status (enums/task_status.py).    *)
ASSUME StatusAssumption == Status \subseteq {"pending", "in_progress", "completed"}

VARIABLES
  order,       (* the ids of the tasks, newest first                        *)
  gone,        (* who deleted the account of a user, None while it is live  *)
  readers      (* reads in flight                                           *)

rvars == <<cvars, order, gone, readers>>

Filter == [status: Status \cup {None}, priority: Priority \cup {None},
           assignee: User \cup {None}, owner: User \cup {None}]

(* stayed and left are history: what was listed when the walk began and    *)
(* has been ever since, and how many tasks have left the list since.       *)
Walk == [op: {"page", "total", "walked"}, actor: User, filter: Filter, page: Nat,
         seen: SUBSET TaskId, stayed: SUBSET TaskId, left: Nat]

(* written is history: the rows of tasks written since the first query.    *)
Stats == [op: {"stats"}, user: User, got: Seq(Nat), written: Nat]

ReadsTypeOK ==
  /\ CommentsTypeOK
  /\ order \in Seq(TaskId)
  /\ \A t, v \in DOMAIN order : order[t] = order[v] => t = v
  /\ {order[k] : k \in DOMAIN order} = DOMAIN tasks
  /\ gone \in [User -> User \cup {None}]
  /\ readers \in [Reader -> {Idle} \cup Walk \cup Stats]

-----------------------------------------------------------------------------
(* Tasks: GET /tasks/ and GET /tasks/{id}/.                                *)

Asked(column, value) == column = None \/ column = value

Matches(f, row) ==
  /\ Asked(f.status, row.status)
  /\ Asked(f.priority, row.priority)
  /\ Asked(f.assignee, row.assignee)
  /\ Asked(f.owner, row.owner)

(* Mutant: an intern or a mentor lists what it is assigned only.           *)
MutantOwn(a) == {t \in Live : /\ tasks[t].tenant = TenantOf[a]
                              /\ tasks[t].assignee = a}

(* The clause _list_tasks_intern and _count_tasks_intern share.            *)
Own(a) == {t \in Live : /\ tasks[t].tenant = TenantOf[a]
                        /\ a \in {tasks[t].assignee, tasks[t].owner}}

OfTenant(a) == {t \in Live : tasks[t].tenant = TenantOf[a]}

Listed(a, f) ==
  {t \in IF RoleOf[a] \in {"INTERN", "MENTOR"} THEN Own(a) ELSE OfTenant(a) :
     Matches(f, tasks[t])}

Total(a, f) == Cardinality(Listed(a, f))

CanGet(a, t) == t \in Live /\ CanAccess(a, tasks[t])

(* Mutant: pages are counted from zero.                                    *)
MutantSkip(page) == page * PageSize

Skip(page) == (page - 1) * PageSize

NoLater(v, t) ==
  \E i, j \in DOMAIN order : i <= j /\ order[i] = v /\ order[j] = t

RowNumber(a, f, t) == Cardinality({v \in Listed(a, f) : NoLater(v, t)})

(* ORDER BY created_at DESC OFFSET skip LIMIT limit.                       *)
Page(a, f, page) ==
  {t \in Listed(a, f) : /\ Skip(page) < RowNumber(a, f, t)
                        /\ RowNumber(a, f, t) <= Skip(page) + PageSize}

(* Comments of a task: GET /tasks/{id}/comments/ and its members.          *)
ListedComments(a, t) ==
  {c \in LiveComments : /\ TaskInScope(a, t)
                        /\ comments[c].task = t
                        /\ comments[c].tenant = tasks[t].tenant}

CanGetComment(a, t, c) == TaskInScope(a, t) /\ Found(c, t)

-----------------------------------------------------------------------------
(* The dashboard of a user.                                                *)

MayViewStats(a, u) ==
  /\ TenantOf[u] = TenantOf[a]
  /\ RoleOf[a] = "INTERN" => u = a
  /\ RoleOf[a] = "MENTOR" => u = a \/ RoleOf[u] = "INTERN"

Figures == <<"total", "pending", "in_progress", "completed", "high", "comments">>

(* Mutant: the tasks the user created are forgotten.                       *)
MutantTasksOf(u) == {t \in OfTenant(u) : tasks[t].assignee = u}

TasksOf(u) == {t \in OfTenant(u) : u \in {tasks[t].assignee, tasks[t].owner}}

(* Mutant: the tasks in progress include the completed ones.               *)
MutantFigure(f, u) ==
  Cardinality(
    CASE f = "total"    -> TasksOf(u)
      [] f = "comments" -> {c \in LiveComments : comments[c].task \in TasksOf(u)}
      [] f = "high"     -> {t \in TasksOf(u) : tasks[t].priority = "high"}
      [] f = "in_progress" -> {t \in TasksOf(u) : tasks[t].status # "pending"}
      [] OTHER          -> {t \in TasksOf(u) : tasks[t].status = f})

Figure(f, u) ==
  Cardinality(
    CASE f = "total"    -> TasksOf(u)
      [] f = "comments" -> {c \in LiveComments : comments[c].task \in TasksOf(u)}
      [] f = "high"     -> {t \in TasksOf(u) : tasks[t].priority = "high"}
      [] OTHER          -> {t \in TasksOf(u) : tasks[t].status = f})

-----------------------------------------------------------------------------
(* Reads in flight.                                                        *)

ReadsInit ==
  /\ CommentsInit
  /\ order = <<>>
  /\ gone = [u \in User |-> None]
  /\ readers = [x \in Reader |-> Idle]

Become(x, state) ==
  /\ readers' = [readers EXCEPT ![x] = state]
  /\ UNCHANGED <<cvars, order, gone>>

StartWalk(x, a, f) ==
  /\ readers[x] = Idle
  /\ Become(x, [op |-> "page", actor |-> a, filter |-> f, page |-> 1,
                seen |-> {}, stayed |-> Listed(a, f), left |-> 0])

ReadPage(x) ==
  /\ readers[x].op = "page"
  /\ Become(x, [readers[x] EXCEPT
       !.op = "total",
       !.seen = @ \cup Page(readers[x].actor, readers[x].filter, readers[x].page)])

(* The response has the page and the total; the client asks for the next   *)
(* page while the total says there is one.                                 *)
ReadTotal(x) ==
  /\ readers[x].op = "total"
  /\ Become(x,
       IF readers[x].page * PageSize < Total(readers[x].actor, readers[x].filter)
         THEN [readers[x] EXCEPT !.op = "page", !.page = @ + 1]
         ELSE [readers[x] EXCEPT !.op = "walked"])

StartStats(x, a, u) ==
  /\ readers[x] = Idle
  /\ MayViewStats(a, u)
  /\ Become(x, [op |-> "stats", user |-> u, got |-> <<>>, written |-> 0])

ReadFigure(x) ==
  /\ readers[x].op = "stats"
  /\ Len(readers[x].got) < Len(Figures)
  /\ Become(x, [readers[x] EXCEPT
       !.got = Append(@, Figure(Figures[Len(@) + 1], readers[x].user))])

(* The read is answered, or given up.                                      *)
EndRead(x) == readers[x] # Idle /\ Become(x, Idle)

-----------------------------------------------------------------------------
(* Deletion and restore of accounts, as far as they write tasks and        *)
(* comments.                                                               *)

(* DELETE /users/me/, and DELETE and POST restore of /users/{id} by an     *)
(* admin of the tenant.                                                    *)
MayDelete(a, u) ==
  /\ gone[a] = None /\ gone[u] = None
  /\ IF a = u THEN RoleOf[a] # "TENANT_ADMIN"
     ELSE RoleOf[a] = "TENANT_ADMIN" /\ TenantOf[a] = TenantOf[u]

MayRestore(a, u) ==
  /\ gone[a] = None /\ gone[u] # None
  /\ RoleOf[a] = "TENANT_ADMIN" /\ TenantOf[a] = TenantOf[u]

(* The rows of a user that carry one deleted_by get another.               *)
Cascade(u, from, to) ==
  /\ tasks' = [t \in DOMAIN tasks |->
       IF u \in {tasks[t].owner, tasks[t].assignee} /\ tasks[t].deletedBy = from
         THEN [tasks[t] EXCEPT !.deletedBy = to] ELSE tasks[t]]
  /\ comments' = [c \in DOMAIN comments |->
       IF comments[c].user = u /\ comments[c].deletedBy = from
         THEN [comments[c] EXCEPT !.deletedBy = to] ELSE comments[c]]
  /\ gone' = [gone EXCEPT ![u] = to]
  /\ UNCHANGED <<log, req, creq>>

DeleteAccount(a, u) == MayDelete(a, u) /\ Cascade(u, None, a)

(* Rows that the same person deleted on another occasion come back too.    *)
RestoreAccount(a, u) == MayRestore(a, u) /\ Cascade(u, gone[u], None)

-----------------------------------------------------------------------------
(* What a commit means to the list and to the reads in flight.             *)

(* The tasks that leave the list somebody is walking through.              *)
Leaving(x) ==
  {t \in Listed(readers[x].actor, readers[x].filter) :
     \E a \in {readers[x].actor}, f \in {readers[x].filter} : t \notin Listed(a, f)'}

(* The rows of tasks a commit inserts or changes.                          *)
RowsWritten == {t \in DOMAIN tasks' : t \in DOMAIN tasks => tasks'[t] # tasks[t]}

(* History only.                                                           *)
Observe ==
  readers' = [x \in Reader |->
    LET r == readers[x] IN
      CASE r.op \in {"page", "total"} ->
             [r EXCEPT !.stayed = @ \ Leaving(x),
                       !.left = @ + Cardinality(Leaving(x))]
        [] r.op = "stats" /\ Len(r.got) \in 1..(Len(Figures) - 1) ->
             [r EXCEPT !.written = @ + Cardinality(RowsWritten)]
        [] OTHER -> r]

(* Mutant: a deletion takes the row out of the table.                      *)
MutantKeepOrder ==
  \/ order' = SelectSeq(order, LAMBDA t : t \in Live')
  \/ \E t \in DOMAIN tasks' \ DOMAIN tasks : order' = <<t>> \o order

(* A deleted task keeps its place.  Newest first is by created_at, the     *)
(* start of the transaction: a task may be committed after newer ones.     *)
KeepOrder ==
  \/ DOMAIN tasks' = DOMAIN tasks /\ order' = order
  \/ \E t \in DOMAIN tasks' \ DOMAIN tasks, k \in 0..Len(order) :
       order' = SubSeq(order, 1, k) \o <<t>> \o SubSeq(order, k + 1, Len(order))

Written ==
  /\ KeepOrder
  /\ Observe

ReadNext(x) ==
  \/ \E a \in User, f \in Filter : StartWalk(x, a, f)
  \/ ReadPage(x)
  \/ ReadTotal(x)
  \/ \E a, u \in User : StartStats(x, a, u)
  \/ ReadFigure(x)
  \/ EndRead(x)

ReadsNext ==
  \/ CommentsNext /\ UNCHANGED gone /\ Written
  \/ \E a, u \in User : (DeleteAccount(a, u) \/ RestoreAccount(a, u)) /\ Written
  \/ \E x \in Reader : ReadNext(x)

ReadsSpec == ReadsInit /\ [][ReadsNext]_rvars

-----------------------------------------------------------------------------
(* Properties.                                                             *)

NoFilter == [status |-> None, priority |-> None, assignee |-> None,
             owner |-> None]

(* "INTERN/MENTOR: only tasks where assignee or owner == self.             *)
(* TENANT_ADMIN: all tenant tasks" (task_service.py:88): the list is a     *)
(* query and GET by id a rule in Python, and what one shows the other      *)
(* does; so do the list of comments and GET of one comment.                *)
ListedIsGot ==
  \A a \in User :
    /\ Listed(a, NoFilter) = {t \in DOMAIN tasks : CanGet(a, t)}
    /\ \A t \in DOMAIN tasks :
         ListedComments(a, t) = {c \in DOMAIN comments : CanGetComment(a, t, c)}

(* The dashboard of an intern or a mentor agrees with the totals of its own*)
(* task list, whole and by status, and with the comments it may read under *)
(* those tasks: the same clauses, written in SQL several times.            *)
StatsAgree ==
  \A u \in User : RoleOf[u] # "TENANT_ADMIN" =>
    /\ Figure("total", u) = Total(u, NoFilter)
    /\ \A st \in {"pending", "in_progress", "completed"} \cap Status :
         Figure(st, u) = Total(u, [NoFilter EXCEPT !.status = st])
    /\ Figure("comments", u) =
         Cardinality(UNION {ListedComments(u, t) : t \in Listed(u, NoFilter)})

Apart(i, j) == IF i > j THEN i - j ELSE j - i

(* A dashboard is off by no more than the rows of tasks that were written  *)
(* between its queries, be it by one commit that takes all the tasks of an *)
(* account: the three figures by status add up to the total but for those, *)
(* and the tasks of high priority are no more than all tasks but for those.*)
StatsClose ==
  \A x \in Reader :
    LET r == readers[x] IN
      r.op = "stats" /\ Len(r.got) = Len(Figures) =>
        /\ Apart(r.got[2] + r.got[3] + r.got[4], r.got[1]) <= r.written
        /\ r.got[5] <= r.got[1] + r.written

(* A walk through the pages of a list misses, of the tasks that were in it *)
(* from beginning to end, no more than tasks left it meanwhile: each one   *)
(* that leaves may pull one of them over to a page that was read already.  *)
(* Tasks that join make it repeat tasks, and so does a total that was      *)
(* counted after its page, but neither makes it miss one.                  *)
WalkComplete ==
  \A x \in Reader :
    LET r == readers[x] IN
      r.op = "walked" => Cardinality(r.stayed \ r.seen) <= r.left
=============================================================================
