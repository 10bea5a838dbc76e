# InternTrack backend: specification and verification

TLA+ models of the parts of the InternTrack API that change state, the TLC
configurations that check them on small instances, and theorems about them that
TLAPS checks for every value of their constants. Paths below are relative to the
repository; `leave_service.py:321` is a line of `app/services/leave_service.py`.

## 1. The system

A FastAPI application over PostgreSQL (async SQLAlchemy) and Redis. A router
parses the request and finds the current user; a service checks roles, scopes and
business rules; a `crud` module issues the SQL. A request has one database
session and, with few exceptions, one transaction that the service commits at its
end. Nothing takes row locks (`SELECT ... FOR UPDATE`), the isolation level is the
default READ COMMITTED, and several requests (up to 15 connections,
`database/session.py`) run at once.

| Component | State | Operations that change it | Interacts with |
|---|---|---|---|
| Leave requests (`leave_service`, `leave_crud`) | `leaves`: user, dates, status, approver, deletion | create, update (dates, cancel, approve, reject), delete | reads users and roles; cascades of accounts delete and restore its rows |
| Tasks (`task_service`, `task_crud`, `task_history_crud`) | `tasks`: owner, assignee, title, status, priority, deletion; `task_history` | create, update (with its audit row), delete | reads users; cascades of accounts; comments follow its scope |
| Accounts (`user_service`, `user_crud`, parts of `auth_service`) | `users`: tenant, role, flags, deletion | create, register, re-register, delete self or other, restore, update, change password | cascades over tasks, comments, leaves, invitations |
| Refresh tokens (`auth_service`) | `token_blacklist`, tokens in clients' hands | login, refresh, logout | reads accounts |
| One-time passwords (`auth_service`, Redis) | OTPs and cooldowns by e-mail, purpose and tenant | send, verify, reset password, OTP login | activates accounts |
| Invitations (`invitation_service`, `invitation_crud`) | `invitations`: e-mail, role, token, expiry, acceptance | invite, accept | creates accounts |
| Tenants (`tenant_service`, `tenant_crud`) | `tenants`: name, active, deletion | register with a first admin, create, update, delete | counts active users |
| Comments (`comment_service`, `comment_crud`) | `comments`: task, author, message, deletion | create, update, delete | scope of tasks; cascades of accounts |
| Lists of leaves, users, tasks and comments | none | (read only) | repeat in SQL what the rules of GET by id say in Python |
| Dashboard (`dashboard_service`) | none | (read only, six queries for a user) | tasks, comments; cascades of accounts |
| Application shell, configuration, schemas; migrations | none | | |

What makes each correct:

- *Leaves*: a verdict is given once, by an entitled person other than the
  requester, and names that person; dates are ordered; no two leaves of a user
  overlap; a deleted leave stays as it was.
- *Tasks*: everybody on a task is of its tenant; (owner, assignee, title) is
  unique; interns delete only what they own and assign only to themselves; the
  audit log tells the state of the task, as far as updates that overlap allow.
- *Accounts*: a deletion is in the deleter's scope and is undone only by a
  restore; a restore returns what the deletion took and nothing else; no live
  record is left with deleted accounts only; tenants and platform keep their
  admins.
- *Refresh tokens*: a session is a chain; a token is good for one successor;
  logout ends the session.
- *Comments*: a comment and everybody on it are of its task's tenant; interns
  write and delete only their own; what no request can find does not change.
- *Tenants and invitations*: one account per e-mail and per username; an
  invitation makes one account; one is open per e-mail, but for those that come
  back with their sender.
- *One-time passwords*: a code works once, for the account and the purpose it was
  sent for; it is looked up where it was stored; a verification that answers
  success has verified the account.
- *Lists and dashboard*: a list shows what GET by id admits; a walk through pages
  misses no more of what stays than leaves the list meanwhile; figures agree with
  the lists they count, and are off by no more than the rows written between their
  queries.

### What is hard

1. **Check, then act.** A service reads a row, awaits, and writes by primary key.
   Between the two any other request may commit.
2. **Column-wise writes.** SQLAlchemy puts only those columns in the UPDATE whose
   new value differs from the value *loaded*. Crossing updates merge by column.
3. **A second select that is not a second look.** `crud` functions select the row
   again, but the session keeps the attributes it has; the select only notices
   that the row was deleted.
4. **Soft deletion.** Rows are told apart by `deleted_by` only; deletion, cascade,
   restore and re-registration all act on it.
5. **A commit in the middle.** `refresh_tokens` commits the old token to the
   blacklist before the new pair exists.
6. **Uniqueness by query.** Titles, overlaps and pending invitations are checked
   with a SELECT and not by a constraint.
7. **Uniqueness twice.** E-mails and usernames have both, and the two disagree:
   the constraint is global, over deleted rows too, and compares case; the queries
   are per tenant or global, mostly over live rows, and ignore case.
8. **Two stores.** A code is consumed in Redis before the database is written, and
   the account is read before that and selected again after it.
9. **Reads of several queries.** Pages and their total, a walk through pages, the
   figures of a dashboard: each query sees what is committed by then, and one
   commit may delete or restore everything an account is involved in.
10. **The time of a row is the start of its transaction.** `created_at` is `now()`,
    so lists and the audit log are ordered by when transactions began and not by
    when they were committed.

`PROJECT.json` lists each hazard at its line with the properties aimed at it.

## 2. How the code is modelled

Every module for a table keeps the committed table (a function from the ids used
so far to rows) and `req`, one slot per request in flight. A request takes two
steps:

- *check*: the service's reads, early returns and decisions. Its guard is the
  conjunction of the conditions under which the code does not raise. It stores in
  the slot what the request will write, computed from the rows as they were read.
- *write*: the flush and the commit. What it writes was decided before; where it
  lands is the table as it is now.

Between the two steps of a request any steps of others may happen. (An update of a
task has a third, before both, `BeginUpdate`: its transaction begins, and so what
its log row will carry as `created_at` is settled.) A row lock
that the flush takes is held until the commit, so flush and commit are one step
for everybody else. A request that fails its checks changes nothing and has no
step. `Rollback` (or `Crash`) ends a request in flight without a write: a dropped
connection, a failed commit, the process dying. With one slot requests run one
after the other; some properties are stated of that case only, and say so.

An UPDATE is a record of columns in which `None` marks a column that is left
alone (`UpdateStatement`, by `Changed`), and `Apply` merges it into the row.

| Module | Stands for |
|---|---|
| `Leaves` | `leave_service.py`, `leave_crud.py`. Check steps `CreateLeave`, `UpdateLeave`, `DeleteLeave`; write steps `InsertLeave`, `FlushUpdate`, `SoftDeleteLeave`; `SkipDeleted` is the second select that misses a deleted row |
| `Accounts` | registration (`register_user`), `create_user`, `delete_me`, `delete_user`, `restore_user`, and the two cascades of `user_crud.py`. `records` stands for the four tables a cascade reaches: a task has an owner and an assignee, the others have one user, who is both. `takenWith` is history: whose standing deletion took the record |
| `RefreshTokens` | login, `refresh_tokens`, `logout`. A refresh has three steps, since it commits in the middle: `Refresh`, `BlacklistOld`, `IssueNew`. `UniqueViolation` is the constraint on `token_jti`, which `main.py` answers with 400 |
| `SessionChain` | what rotation promises: a session is held by one token at a time, or by none while it is exchanged, and once ended stays ended |
| `Tasks` | `task_service.py`, `task_crud.py`, `task_history_crud.py`. An update has three steps, `BeginUpdate`, `UpdateTask`, `FlushUpdate`, the last of which writes its log row too. `log` holds the rows of `task_history` by task in the order of their commits, each with its `createdAt`, the number of rows that were committed when its transaction began. The order the code lists them in is that of `createdAt`, and `Newest` are the rows that may be on top of it |
| `Comments` | `comment_service.py`, `comment_crud.py`, on top of `Tasks`: it adds the table `comments` and slots for requests about them (`creq`) to the variables of `Tasks`, and its next step is one of `Tasks` or one about a comment. Check steps `CreateComment`, `ChangeComment` (an update or a deletion, which differ in what they write only); write steps `InsertComment`, `WriteMessage`, `SoftDeleteComment`. A text stands for who wrote it |
| `Onboarding` | `tenant_service.py`, `invitation_service.py` and their `crud` modules, and the routes by which accounts arise (`register_tenant`, `register_user`, `create_user`, `accept_invitation`), are activated (`verify_email`, `update_user`), and go and return. Here an account is its tenant, e-mail, username and flags, and its deletion one step; `Accounts` has the roles, the deleters and the cascades. `UniqueViolation` is a constraint refusing the write |
| `OneTimePasswords` | sending (`resend_verification_email`, `login_otp_init`, `forgot_password`, and the routes that register an account), and `verify_email`, `login_otp_verify`, `forgot_password_confirm`. A request that presents a code reads the account (`Present`), consumes the code in Redis (`Consume`, `Refuse`), and then issues tokens (`Issue`) or selects the account again and writes it (`Select`, `Miss`, `WriteVerified`, `WritePassword`); others come between any two. `Crash` loses the request and not what Redis was told. `since`, `moved`, `effects` and `answer` are history |
| `OneTimeCode` | what a code promises: stored until it is taken, replaced or expired; once taken, settled: used for its effect on the addressee, or void; it never comes back |
| `Reads` | lists of tasks and comments, walks through pages (`StartWalk`, `ReadPage`, `ReadTotal`) and the dashboard of a user (`StartStats`, `ReadFigure`), on top of `Comments` and so of `Tasks`. `order` is the order of the list, which numbers its rows (`RowNumber`); a task is inserted anywhere, since `created_at` is the start of its transaction (more orders than the database allows). `DeleteAccount` and `RestoreAccount` are the cascades of `user_crud.py` over tasks and comments, which take all of an account's in one commit; `gone` names the deleted accounts and their deleters. A re-registration writes neither tasks nor comments. `stayed`, `left` and `written` are history: what a walk found listed and is still listed, how many tasks have left the list, and how many rows of tasks were written since the first figure |
| `MCLeaves`, `MCAccounts`, `MCRefreshTokens`, `MCOneTimePasswords`, `MCBoard`, `MCOnboarding` | the instances TLC checks; `MCBoard` is that of `Tasks`, `Comments` and `Reads`. All but `MCRefreshTokens` add a variable `mode` that never changes: one run explores serial behaviours of a larger instance and concurrent ones of a smaller |
| `LeavesProofs`, `AccountsProofs`, `RefreshTokensProofs`, `OneTimePasswordsProofs`, `TasksProofs`, `CommentsProofs`, `ReadsProofs`, `OnboardingProofs` | theorems and proofs |

The lists of leaves and of users are operators of `Leaves` and `Accounts`
(`Listed`), next to the rules of GET by id (`CanGet`). `Comments` writes nothing that
`Tasks` reads, so what is proved of `Tasks` is used in `Comments` as it stands. The
cascades of `Reads` do write tasks and comments: its invariant holds that of
`Comments`, which they keep, and only its behaviours without a cascade are
behaviours of `Comments`.

External to the repository's sources, and modelled from their use: `get_db`,
`get_current_user` and `verify_tenant_access` (`app/dependencies`), the blacklist
queries, JWT decoding (a token that was never issued does not decode; expiry is
the action `Expire`), and the OTP store (`send_otp`, `verify_otp`): codes are kept
by e-mail, purpose and tenant, a new code replaces the old one, a verification
removes the code it finds, a cooldown may refuse to send. That the removal is part
of the verification's step is assumed of that store, not shown.

## 3. What the runs show

| Run | Instance | Result |
|---|---|---|
| `leaves` | admin, mentor, intern, an admin elsewhere. Serial: 2 leaves, 2 days. Concurrent: 1 leave of one day, 3 requests | serial: partial date updates keep dates ordered. Always: a verdict names the entitled person who gave it; nothing returns to pending; lists show what GET by id admits |
| `leaves_decision` | 1 leave, 2 requests | **violated**: a leave is decided twice |
| `leaves_overlap` | 2 leaves, 1 request | **violated**: an update of dates makes leaves overlap |
| `accounts` | super admin, admin, intern, 2 tenants, 1 record. Serial: and a newcomer. Concurrent: 2 requests | serial: no live record is left without a live user, admin deletions hold, the restore of an account somebody else deleted returns all that was taken, a last admin is taken by a super admin only. Always: admins are protected; deleters of others are admins; lists show what GET by id admits |
| `accounts_restore` | as `accounts`, 1 request | **violated**: a restore brings back more than the deletion took |
| `accounts_crossing` | two admins and an intern, 1 record, 2 requests | **violated**: two admins delete an account at once, and its restore brings back nothing |
| `accounts_admins` | two admins and an intern, 2 requests | **violated**: a tenant loses its last admin |
| `sessions` | 1 user, 3 tokens, 2 requests | rotation implements `SessionChain`; one successor; logout ends the session; rotation does not hang |
| `codes` | 1 account that comes, goes and moves between 2 tenants. Serial: 3 codes. Concurrent: 2 codes, 2 requests | always: codes implement `OneTimeCode`, crashes and retries included; a verification that answers success has verified the account, unless the account was deleted or registered again since it was read. Serial: codes are looked up under the tenant they were stored under; a verified account has no verification code left |
| `board` | admin, mentor, intern, an admin elsewhere; nine modes, below | always: one tenant per task and per comment; interns delete and write their own; the log tells the state of the task up to updates that overlapped; lists show what GET by id admits; dashboards agree with the lists, and computed while others write are off by no more than the rows of tasks written between their queries; a walk misses no more tasks that stayed than left the list. Serial: titles stay unique; the log chains in the order it is listed; deleted comments, and those of a deleted task, stay as they are |
| `onboarding` | 2 accounts, 2 e-mails, 3 usernames of which 2 differ in case only. Serial: 2 tenants that come and go; or 1 tenant and 2 invitations. Concurrent: 1 tenant, 1 invitation that does not expire, 2 requests | always: an invitation makes at most one account, of its e-mail. Serial: one open invitation per e-mail in a tenant, but for those that came back with their sender, and none that was used |
| `onboarding_names` | the same | **violated**: a restore leaves two live accounts of one tenant with usernames that differ in case only |

The modes of `board`: `titles` (2 tasks, 2 titles, serial), `handover` (1 task, 2
requests), `history` and `overlap` (status and priority of 1 task of the intern,
serial and with 2 requests, 2 log rows), `comments` (1 task, 2 comments, serial),
`threads` (1 task, 1 comment, 2 requests about it), `pages` and `figures` (2 tasks,
one reader next to one writer, pages of one task), and `cascades` (2 tasks of one
account that is deleted and restored between the queries of a dashboard).

`leaves` and `accounts` check `ListedIsGot` too, for leaves and for accounts. That
of leaves leaves out one request: an intern may send a `user_id`, and the query is
`user_id` *or* its own id (`leave_service.py:117`), so it lists the leaves of
somebody else in its tenant, against "INTERN: own only" (line 116). The property,
and the theorem about it, are stated without that request.

`LogTells` says less than a reader of the log may expect. Rows are listed by
`created_at`, the start of the transaction that wrote them, so of two updates that
overlap the one that began first is listed below the other although it may have
been committed last. What holds is that each of status and priority is as the
topmost row that moves it ends, or as some row ends that was committed after the
transaction of that one began. One after the other, rows are listed as they were
committed and chain
(`LogChains`).

`WalkComplete` and `StatsClose` give bounds, which are what paging by offset and
six separate queries allow: each task that leaves the list while a walk goes on
may hide one that stayed, and one deletion or restore of an account moves the
figures by as many tasks as it writes. If no task leaves, the first says that a
walk misses none.

The violated runs check what a docstring, a comment or an error message of the
code says; `PROJECT.json` quotes each under "findings".

**Bounds.** Rules look at the actor, the row's users and one other row, so one
person per role in a tenant, one outside it, and two rows exercise every
combination a rule distinguishes. Three slots let one request read, a second
commit and a third act on what the second wrote. Two days distinguish before,
equal and after, and the inclusive bounds of the overlap query. Three tokens are a
login and two rotations, or two sessions. Three codes are two of one purpose, of
which the second replaces the first, and one of another purpose, or one sent before
an account was registered again in the other tenant and two after. Two tasks and
pages of one task make a walk of two pages that others shift. Two e-mails and two
spellings of one name tell the queries from the constraints. `MaxDay`, `MaxIssued`, `MaxSent`,
`MaxConcurrent`, `MaxLog` and the sets of ids are the only bounds in the guards of
the models, and what the `MC` modules add for a `mode` (`OfOneDay`, `NoEve`, `ChangesTenants`,
`MaxInvitations`, `Bounds`, where the rows of tasks written during one dashboard are
4 at most: both tasks deleted and restored) is stated there; in `Tasks` the length
of the log is bounded by `MaxLog` plus one row per request in flight. Symmetry is used over ids,
e-mails, spellings of a name and request slots, in runs of safety properties only.

**Fairness.** `RotationEnds` and `OneTime` need it (the latter because
`OneTimeCode` promises that a consumed code is settled). `FairSpec` asks for weak
fairness of `Proceed(r)`: a request that passed its checks is run on by the event
loop until it answers. Nothing asks clients to act, and `Crash` may end any
request. The other runs use specifications without fairness and check safety only.

**Serial properties.** `DatesOrdered`, `NoDuplicateTask`, `LogChains`, `HiddenStays`,
`NoOrphan`, `AdminDeletionHolds`, `CascadeReturns`, `LastAdminTakenBySuperAdmin`,
`OpenOnceUnlessRestored`, `CodesReach` and `NoCodeForVerified` hold of requests that run
one after the other, and that is what their runs check (as `Serial...`). With two
requests in flight the checks they rest on are stale: a task is duplicated, an
e-mail is invited twice, an admin's deletion is undone by a re-registration that
crosses it, a comment is inserted under a deleted task, an account is made from an
invitation that was deleted meanwhile and stays unmarked. So these properties do not
stand for the interleavings, which "hazards" lists apart. The same holds of rules that a
serial property would only restate, and that no property is spent on: a leave is
inserted clear of the user's others, a tenant is deleted when nobody in it is
active, tokens are issued to accounts that are active. `accounts_crossing`,
`accounts_admins` and `leaves_decision` show what becomes of `CascadeReturns`, of a
tenant's admins and of verdicts when two requests cross.

## 4. What is proved

Every invariant and every action property that a passing run checks is a theorem
too; what is left to TLC is liveness.

| Theorem | States |
|---|---|
| `LeavesTypeCorrect`, `ApprovalsAreAttributed`, `VerdictKeepsItsAuthor`, `PendingIsLeftForGood` | the properties of `leaves` that hold of every interleaving, but for its list |
| `AccountsTypeCorrect`, `AdminsAreProtected`, `OnlyAdminsDeleteOthers` | those of `accounts` |
| `TokensTypeCorrect`, `SessionsHaveOneSuccessor`, `LogoutsEndSessions`, `RotationImplementsChain` | `TypeOK`, `OneSuccessor`, `LogoutEnds` and `ChainSpec` of `sessions` |
| `CodesTypeCorrect`, `VerificationSucceeds`, `CodesAreOneTime` | `TypeOK` and `SuccessVerifies` of `codes`, and that every step of `OneTimePasswords` is one of `OneTimeCode` or a stutter (`CodeSafety`, the part of `OneTime` without fairness) |
| `LeavesListedAreGot`, `AccountsListedAreGot`, `ListsShowWhatIsGot` | `ListedIsGot` of `leaves` (without the request of section 3), `accounts` and `board` |
| `DashboardAgreesWithLists`, `DashboardsAreClose`, `WalksMissFew`, `ReadsTypeCorrect` | `StatsAgree`, `StatsClose`, `WalkComplete` and `ReadsTypeOK` of `board` |
| `TasksTypeCorrect`, `TasksStayInTenant`, `InternsDeleteTheirOwn`, `LogTellsTheTask` | `TypeOK` of `Tasks`, `OneTenant`, `InternDeletesOwn` and `LogTells` of `board` |
| `CommentsTypeCorrect`, `CommentsAreOfOneTenant`, `InternsKeepToTheirOwn` | `CommentsTypeOK`, `CommentsStayInTenant` and `InternsOwnComments` of `board` |
| `OnboardingTypeCorrect`, `InvitationsAreSingleUse` | `TypeOK` and `InvitationSingleUse` of `onboarding` |

Requests one after the other have theorems of their own, in two layers. The first
is about the specification: as long as no two requests are in flight together
(`[]OneAtATime`; for comments `[]OneInFlight`, which counts requests about tasks
too), the property holds.

| Theorem | States of requests one at a time |
|---|---|
| `OneAtATimeDatesOrdered`, `OneAtATimeDecisionStands` | dates stay ordered; a decision is final, so the stale read is all that `leaves_decision` needs to violate it |
| `OneAtATimeNoDuplicateTask`, `OneAtATimeLogChains`, `HiddenCommentsStay` | titles stay unique, the log is a chain in the order it is listed, what no request can find stays as it is |
| `OneAtATimeNoOrphan`, `OneAtATimeAdminDeletion`, `OneAtATimeCascadeReturns`, `OneAtATimeLastAdmin` | a live record has at least one live user; an admin's deletion is undone by a restore only; the restore of an account somebody else deleted returns what was taken; a last admin is taken by a super admin only |
| `OneAtATimeOpenOnce` | of two open invitations to an e-mail in a tenant one came back with its sender, and none that was used is open; besides, nothing may be deleted, restored or expire while a request is in flight (`[][Undisturbed]_vars`), since `Onboarding` has deletions as one step |
| `OneAtATimeCodesReach`, `OneAtATimeNoCodeForVerified` | codes are found under the tenant they are looked up under, and verified accounts have none left to verify, whatever becomes of the accounts meanwhile |

The second is about the runs: a behaviour of an `MC` module is one of the
specification below it (`MCSpec => Spec`, a lemma of each proof module that needs
it), a serial one has one request at a time, and so the run's property follows:
`SerialDatesAreOrdered`, `SerialTasksAreUnique`, `SerialLogsChain`,
`SerialHiddenCommentsStay`, `SerialNoOrphans`, `SerialAdminDeletionStands`,
`SerialCascadesReturn`, `SerialLastAdmins`, `SerialOpenOnce`,
`SerialCodesAllReach`, `SerialNoCodesForVerified`.

They hold for any number of users, tenants, rows and concurrent requests, from the
named assumptions on the constants in the modules (types of `TenantOf` and
`RoleOf`, `None` outside the other sets, phases and tokens disjoint, the three
statuses of `TaskStatus` and no others, people and columns an `MC` module names
among those there are). Each rests
on an inductive invariant (`IInv`, `CommentsInv`, `ReadsInv`) that adds to the
property what requests in flight carry:

- *Leaves*: a request that will write a verdict will write its author too, unless
  the row it read already named that author, and a pending row names nobody;
  rows that stop being pending never return to it. So merging columns from
  several requests cannot separate a verdict from its author.
- *Accounts*: a deletion in flight is by an admin or by the account itself, a
  self-deletion and a re-registration in flight are of accounts that are not
  admins', and admins never stop being admins, because only self-deleted accounts
  are re-registered. That circle is why the two theorems need one invariant.
- *RefreshTokens*: every token descends from the login that began its session; a
  token about to be exchanged is in the blacklist; per session there is at most one
  way on. The refinement maps each step to `Begin`, `GiveUp`, `Rotate`, `End` or a
  stutter of `SessionChain`.
- *OneTimePasswords*: a code is at one place only: under the key it was sent to,
  with one request that took it, or among the effects. That is what gives it one
  life, and what keeps a replayed or crossing request from a second effect. For
  `SuccessVerifies`, a request whose account was neither deleted nor registered
  again since it was read still finds it live, and finds it verified if it was
  verified when read, so leaving the column out of the UPDATE does no harm.
- *Tasks*: an update in flight sets a column exactly when its log row moves it, to
  the value the log row ends at, although both were computed from a stale row.
  Hence the last row *committed* that moves a column ends at the value of that
  column (`RowReplays`). It is not the one listed first; but a row is committed
  after its transaction began (`RowBegan`), and so the last one was committed after
  the one listed first began, which is `LogTells`. Tenant and owner of a task never
  change, which keeps a deletion in flight rightful. Cascades delete tasks their
  deleter does not own, so that interns delete their own only is an invariant of
  `Tasks` apart (`DeletersInv`) and not of what `Reads` builds on.
- *Comments*: the invariant of `Tasks`, whose steps leave every task in the table
  and in its tenant, and the same argument one level down: author and tenant of a
  comment never change, so a change in flight stays rightful whatever crosses it.
  The cascades of accounts keep this invariant (`CascadeKeepsInv`).
- *Lists and dashboard*: owner and assignee of a task are of its tenant
  (`OneTenant`), a comment is of its task's (`CommentsStayInTenant`), a leave of its
  user's, and mentors and tenant admins always have a tenant: with these the query
  of a list and the rule of GET by id, which test different columns, select the
  same rows. `StatsAgree` counts sets that are equal for the same reason.
- *Onboarding*: an account an acceptance in flight would make has the e-mail of
  the invitation, no two accounts have the same e-mail, and no route changes the
  e-mail of an account. So the constraint on e-mails, which counts deleted
  accounts, refuses every second acceptance; the checks of `accept_invitation`
  play no part in the proof.

- *Logout*: the invariant of rotation again. A session has at most one way on, so
  a logout that gets its token into the blacklist (no refresh did so before it, as
  the identifier is unique there) takes the only one.
- *Walks*: whatever was listed when a walk began, has not been seen and has not
  left the list, is at a row behind those read so far, but for as many as tasks have
  left. A row put in anywhere keeps the others in order (`InsertAnywhere`,
  `OrderIsKept`), a row moves up by as many places as tasks leave (`RowsMoveUp`), and
  since rows have different numbers (`RowNumbersDiffer`) no more of them cross the
  place read so far (`FewCross`). The walk ends at a total that no row exceeds. That
  argument needs rows to be counted, so a page is stated by row numbers
  (`RowNumber`), as `OFFSET` and `LIMIT` count them.
- *Dashboards in flight*: the figures by status that came, and those that would
  come now, add up to the total but for the rows of tasks written since the first
  query. A commit moves the sum of the figures to come by no more than the rows it
  writes (`FiguresMove`), whichever they are: a request about a task writes one, a
  cascade as many as the account is involved in.
- *One request at a time*: what a request read still holds when it writes
  (`InFlightCurrent` and its like in each module), because nobody else wrote
  between. For accounts the invariant adds what a cascade leaves behind: a record
  that a standing deletion took names that deletion's deleter, and its account is
  deleted. For invitations, that one which made an account is marked.

Left to TLC: `RotationEnds`, and in `OneTime` that a consumed code is settled. Both
are liveness under fairness, which the prover does not reach.

## 5. What is not modelled, and why

- `update_me` and `change_password` write names and the hash only; no rule rests on
  either, and no property tells them apart. So `Accounts` is listed as partly
  modelled.
- The statistics of tenants for a super admin: plain counts that nothing else
  repeats. The pages of a task's log, the other pages and totals (the total of the
  comments is the length of the page), search by text.
- Super admins in `OneTimePasswords`: their codes are kept without a tenant, and
  their accounts never move. The counter of wrong attempts is left out too.
- A mentor's list of leaves is cut to the leaves of at most 5000 interns
  (`_get_mentor_leave_user_ids`); the model has no such limit.
- A restore that brings back a duplicate of a task or overlapping leaves: records in
  `Accounts` have no titles or dates, and `Tasks` and `Leaves` no restores. It is
  listed under "hazards" without a property, as is the list of leaves described in
  section 3.
- The rule that an intern assigns a task to itself only, which
  `schemas/task.py:64` states for updates too: `update_task` has no such check, and
  `Tasks` lets interns reassign as the code does. A property would only repeat it.
- Super admins are no users in `Tasks`, `Comments` and `Reads`, whose routes ask for
  a tenant. The accounts of tenant admins they delete would go with tasks and
  comments as others do, but name a deleter of no tenant.
- Who may invite, register a tenant or create an account is left open in
  `Onboarding`: its properties do not depend on it. Roles are in `Accounts`.
- Middleware, logging, e-mail, configuration, migrations: no state the properties
  speak of. Migrations leave the constraints the models name.
- The clock: dates in the past are refused by schemas before any rule is reached;
  expiry of tokens and codes is an action that may happen at any time.
- Pool exhaustion (`pool_timeout`): a request that gets no connection fails before
  its first read.
