------------------------------ MODULE Comments ------------------------------
(***************************************************************************)
(* Comments under tasks: services/comment_service.py, crud/comment_crud.py *)
(* and models/comment.py, together with the requests of Tasks that         *)
(* reassign and delete the tasks meanwhile.                                *)
(*                                                                         *)
(* Every handler reads the task, then the comment, and decides; a second   *)
(* step selects the comment again, writes and commits.                     *)
(*                                                                         *)
(* Abstracted: a text is told apart by who wrote it, so an update that     *)
(* sends the text that is there already, and writes nothing, is Rollback.  *)
(* Users are fixed here; Accounts has the deletions that cascade to        *)
(* comments.                                                               *)
(***************************************************************************)
EXTENDS Tasks

CONSTANTS
  CommentId,   (* ids a comment can be given; bounds the number of comments *)
  CommentReq   (* slots for requests about comments; bounds the concurrency *)

VARIABLES
  comments,    (* the committed table, a function from the ids used so far  *)
  creq         (* what each request about a comment has decided to write    *)

cvars == <<vars, comments, creq>>

Comment == [tenant: Tenant, task: TaskId, user: User, message: User,
            deletedBy: User \cup {None}]

CommentRequest ==
  {Idle}
    \cup [op: {"insert"}, row: Comment]
    \cup [op: {"edit", "delete"}, actor: User, comment: CommentId]

CommentsTypeOK ==
  /\ TypeOK
  /\ DOMAIN comments \subseteq CommentId
  /\ comments \in [DOMAIN comments -> Comment]
  /\ creq \in [CommentReq -> CommentRequest]

-----------------------------------------------------------------------------
(* Queries and rules.                                                      *)

LiveComments == {c \in DOMAIN comments : comments[c].deletedBy = None}

(* Task access, and mentors besides for the tasks an intern is to do.      *)
CanAccessForComment(a, row) ==
  \/ CanAccess(a, row)
  \/ RoleOf[a] = "MENTOR" /\ row.tenant = TenantOf[a] /\ RoleOf[row.assignee] = "INTERN"

(* Mutant: an intern with access to the task may change every comment.     *)
MutantCanEditDelete(a, row) == TRUE

CanEditDelete(a, row) == RoleOf[a] = "INTERN" => row.user = a

(* Mutant: the task is looked up without the filter on deleted ones.       *)
MutantTaskInScope(a, t) == t \in DOMAIN tasks /\ CanAccessForComment(a, tasks[t])

(* What every handler asks of the task in its path.                        *)
TaskInScope(a, t) == t \in Live /\ CanAccessForComment(a, tasks[t])

(* get_comment with the task and the tenant of the path.                   *)
Found(c, t) ==
  /\ c \in LiveComments
  /\ comments[c].task = t
  /\ comments[c].tenant = tasks[t].tenant

-----------------------------------------------------------------------------
(* Requests that create, update and delete a comment.                      *)

CommentsInit ==
  /\ Init
  /\ comments = [c \in {} |-> Idle]
  /\ creq = [r \in CommentReq |-> Idle]

StartComment(r, request) ==
  /\ creq[r] = Idle
  /\ creq' = [creq EXCEPT ![r] = request]
  /\ UNCHANGED <<vars, comments>>

FinishComment(r) ==
  /\ creq' = [creq EXCEPT ![r] = Idle]
  /\ UNCHANGED vars

NewComment(a, t) ==
  [tenant |-> tasks[t].tenant, task |-> t, user |-> a, message |-> a,
   deletedBy |-> None]

(* Mutant: the author's access to the task is not checked.                 *)
MutantCreateComment(r, a, t) ==
  /\ t \in Live
  /\ StartComment(r, [op |-> "insert", row |-> NewComment(a, t)])

CreateComment(r, a, t) ==
  /\ TaskInScope(a, t)
  /\ StartComment(r, [op |-> "insert", row |-> NewComment(a, t)])

(* The task need only exist by now: its row stays when it is deleted.      *)
InsertComment(r, c) ==
  /\ creq[r].op = "insert"
  /\ c \notin DOMAIN comments
  /\ comments' = [i \in DOMAIN comments \cup {c} |->
                    IF i = c THEN creq[r].row ELSE comments[i]]
  /\ FinishComment(r)

(* update_comment and delete_comment differ in what they write only.       *)
ChangeComment(r, op, a, t, c) ==
  /\ TaskInScope(a, t)
  /\ Found(c, t)
  /\ CanEditDelete(a, comments[c])
  /\ StartComment(r, [op |-> op, actor |-> a, comment |-> c])

(* The UPDATE filters on the id alone: a deletion that commits after the   *)
(* second select is not seen.                                              *)
WriteMessage(r) ==
  /\ creq[r].op = "edit"
  /\ comments' = [comments EXCEPT ![creq[r].comment].message = creq[r].actor]
  /\ FinishComment(r)

SoftDeleteComment(r) ==
  /\ creq[r].op = "delete"
  /\ comments' = [comments EXCEPT ![creq[r].comment].deletedBy = creq[r].actor]
  /\ FinishComment(r)

(* The second select misses a comment deleted meanwhile: nothing is        *)
(* written, and the request answers as if it had been.                     *)
SkipDeletedComment(r) ==
  /\ creq[r].op \in {"edit", "delete"}
  /\ creq[r].comment \notin LiveComments
  /\ FinishComment(r)
  /\ UNCHANGED comments

RollbackComment(r) ==
  /\ creq[r] # Idle
  /\ FinishComment(r)
  /\ UNCHANGED comments

CheckComment(r) ==
  \E a \in User, t \in TaskId :
    \/ CreateComment(r, a, t)
    \/ \E c \in CommentId, op \in {"edit", "delete"} : ChangeComment(r, op, a, t, c)

WriteComment(r) ==
  \/ \E c \in CommentId : InsertComment(r, c)
  \/ WriteMessage(r)
  \/ SoftDeleteComment(r)
  \/ SkipDeletedComment(r)
  \/ RollbackComment(r)

CommentsNext ==
  \/ Next /\ UNCHANGED <<comments, creq>>
  \/ \E r \in CommentReq : CheckComment(r) \/ WriteComment(r)

CommentsSpec == CommentsInit /\ [][CommentsNext]_cvars

-----------------------------------------------------------------------------
(* Properties.                                                             *)

(* Whatever requests interleave, a comment is filed under the tenant of    *)
(* its task, and whoever made it, wrote its text or deleted it belongs     *)
(* there, although the task may have been handed on since each read it.    *)
CommentsStayInTenant ==
  \A c \in DOMAIN comments :
    LET row == comments[c] IN
      /\ row.task \in DOMAIN tasks
      /\ tasks[row.task].tenant = row.tenant
      /\ \A u \in {row.user, row.message} \cup ({row.deletedBy} \ {None}) :
           TenantOf[u] = row.tenant

(* "INTERN can edit/delete only own comments" (comment_service.py:1): the  *)
(* text and the deletion of a comment that an intern did not make are not  *)
(* an intern's, whatever requests interleave.                              *)
InternsOwnComments ==
  \A c \in DOMAIN comments :
    \A u \in {comments[c].message} \cup ({comments[c].deletedBy} \ {None}) :
      RoleOf[u] = "INTERN" => comments[c].user = u

(* What no request can find does not change: a deleted comment, and every  *)
(* comment under a deleted task, stays as it was, and no comment joins     *)
(* them.  The deletion of a task leaves the comments in the table as they  *)
(* are, so every handler depends on the look at the task.  True of         *)
(* requests that run one after the other.                                  *)
HiddenStays ==
  /\ \A c \in DOMAIN comments :
       (c \notin LiveComments \/ comments[c].task \notin Live)
         => comments'[c] = comments[c]
  /\ \A c \in DOMAIN comments' \ DOMAIN comments : comments'[c].task \in Live
=============================================================================
