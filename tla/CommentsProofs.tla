---------------------------- MODULE CommentsProofs ----------------------------
(***************************************************************************)
(* Proofs about Comments, for any number of users, tasks, comments and     *)
(* concurrent requests, on top of the invariant of Tasks.  The last        *)
(* section is about requests that run one after the other.                 *)
(***************************************************************************)
EXTENDS Comments, TasksProofs

(* A comment and everybody on it belong to the tenant of its task, and an  *)
(* intern is on it as its author only.                                     *)
CommentOK(row) ==
  /\ row.task \in DOMAIN tasks
  /\ tasks[row.task].tenant = row.tenant
  /\ TenantOf[row.user] = row.tenant
  /\ TenantOf[row.message] = row.tenant
  /\ RoleOf[row.message] = "INTERN" => row.user = row.message
  /\ row.deletedBy # None => /\ TenantOf[row.deletedBy] = row.tenant
                             /\ RoleOf[row.deletedBy] = "INTERN" => row.user = row.deletedBy

(* A change in flight stays rightful: author and tenant of a comment never *)
(* change.                                                                 *)
CommentInFlightOK(rq) ==
  /\ rq.op = "insert" => CommentOK(rq.row)
  /\ rq.op \in {"edit", "delete"} =>
       /\ rq.comment \in DOMAIN comments
       /\ TenantOf[rq.actor] = comments[rq.comment].tenant
       /\ RoleOf[rq.actor] = "INTERN" => comments[rq.comment].user = rq.actor

(* The inductive invariant.                                                *)
CommentsInv ==
  /\ IInv
  /\ CommentsTypeOK
  /\ \A c \in DOMAIN comments : CommentOK(comments[c])
  /\ \A r \in CommentReq : CommentInFlightOK(creq[r])

-----------------------------------------------------------------------------
LEMMA CommentsInitInv == CommentsInit => CommentsInv
<1> SUFFICES ASSUME CommentsInit PROVE CommentsInv
  OBVIOUS
<1>1. IInv
  BY InitInv DEF CommentsInit
<1>2. DOMAIN comments = {} /\ creq = [r \in CommentReq |-> Idle]
  BY DEF CommentsInit
<1>3. \A r \in CommentReq : CommentInFlightOK(creq[r])
  BY <1>2 DEF CommentInFlightOK, Idle
<1>4. CommentsTypeOK
  BY <1>1, <1>2 DEF CommentsInit, CommentsTypeOK, IInv, CommentRequest
<1> QED
  BY <1>1, <1>2, <1>3, <1>4 DEF CommentsInv

(* Tasks stay in the table and in their tenant.                            *)
LEMMA TasksKeepTenant ==
  ASSUME IInv, [Next]_vars
  PROVE  \A t \in DOMAIN tasks : t \in DOMAIN tasks' /\ tasks'[t].tenant = tasks[t].tenant
<1>1. CASE UNCHANGED vars
  BY <1>1 DEF vars
<1>2. ASSUME NEW r \in Req, Check(r)
      PROVE  tasks' = tasks
  BY <1>2, CheckHolds DEF Hold
<1>3. ASSUME NEW r \in Req, Write(r)
      PROVE  \A t \in DOMAIN tasks : t \in DOMAIN tasks' /\ tasks'[t].tenant = tasks[t].tenant
  <2>0. req[r] \in Request /\ InFlightOK(req[r]) /\ tasks \in [DOMAIN tasks -> Row]
    BY DEF IInv, TypeOK
  <2>1. ASSUME NEW i \in TaskId, InsertTask(r, i)
        PROVE  \A t \in DOMAIN tasks : t \in DOMAIN tasks' /\ tasks'[t] = tasks[t]
    BY <2>1 DEF InsertTask
  <2>2. CASE FlushUpdate(r)
    <3>1. /\ req[r].task \in DOMAIN tasks /\ req[r].set \in Updates
          /\ tasks' = [tasks EXCEPT ![req[r].task] = Apply(req[r].set, tasks[req[r].task])]
      BY <2>0, <2>2 DEF FlushUpdate, Request, Idle, InFlightOK
    <3>2. Apply(req[r].set, tasks[req[r].task]).tenant = tasks[req[r].task].tenant
      BY <2>0, <3>1, ApplyRow
    <3> QED
      BY <3>1, <3>2
  <2>3. CASE SoftDeleteTask(r)
    BY <2>0, <2>3 DEF SoftDeleteTask, Row
  <2>4. CASE SkipDeleted(r) \/ Rollback(r)
    BY <2>4 DEF SkipDeleted, Rollback
  <2> QED
    BY <1>3, <2>1, <2>2, <2>3, <2>4 DEF Write
<1> QED
  BY <1>1, <1>2, <1>3 DEF Next

(* A step of Tasks leaves the comments alone and disturbs none of them.    *)
LEMMA TaskStepKeepsInv ==
  ASSUME CommentsInv, [Next]_vars, UNCHANGED <<comments, creq>>
  PROVE  CommentsInv'
<1>1. IInv'
  BY NextKeepsInv DEF CommentsInv
<1>2. \A t \in DOMAIN tasks : t \in DOMAIN tasks' /\ tasks'[t].tenant = tasks[t].tenant
  BY TasksKeepTenant DEF CommentsInv
<1>3. CommentsTypeOK'
  BY <1>1 DEF CommentsInv, CommentsTypeOK, IInv
<1>4. \A row : CommentOK(row) => CommentOK(row)'
  BY <1>2 DEF CommentOK
<1>5. \A c \in DOMAIN comments : CommentOK(comments[c])'
  BY <1>4 DEF CommentsInv, CommentOK
<1>6. \A r \in CommentReq : CommentInFlightOK(creq[r])'
  BY <1>4 DEF CommentsInv, CommentInFlightOK, CommentOK
<1> QED
  BY <1>1, <1>3, <1>5, <1>6 DEF CommentsInv

(* A step that starts a request, given that the request is well formed.    *)
LEMMA StartCommentKeepsInv ==
  ASSUME CommentsInv, NEW r \in CommentReq, NEW rq \in CommentRequest,
         CommentInFlightOK(rq), StartComment(r, rq)
  PROVE  CommentsInv'
<1>1. /\ UNCHANGED vars /\ comments' = comments
      /\ creq' = [creq EXCEPT ![r] = rq]
  BY DEF StartComment
<1>2. IInv' /\ tasks' = tasks
  BY <1>1, NextKeepsInv DEF CommentsInv, vars
<1>3. CommentsTypeOK'
  BY <1>1, <1>2 DEF CommentsInv, CommentsTypeOK, IInv
<1>4. \A q \in CommentReq : CommentInFlightOK(creq'[q])
  BY <1>1 DEF CommentsInv, CommentsTypeOK
<1> QED
  BY <1>1, <1>2, <1>3, <1>4 DEF CommentsInv, CommentInFlightOK, CommentOK

(* A step that ends a request and leaves author and tenant of every        *)
(* comment alone, given that the rows it leaves are well formed.           *)
LEMMA FinishCommentKeepsInv ==
  ASSUME CommentsInv, NEW r \in CommentReq, FinishComment(r),
         DOMAIN comments \subseteq DOMAIN comments', DOMAIN comments' \subseteq CommentId,
         comments' \in [DOMAIN comments' -> Comment],
         \A c \in DOMAIN comments' : CommentOK(comments'[c]),
         \A c \in DOMAIN comments : /\ comments'[c].user = comments[c].user
                                    /\ comments'[c].tenant = comments[c].tenant
  PROVE  CommentsInv'
<1>1. UNCHANGED vars /\ creq' = [creq EXCEPT ![r] = Idle]
  BY DEF FinishComment
<1>2. IInv' /\ tasks' = tasks
  BY <1>1, NextKeepsInv DEF CommentsInv, vars
<1>3. CommentsTypeOK'
  BY <1>1, <1>2 DEF CommentsInv, CommentsTypeOK, IInv, CommentRequest
<1>4. ASSUME NEW q \in CommentReq
      PROVE  CommentInFlightOK(creq[q])'
  <2>1. CASE q = r
    BY <1>1, <2>1 DEF CommentsInv, CommentsTypeOK, CommentInFlightOK, Idle
  <2>2. CASE q # r
    BY <1>1, <1>2, <2>2 DEF CommentsInv, CommentsTypeOK, CommentInFlightOK, CommentOK
  <2> QED
    BY <2>1, <2>2
<1>5. \A c \in DOMAIN comments' : CommentOK(comments[c])'
  BY <1>2 DEF CommentOK
<1> QED
  BY <1>2, <1>3, <1>4, <1>5 DEF CommentsInv

LEMMA CheckCommentKeepsInv ==
  ASSUME CommentsInv, NEW r \in CommentReq, CheckComment(r)
  PROVE  CommentsInv'
<1> USE ConstantsAssumption DEF CommentsInv
<1>0. ASSUME NEW a \in User, NEW t \in TaskId, TaskInScope(a, t)
      PROVE  /\ t \in DOMAIN tasks /\ tasks[t] \in Row
             /\ TenantOf[a] = tasks[t].tenant
  BY <1>0 DEF TaskInScope, CanAccessForComment, CanAccess, Live, CommentsTypeOK, TypeOK
<1>1. ASSUME NEW a \in User, NEW t \in TaskId, CreateComment(r, a, t)
      PROVE  CommentsInv'
  <2> DEFINE rq == [op |-> "insert", row |-> NewComment(a, t)]
  <2>1. /\ t \in DOMAIN tasks /\ tasks[t] \in Row
        /\ TenantOf[a] = tasks[t].tenant
    BY <1>0, <1>1 DEF CreateComment
  <2>2. rq \in CommentRequest
    BY <2>1 DEF NewComment, Comment, CommentRequest, Row
  <2>3. CommentInFlightOK(rq)
    BY <2>1 DEF CommentInFlightOK, CommentOK, NewComment
  <2> QED
    BY <1>1, <2>2, <2>3, StartCommentKeepsInv DEF CreateComment
<1>2. ASSUME NEW a \in User, NEW t \in TaskId, NEW c \in CommentId,
             NEW op \in {"edit", "delete"}, ChangeComment(r, op, a, t, c)
      PROVE  CommentsInv'
  <2> DEFINE rq == [op |-> op, actor |-> a, comment |-> c]
  <2>1. TenantOf[a] = tasks[t].tenant
    BY <1>0, <1>2 DEF ChangeComment
  <2>2. /\ c \in DOMAIN comments /\ comments[c].tenant = tasks[t].tenant
        /\ RoleOf[a] = "INTERN" => comments[c].user = a
        /\ StartComment(r, rq)
    BY <1>2 DEF ChangeComment, Found, LiveComments, CanEditDelete
  <2>3. rq \in CommentRequest
    BY DEF CommentRequest
  <2>4. CommentInFlightOK(rq)
    BY <2>1, <2>2 DEF CommentInFlightOK
  <2> QED
    BY <2>2, <2>3, <2>4, StartCommentKeepsInv
<1> QED
  BY <1>1, <1>2 DEF CheckComment

LEMMA WriteCommentKeepsInv ==
  ASSUME CommentsInv, NEW r \in CommentReq, WriteComment(r)
  PROVE  CommentsInv'
<1> USE DEF CommentsInv
<1>0. /\ creq[r] \in CommentRequest /\ CommentInFlightOK(creq[r])
      /\ comments \in [DOMAIN comments -> Comment] /\ DOMAIN comments \subseteq CommentId
  BY DEF CommentsTypeOK
<1>1. ASSUME NEW c \in CommentId, InsertComment(r, c)
      PROVE  CommentsInv'
  <2>1. /\ creq[r].op = "insert" /\ c \notin DOMAIN comments
        /\ comments' = [i \in DOMAIN comments \cup {c} |->
                          IF i = c THEN creq[r].row ELSE comments[i]]
        /\ FinishComment(r)
    BY <1>1 DEF InsertComment
  <2>2. creq[r].row \in Comment /\ CommentOK(creq[r].row)
    BY <1>0, <2>1 DEF CommentRequest, Idle, CommentInFlightOK
  <2>3. /\ DOMAIN comments \subseteq DOMAIN comments'
        /\ DOMAIN comments' \subseteq CommentId
        /\ comments' \in [DOMAIN comments' -> Comment]
    BY <1>0, <2>1, <2>2
  <2>4. \A i \in DOMAIN comments' : CommentOK(comments'[i])
    BY <2>1, <2>2
  <2>5. \A i \in DOMAIN comments : comments'[i] = comments[i]
    BY <2>1
  <2> QED
    BY <2>1, <2>3, <2>4, <2>5, FinishCommentKeepsInv
<1>2. CASE WriteMessage(r) \/ SoftDeleteComment(r)
  <2> DEFINE c == creq[r].comment
             a == creq[r].actor
  <2>1. /\ creq[r].op \in {"edit", "delete"}
        /\ FinishComment(r)
    BY <1>2 DEF WriteMessage, SoftDeleteComment
  <2>2. /\ c \in DOMAIN comments /\ a \in User
        /\ comments[c] \in Comment /\ CommentOK(comments[c])
        /\ TenantOf[a] = comments[c].tenant
        /\ RoleOf[a] = "INTERN" => comments[c].user = a
    BY <1>0, <2>1 DEF CommentRequest, Idle, CommentInFlightOK
  <2>3. PICK row \in {[comments[c] EXCEPT !.message = a], [comments[c] EXCEPT !.deletedBy = a]} :
          comments' = [comments EXCEPT ![c] = row]
    BY <1>2 DEF WriteMessage, SoftDeleteComment
  <2> HIDE DEF c, a
  <2>4. /\ row \in Comment /\ row.user = comments[c].user
        /\ row.tenant = comments[c].tenant
    BY <2>2 DEF Comment
  <2>5. CommentOK(row)
    BY <2>2 DEF Comment, CommentOK
  <2>6. /\ DOMAIN comments' = DOMAIN comments
        /\ comments' \in [DOMAIN comments' -> Comment]
    BY <1>0, <2>3, <2>4
  <2>7. \A i \in DOMAIN comments' : CommentOK(comments'[i])
    BY <2>2, <2>3, <2>5
  <2>8. \A i \in DOMAIN comments : /\ comments'[i].user = comments[i].user
                                   /\ comments'[i].tenant = comments[i].tenant
    BY <2>2, <2>3, <2>4
  <2> QED
    BY <1>0, <2>1, <2>6, <2>7, <2>8, FinishCommentKeepsInv
<1>3. CASE SkipDeletedComment(r) \/ RollbackComment(r)
  <2>1. FinishComment(r) /\ comments' = comments
    BY <1>3 DEF SkipDeletedComment, RollbackComment
  <2> QED
    BY <1>0, <2>1, FinishCommentKeepsInv
<1> QED
  BY <1>1, <1>2, <1>3 DEF WriteComment

LEMMA CommentsNextKeepsInv == CommentsInv /\ [CommentsNext]_cvars => CommentsInv'
<1> SUFFICES ASSUME CommentsInv, [CommentsNext]_cvars PROVE CommentsInv'
  OBVIOUS
<1>1. CASE UNCHANGED cvars
  BY <1>1, TaskStepKeepsInv DEF cvars
<1>2. CASE Next /\ UNCHANGED <<comments, creq>>
  BY <1>2, TaskStepKeepsInv
<1> QED
  BY <1>1, <1>2, CheckCommentKeepsInv, WriteCommentKeepsInv DEF CommentsNext

LEMMA CommentsInvariance == CommentsSpec => []CommentsInv
BY CommentsInitInv, CommentsNextKeepsInv, PTL DEF CommentsSpec

-----------------------------------------------------------------------------
(* The tables always hold rows of their schema.                            *)
THEOREM CommentsTypeCorrect == CommentsSpec => []CommentsTypeOK
<1>1. CommentsInv => CommentsTypeOK
  BY DEF CommentsInv
<1> QED
  BY CommentsInvariance, <1>1, PTL

(* A comment and everybody on it belong to the tenant of its task, however *)
(* often the task is reassigned while requests about it are in flight.     *)
THEOREM CommentsAreOfOneTenant == CommentsSpec => []CommentsStayInTenant
<1>1. CommentsInv => CommentsStayInTenant
  BY DEF CommentsInv, CommentOK, CommentsStayInTenant
<1> QED
  BY CommentsInvariance, <1>1, PTL

(* Interns write and delete their own comments only, whatever crosses.     *)
THEOREM InternsKeepToTheirOwn == CommentsSpec => []InternsOwnComments
<1>1. CommentsInv => InternsOwnComments
  BY DEF CommentsInv, CommentOK, InternsOwnComments
<1> QED
  BY CommentsInvariance, <1>1, PTL

-----------------------------------------------------------------------------
(* Requests that run one after the other, about tasks and about comments.  *)

OneInFlight ==
  /\ OneAtATime
  /\ \A q, r \in CommentReq : creq[q] # Idle /\ creq[r] # Idle => q = r
  /\ \A q \in Req, r \in CommentReq : req[q] = Idle \/ creq[r] = Idle

(* The comment a request is about to write is one that can be found.       *)
CommentInFlightCurrent(rq) ==
  /\ rq.op = "insert" => rq.row.task \in Live
  /\ rq.op \in {"edit", "delete"} =>
       rq.comment \in LiveComments /\ comments[rq.comment].task \in Live

CommentsSerialInv == \A r \in CommentReq : CommentInFlightCurrent(creq[r])

(* While a request about a comment is in flight, no task is written.       *)
LEMMA TasksWait ==
  ASSUME CommentsInv, OneInFlight, Next, NEW r \in CommentReq, creq[r] # Idle
  PROVE  tasks' = tasks
<1>1. \A q \in Req : req[q] = Idle
  BY DEF OneInFlight
<1>2. ASSUME NEW q \in Req, Write(q)
      PROVE  FALSE
  <2>1. req[q].op = "idle" /\ req[q] = Idle
    BY <1>1 DEF Idle
  <2> QED
    BY <1>2, <2>1 DEF Write, InsertTask, FlushUpdate, SoftDeleteTask, SkipDeleted,
       Rollback
<1> QED
  BY <1>2, CheckHolds DEF Next, Hold

LEMMA StartCommentCurrent ==
  ASSUME CommentsInv, CommentsSerialInv, NEW r \in CommentReq, NEW rq,
         CommentInFlightCurrent(rq), StartComment(r, rq)
  PROVE  CommentsSerialInv' /\ comments' = comments
<1>1. /\ tasks' = tasks /\ comments' = comments
      /\ creq' = [creq EXCEPT ![r] = rq]
  BY DEF StartComment, vars
<1>2. \A q \in CommentReq : creq'[q] = IF q = r THEN rq ELSE creq[q]
  BY <1>1 DEF CommentsInv, CommentsTypeOK
<1> QED
  BY <1>1, <1>2 DEF CommentsSerialInv, CommentInFlightCurrent, Live, LiveComments

LEMMA CheckCommentCurrent ==
  ASSUME CommentsInv, CommentsSerialInv, NEW r \in CommentReq, CheckComment(r)
  PROVE  CommentsSerialInv' /\ comments' = comments
<1>1. ASSUME NEW a \in User, NEW t \in TaskId, CreateComment(r, a, t)
      PROVE  CommentsSerialInv' /\ comments' = comments
  BY <1>1, StartCommentCurrent
     DEF CreateComment, NewComment, TaskInScope, CommentInFlightCurrent
<1>2. ASSUME NEW a \in User, NEW t \in TaskId, NEW c \in CommentId,
             NEW op \in {"edit", "delete"}, ChangeComment(r, op, a, t, c)
      PROVE  CommentsSerialInv' /\ comments' = comments
  BY <1>2, StartCommentCurrent
     DEF ChangeComment, Found, TaskInScope, CommentInFlightCurrent
<1> QED
  BY <1>1, <1>2 DEF CheckComment

(* The write of the only request in flight.                                *)
LEMMA WriteCommentSerial ==
  ASSUME CommentsInv, CommentsSerialInv, OneInFlight, NEW r \in CommentReq,
         WriteComment(r)
  PROVE  CommentsSerialInv' /\ HiddenStays
<1>0. /\ creq[r] \in CommentRequest /\ CommentInFlightCurrent(creq[r])
      /\ comments \in [DOMAIN comments -> Comment]
      /\ creq \in [CommentReq -> CommentRequest]
  BY DEF CommentsInv, CommentsTypeOK, CommentsSerialInv
<1>1. creq[r] # Idle /\ FinishComment(r)
  <2>1. Idle.op = "idle"
    BY DEF Idle
  <2> QED
    BY <2>1 DEF WriteComment, InsertComment, WriteMessage, SoftDeleteComment,
       SkipDeletedComment, RollbackComment
<1>2. CommentsSerialInv'
  <2>1. \A q \in CommentReq : creq'[q] = Idle
    BY <1>0, <1>1 DEF OneInFlight, FinishComment
  <2> QED
    BY <2>1 DEF CommentsSerialInv, CommentInFlightCurrent, Idle
<1>3. ASSUME NEW c \in CommentId, InsertComment(r, c)
      PROVE  HiddenStays
  BY <1>0, <1>3 DEF InsertComment, HiddenStays, CommentInFlightCurrent
<1>4. ASSUME WriteMessage(r) \/ SoftDeleteComment(r)
      PROVE  HiddenStays
  <2>1. creq[r].comment \in LiveComments /\ comments[creq[r].comment].task \in Live
    BY <1>0, <1>4 DEF WriteMessage, SoftDeleteComment, CommentInFlightCurrent
  <2> DEFINE d == creq[r].comment
  <2>2. /\ DOMAIN comments' = DOMAIN comments
        /\ \A c \in DOMAIN comments : c # d => comments'[c] = comments[c]
    BY <1>4 DEF WriteMessage, SoftDeleteComment
  <2> HIDE DEF d
  <2>3. \A c \in DOMAIN comments :
          c \notin LiveComments \/ comments[c].task \notin Live
            => comments'[c] = comments[c]
    BY <2>1, <2>2 DEF d
  <2> QED
    BY <2>2, <2>3 DEF HiddenStays
<1>5. ASSUME SkipDeletedComment(r) \/ RollbackComment(r)
      PROVE  HiddenStays
  <2>1. comments' = comments
    BY <1>5 DEF SkipDeletedComment, RollbackComment
  <2> QED
    BY <2>1 DEF HiddenStays
<1> QED
  BY <1>2, <1>3, <1>4, <1>5 DEF WriteComment

LEMMA CommentsSerialStep ==
  ASSUME CommentsInv, CommentsSerialInv, OneInFlight, [CommentsNext]_cvars
  PROVE  CommentsSerialInv' /\ HiddenStays
<1>1. CASE UNCHANGED cvars
  BY <1>1 DEF cvars, vars, CommentsSerialInv, CommentInFlightCurrent, Live,
     LiveComments, HiddenStays
<1>2. CASE Next /\ UNCHANGED <<comments, creq>>
  <2>1. HiddenStays
    BY <1>2 DEF HiddenStays
  <2>2. ASSUME NEW r \in CommentReq
        PROVE  CommentInFlightCurrent(creq[r])'
    <3>1. CASE creq[r] = Idle
      BY <1>2, <3>1 DEF CommentInFlightCurrent, Idle
    <3>2. CASE creq[r] # Idle
      BY <1>2, <3>2, TasksWait
         DEF CommentsSerialInv, CommentInFlightCurrent, Live, LiveComments
    <3> QED
      BY <3>1, <3>2
  <2> QED
    BY <2>1, <2>2 DEF CommentsSerialInv
<1>3. ASSUME NEW r \in CommentReq, CheckComment(r)
      PROVE  CommentsSerialInv' /\ HiddenStays
  BY <1>3, CheckCommentCurrent DEF HiddenStays
<1> QED
  BY <1>1, <1>2, <1>3, WriteCommentSerial DEF CommentsNext

LEMMA CommentsSerialInvHolds ==
  CommentsSpec /\ []OneInFlight => []CommentsSerialInv
<1>1. CommentsInit => CommentsSerialInv
  BY DEF CommentsInit, CommentsSerialInv, CommentInFlightCurrent, Idle
<1> QED
  BY <1>1, CommentsSerialStep, CommentsInvariance, PTL DEF CommentsSpec

(* Of requests that run one after the other, a deleted comment and every   *)
(* comment under a deleted task stay as they were and none joins them: the *)
(* look at the task in each handler of comment_service.py is enough.       *)
THEOREM HiddenCommentsStay ==
  CommentsSpec /\ []OneInFlight => [][HiddenStays]_cvars
<1>1. ASSUME CommentsInv, CommentsSerialInv, OneInFlight, [CommentsNext]_cvars
      PROVE  [HiddenStays]_cvars
  BY <1>1, CommentsSerialStep
<1> QED
  BY <1>1, CommentsInvariance, CommentsSerialInvHolds, PTL DEF CommentsSpec
=============================================================================
