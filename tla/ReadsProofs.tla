----------------------------- MODULE ReadsProofs -----------------------------
(***************************************************************************)
(* Proofs about Reads, for any number of users, tasks, comments, readers   *)
(* and concurrent requests, on top of the invariants of Tasks and          *)
(* Comments: they hold while others read, which writes nothing, and while  *)
(* accounts are deleted and restored.                                      *)
(*                                                                         *)
(* First what lists and figures show in one state, then the behaviours of  *)
(* the runs of MCBoard, and last the reads of several queries, whose       *)
(* invariant says what they may have missed by now.                        *)
(***************************************************************************)
EXTENDS MCBoard, CommentsProofs, FiniteSetTheorems, SequenceTheorems

LEMMA ReadsLeaveTables ==
  ASSUME NEW x \in Reader, ReadNext(x)
  PROVE  UNCHANGED <<cvars, order, gone>>
<1>1. \A state : Become(x, state) => UNCHANGED <<cvars, order, gone>>
  BY DEF Become
<1>2. ASSUME NEW a \in User, NEW f \in Filter, StartWalk(x, a, f)
      PROVE  UNCHANGED <<cvars, order, gone>>
  BY <1>1, <1>2 DEF StartWalk
<1>3. CASE ReadPage(x)
  BY <1>1, <1>3 DEF ReadPage
<1>4. CASE ReadTotal(x)
  BY <1>1, <1>4 DEF ReadTotal
<1>5. ASSUME NEW a \in User, NEW u \in User, StartStats(x, a, u)
      PROVE  UNCHANGED <<cvars, order, gone>>
  BY <1>1, <1>5 DEF StartStats
<1>6. CASE ReadFigure(x)
  BY <1>1, <1>6 DEF ReadFigure
<1>7. CASE EndRead(x)
  BY <1>1, <1>7 DEF EndRead
<1> QED
  BY <1>2, <1>3, <1>4, <1>5, <1>6, <1>7 DEF ReadNext

(* The deletion and the restore of an account touch deleted_by alone, of   *)
(* rows of the tenant of the account, which is that of the deleter.        *)
LEMMA CascadeKeepsInv ==
  ASSUME CommentsInv, NEW u \in User, NEW from, NEW to \in User \cup {None},
         to # None => /\ TenantOf[to] = TenantOf[u]
                      /\ RoleOf[to] = "INTERN" => to = u,
         Cascade(u, from, to)
  PROVE  CommentsInv'
<1>1. /\ log' = log /\ req' = req /\ creq' = creq
      /\ DOMAIN tasks' = DOMAIN tasks /\ DOMAIN comments' = DOMAIN comments
  BY DEF Cascade
<1>2. /\ IInv /\ CommentsTypeOK /\ TypeOK
      /\ tasks \in [DOMAIN tasks -> Row] /\ comments \in [DOMAIN comments -> Comment]
      /\ \A t \in DOMAIN tasks : RowOK(tasks[t], log[t])
  BY DEF CommentsInv, IInv, TypeOK, CommentsTypeOK
<1>3. ASSUME NEW t \in DOMAIN tasks
      PROVE  /\ tasks'[t] \in Row /\ RowOK(tasks'[t], log[t])
             /\ tasks'[t].tenant = tasks[t].tenant
             /\ tasks'[t].owner = tasks[t].owner
  <2>1. tasks[t] \in Row /\ RowOK(tasks[t], log[t])
    BY <1>2
  <2>2. CASE tasks'[t] = tasks[t]
    BY <2>1, <2>2
  <2>3. CASE /\ u \in {tasks[t].owner, tasks[t].assignee}
             /\ tasks'[t] = [tasks[t] EXCEPT !.deletedBy = to]
    BY <2>1, <2>3 DEF Row, RowOK, RowOneTenant, RowReplays
  <2> QED
    BY <2>2, <2>3 DEF Cascade
<1>4. IInv'
  <2>1. TypeOK'
    BY <1>1, <1>2, <1>3 DEF TypeOK, Cascade
  <2>2. ASSUME NEW r \in Req
        PROVE  InFlightOK(req[r])'
    BY <1>1, <1>2, <1>3 DEF IInv, InFlightOK
  <2> QED
    BY <1>1, <1>3, <2>1, <2>2 DEF IInv
<1>5. \A row : CommentOK(row) => CommentOK(row)'
  BY <1>1, <1>3 DEF CommentOK
<1>6. ASSUME NEW c \in DOMAIN comments
      PROVE  /\ comments'[c] \in Comment /\ CommentOK(comments'[c])
             /\ comments'[c].tenant = comments[c].tenant
             /\ comments'[c].user = comments[c].user
  <2>1. comments[c] \in Comment /\ CommentOK(comments[c])
    BY <1>2 DEF CommentsInv
  <2>2. CASE comments'[c] = comments[c]
    BY <2>1, <2>2
  <2>3. CASE /\ comments[c].user = u
             /\ comments'[c] = [comments[c] EXCEPT !.deletedBy = to]
    BY <2>1, <2>3 DEF Comment, CommentOK
  <2> QED
    BY <2>2, <2>3 DEF Cascade
<1>7. CommentsTypeOK'
  BY <1>1, <1>2, <1>4, <1>6 DEF IInv, CommentsTypeOK, Cascade
<1>8. \A c \in DOMAIN comments' : CommentOK(comments[c])'
  BY <1>1, <1>5, <1>6 DEF CommentOK
<1>9. \A r \in CommentReq : CommentInFlightOK(creq[r])'
  BY <1>1, <1>5, <1>6 DEF CommentsInv, CommentInFlightOK, CommentOK
<1> QED
  BY <1>4, <1>7, <1>8, <1>9 DEF CommentsInv

LEMMA AccountStepKeepsInv ==
  ASSUME CommentsInv, NEW a \in User, NEW u \in User,
         DeleteAccount(a, u) \/ RestoreAccount(a, u)
  PROVE  CommentsInv'
<1>1. CASE DeleteAccount(a, u)
  BY <1>1, CascadeKeepsInv DEF DeleteAccount, MayDelete
<1>2. CASE RestoreAccount(a, u)
  BY <1>2, CascadeKeepsInv DEF RestoreAccount
<1> QED
  BY <1>1, <1>2

LEMMA CommentsInvWhileReading == ReadsSpec => []CommentsInv
<1>1. ReadsInit => CommentsInv
  BY CommentsInitInv DEF ReadsInit
<1>2. CommentsInv /\ [ReadsNext]_rvars => CommentsInv'
  <2> SUFFICES ASSUME CommentsInv, [ReadsNext]_rvars PROVE CommentsInv'
    OBVIOUS
  <2>1. CASE [CommentsNext]_cvars
    BY <2>1, CommentsNextKeepsInv
  <2>2. ASSUME NEW x \in Reader, ReadNext(x)
        PROVE  UNCHANGED cvars
    BY <2>2, ReadsLeaveTables
  <2> QED
    BY <2>1, <2>2, AccountStepKeepsInv DEF ReadsNext, rvars
<1> QED
  BY <1>1, <1>2, PTL DEF ReadsSpec

-----------------------------------------------------------------------------
(* The query of a list and the rule of GET by id admit the same tasks.     *)
LEMMA ListedTasksAreGot ==
  ASSUME CommentsInv, NEW a \in User
  PROVE  Listed(a, NoFilter) = {t \in DOMAIN tasks : CanGet(a, t)}
<1>1. RoleOf[a] \in Role
  BY ConstantsAssumption
<1>2. \A t \in DOMAIN tasks : Matches(NoFilter, tasks[t])
  BY DEF Matches, NoFilter, Asked
<1>3. CASE RoleOf[a] \in {"INTERN", "MENTOR"}
  BY <1>2, <1>3 DEF Listed, Own, CanGet, CanAccess, Live
<1>4. CASE RoleOf[a] = "TENANT_ADMIN"
  BY <1>2, <1>4 DEF Listed, OfTenant, CanGet, CanAccess, Live
<1> QED
  BY <1>1, <1>3, <1>4 DEF Role

(* However requests interleave, a list shows what GET by id shows          *)
(* (list_tasks and get_task, list_comments and get_comment_by_id).         *)
THEOREM ListsShowWhatIsGot == ReadsSpec => []ListedIsGot
<1>1. CommentsInv => ListedIsGot
  <2> SUFFICES ASSUME CommentsInv, NEW a \in User, NEW t \in DOMAIN tasks
               PROVE  ListedComments(a, t)
                        = {c \in DOMAIN comments : CanGetComment(a, t, c)}
    BY ListedTasksAreGot DEF ListedIsGot
  <2> QED
    BY DEF ListedComments, CanGetComment, Found, LiveComments
<1> QED
  BY <1>1, CommentsInvWhileReading, PTL

-----------------------------------------------------------------------------
(* The dashboard of an intern or a mentor counts what its lists hold       *)
(* (get_stats_for_user, list_tasks, list_comments): a comment is always of *)
(* its task's tenant, so its clause on the tenant hides none.              *)
THEOREM DashboardAgreesWithLists == ReadsSpec => []StatsAgree
<1>1. CommentsInv => StatsAgree
  <2> SUFFICES ASSUME CommentsInv, NEW u \in User, RoleOf[u] # "TENANT_ADMIN"
               PROVE  /\ Figure("total", u) = Total(u, NoFilter)
                      /\ \A st \in {"pending", "in_progress", "completed"} \cap Status :
                           Figure(st, u) = Total(u, [NoFilter EXCEPT !.status = st])
                      /\ Figure("comments", u) =
                           Cardinality(UNION {ListedComments(u, t) :
                                                t \in Listed(u, NoFilter)})
    BY DEF StatsAgree
  <2>1. RoleOf[u] \in {"INTERN", "MENTOR"}
    BY ConstantsAssumption DEF Role
  <2>2. TasksOf(u) = Own(u)
    BY DEF TasksOf, Own, OfTenant
  <2>3. Listed(u, NoFilter) = TasksOf(u)
    BY <2>1, <2>2 DEF Listed, Matches, NoFilter, Asked
  <2>4. Figure("total", u) = Total(u, NoFilter)
    BY <2>3 DEF Figure, Total
  <2>5. ASSUME NEW st \in {"pending", "in_progress", "completed"} \cap Status
        PROVE  Figure(st, u) = Total(u, [NoFilter EXCEPT !.status = st])
    <3>1. st # None
      BY ConstantsAssumption
    <3>2. Listed(u, [NoFilter EXCEPT !.status = st])
            = {t \in TasksOf(u) : tasks[t].status = st}
      BY <2>1, <2>2, <3>1 DEF Listed, Matches, NoFilter, Asked
    <3> QED
      BY <3>2 DEF Figure, Total
  <2>6. {c \in LiveComments : comments[c].task \in TasksOf(u)}
          = UNION {ListedComments(u, t) : t \in TasksOf(u)}
    <3>1. \A t \in TasksOf(u) : TaskInScope(u, t)
      BY DEF TasksOf, OfTenant, TaskInScope, CanAccessForComment, CanAccess
    <3>2. \A c \in LiveComments :
            comments[c].tenant = tasks[comments[c].task].tenant
      BY DEF LiveComments, CommentsInv, CommentOK
    <3> QED
      BY <3>1, <3>2 DEF ListedComments
  <2> QED
    BY <2>3, <2>4, <2>5, <2>6 DEF Figure
<1> QED
  BY <1>1, CommentsInvWhileReading, PTL

-----------------------------------------------------------------------------
(* The runs of MCBoard are behaviours of Reads, Comments and Tasks, so     *)
(* that every theorem about those holds of them.                           *)

LEMMA CommentsImplyTasks == CommentsSpec => Spec
<1>1. CommentsInit => Init
  BY DEF CommentsInit
<1>2. [CommentsNext]_cvars => [Next]_vars
  <2> SUFFICES ASSUME CommentsNext PROVE [Next]_vars
    BY DEF cvars
  <2>1. ASSUME NEW r \in CommentReq, CheckComment(r)
        PROVE  UNCHANGED vars
    BY <2>1 DEF CheckComment, CreateComment, ChangeComment, StartComment
  <2>2. ASSUME NEW r \in CommentReq, WriteComment(r)
        PROVE  UNCHANGED vars
    BY <2>2 DEF WriteComment, InsertComment, WriteMessage, SoftDeleteComment,
       SkipDeletedComment, RollbackComment, FinishComment
  <2> QED
    BY <2>1, <2>2 DEF CommentsNext
<1> QED
  BY <1>1, <1>2, PTL DEF CommentsSpec, Spec

(* A run varies less than the specification does.                          *)
LEMMA RunChecks ==
  ASSUME NEW r \in Req, MCArrive(r) \/ MCUpdate(r)
  PROVE  Check(r)
<1>1. /\ Actor \subseteq User /\ Assigned \subseteq User
      /\ \E u \in Actor : u \in User
  BY BoardAssumption DEF Actor, Assigned
<1>2. Named \subseteq Title /\ Retitled \subseteq Title
  BY BoardAssumption DEF Named, Retitled
<1>3. Ranked \subseteq Priority /\ Reranked \subseteq Priority
  BY BoardAssumption DEF Ranked, Reranked
<1>4. Moved \subseteq Status
  BY DEF Moved
<1>5. ASSUME NEW u \in Actor, NEW s \in Actor, NEW ti \in Named, NEW pr \in Ranked,
             CreateTask(r, u, s, ti, pr)
      PROVE  Check(r)
  BY <1>1, <1>2, <1>3, <1>5 DEF Check
<1>6. ASSUME NEW u \in Actor, NEW t \in TaskId, NEW ti \in Retitled \cup {None},
             NEW s \in Assigned \cup {None}, NEW st \in Moved \cup {None},
             NEW pr \in Reranked \cup {None}, UpdateTask(r, u, t, ti, s, st, pr)
      PROVE  Check(r)
  <2>1. /\ ti \in Title \cup {None} /\ s \in User \cup {None} /\ u \in User
        /\ st \in Status \cup {None} /\ pr \in Priority \cup {None}
    BY <1>1, <1>2, <1>3, <1>4
  <2> QED
    BY <1>6, <2>1 DEF Check
<1>7. ASSUME NEW u \in Actor, NEW t \in TaskId, DeleteTask(r, u, t)
      PROVE  Check(r)
  BY <1>1, <1>7 DEF Check
<1>8. ASSUME NEW t \in TaskId, BeginUpdate(r, t)
      PROVE  Check(r)
  BY <1>1, <1>8 DEF Check
<1> QED
  BY <1>5, <1>6, <1>7, <1>8 DEF MCArrive, MCUpdate

LEMMA RunReads ==
  ASSUME NEW x \in Reader, MCRead(x)
  PROVE  ReadNext(x)
<1>1. ASSUME NEW u \in {admin, intern}, NEW st \in {"pending", None},
             StartWalk(x, u, [NoFilter EXCEPT !.status = st])
      PROVE  ReadNext(x)
  <2>1. [NoFilter EXCEPT !.status = st] \in Filter /\ u \in User
    BY BoardAssumption, ConstantsAssumption DEF NoFilter, Filter
  <2> QED
    BY <1>1, <2>1 DEF ReadNext
<1>2. ASSUME NEW u \in {mentor, intern}, StartStats(x, u, intern)
      PROVE  ReadNext(x)
  BY <1>2, BoardAssumption DEF ReadNext
<1> QED
  BY <1>1, <1>2 DEF MCRead, ReadNext

LEMMA RunsAreBehaviours == MCSpec => ReadsSpec
<1>1. MCInit => ReadsInit
  BY DEF MCInit
<1>2. [MCNext]_mcvars => [ReadsNext]_rvars
  <2> SUFFICES ASSUME MCNext PROVE ReadsNext
    BY DEF mcvars
  <2>1. CASE AboutTask /\ UNCHANGED <<comments, creq, gone>> /\ Written
    <3>1. Next
      BY <2>1, RunChecks DEF AboutTask, Next
    <3> QED
      BY <2>1, <3>1 DEF ReadsNext, CommentsNext
  <2>2. CASE AboutComment /\ UNCHANGED gone /\ Written
    BY <2>2 DEF AboutComment, ReadsNext, CommentsNext
  <2>3. ASSUME NEW x \in Reader, MCRead(x)
        PROVE  ReadsNext
    BY <2>3, RunReads DEF ReadsNext
  <2>4. CASE AboutAccount /\ Written
    BY <2>4, BoardAssumption DEF AboutAccount, ReadsNext
  <2> QED
    BY <2>1, <2>2, <2>3, <2>4 DEF MCNext
<1> QED
  BY <1>1, <1>2, PTL DEF MCSpec, ReadsSpec

(* No account is deleted or restored in the serial runs, so they are       *)
(* behaviours of Comments.                                                 *)
LEMMA SerialRunsOfComments == MCSpec /\ serial => CommentsSpec
<1>1. MCInit => CommentsInit
  BY DEF MCInit, ReadsInit
<1>2. serial /\ [MCNext]_mcvars => [CommentsNext]_cvars /\ serial'
  <2> SUFFICES ASSUME serial, [MCNext]_mcvars PROVE [CommentsNext]_cvars /\ serial'
    OBVIOUS
  <2>1. serial' /\ ~AboutAccount
    BY DEF MCNext, mcvars, serial, Is, AboutAccount
  <2>2. CASE AboutTask /\ UNCHANGED <<comments, creq>>
    BY <2>1, <2>2, RunChecks DEF AboutTask, Next, CommentsNext
  <2>3. CASE AboutComment
    BY <2>1, <2>3 DEF AboutComment, CommentsNext
  <2>4. ASSUME NEW x \in Reader, MCRead(x)
        PROVE  UNCHANGED cvars
    BY <2>4, RunReads, ReadsLeaveTables
  <2>5. UNCHANGED mcvars => UNCHANGED cvars
    BY DEF mcvars, rvars
  <2> QED
    BY <2>1, <2>2, <2>3, <2>4, <2>5 DEF MCNext
<1> QED
  BY <1>1, <1>2, PTL DEF MCSpec, CommentsSpec

LEMMA SerialRuns == MCSpec /\ serial => []OneInFlight
<1>1. MCInit => OneInFlight
  BY DEF MCInit, ReadsInit, CommentsInit, Init, OneInFlight, OneAtATime
<1>2. CommentsInv /\ serial /\ OneInFlight /\ [MCNext]_mcvars
        => OneInFlight' /\ serial'
  <2> SUFFICES ASSUME CommentsInv, serial, OneInFlight, [MCNext]_mcvars
               PROVE  OneInFlight' /\ serial'
    OBVIOUS
  <2>0. serial' /\ req \in [Req -> Request] /\ creq \in [CommentReq -> CommentRequest]
    BY DEF MCNext, mcvars, serial, Is, CommentsInv, CommentsTypeOK, TypeOK
  <2>1. CASE UNCHANGED <<req, creq>>
    BY <2>0, <2>1 DEF OneInFlight, OneAtATime
  <2>2. CASE AboutTask /\ UNCHANGED <<comments, creq>>
    <3>1. PICK r \in Req : (NothingInFlight /\ MCArrive(r)) \/ MCUpdate(r) \/ Write(r)
      BY <2>2 DEF AboutTask
    <3>2. CASE (NothingInFlight /\ MCArrive(r)) \/ MCUpdate(r)
      <4>1. PICK rq : req' = [req EXCEPT ![r] = rq]
        BY <3>2, RunChecks, CheckHolds DEF Hold
      <4>2. MCUpdate(r) => req[r] # Idle
        BY DEF MCUpdate, UpdateTask, Began, Idle
      <4>3. \A q \in Req \ {r} : req[q] = Idle
        BY <3>2, <4>2 DEF NothingInFlight, OneInFlight, OneAtATime
      <4>4. \A q \in CommentReq : creq'[q] = Idle
        BY <2>2, <3>2, <4>2 DEF NothingInFlight, OneInFlight
      <4>5. \A q \in Req \ {r} : req'[q] = Idle
        BY <2>0, <4>1, <4>3
      <4> QED
        BY <2>0, <4>4, <4>5 DEF OneInFlight, OneAtATime
    <3>3. CASE Write(r)
      <4>1. req' = [req EXCEPT ![r] = Idle]
        BY <3>3 DEF Write, InsertTask, FlushUpdate, SoftDeleteTask, SkipDeleted,
           Rollback, Finish
      <4>2. \A q \in Req : req'[q] = IF q = r THEN Idle ELSE req[q]
        BY <2>0, <4>1
      <4> QED
        BY <2>0, <2>2, <4>2 DEF OneInFlight, OneAtATime
    <3> QED
      BY <3>1, <3>2, <3>3
  <2>3. CASE AboutComment
    <3>1. PICK r \in CommentReq : (NothingInFlight /\ CheckComment(r)) \/ WriteComment(r)
      BY <2>3 DEF AboutComment
    <3>2. CASE NothingInFlight /\ CheckComment(r)
      <4>1. \E rq : StartComment(r, rq)
        BY <3>2 DEF CheckComment, CreateComment, ChangeComment
      <4>2. req' = req /\ \A q \in CommentReq \ {r} : creq'[q] = Idle
        BY <2>0, <3>2, <4>1 DEF StartComment, NothingInFlight, vars
      <4> QED
        BY <2>0, <3>2, <4>2 DEF NothingInFlight, OneInFlight, OneAtATime
    <3>3. CASE WriteComment(r)
      <4>1. req' = req /\ creq' = [creq EXCEPT ![r] = Idle]
        BY <3>3 DEF WriteComment, InsertComment, WriteMessage, SoftDeleteComment,
           SkipDeletedComment, RollbackComment, FinishComment, vars
      <4>2. \A q \in CommentReq : creq'[q] = IF q = r THEN Idle ELSE creq[q]
        BY <2>0, <4>1
      <4> QED
        BY <2>0, <4>1, <4>2 DEF OneInFlight, OneAtATime
    <3> QED
      BY <3>1, <3>2, <3>3
  <2>4. ASSUME NEW x \in Reader, MCRead(x)
        PROVE  UNCHANGED <<req, creq>>
    BY <2>4, RunReads, ReadsLeaveTables DEF cvars, vars
  <2>5. UNCHANGED mcvars => UNCHANGED <<req, creq>>
    BY DEF mcvars, rvars, cvars, vars
  <2>6. ~AboutAccount
    BY DEF AboutAccount, serial, Is
  <2> QED
    BY <2>1, <2>2, <2>3, <2>4, <2>5, <2>6 DEF MCNext
<1> QED
  BY <1>1, <1>2, RunsAreBehaviours, CommentsInvWhileReading, PTL DEF MCSpec

LEMMA ModeStays == [MCNext]_mcvars => (serial' <=> serial)
BY DEF MCNext, mcvars, serial, Is

LEMMA OneInFlightIsOneAtATime == OneInFlight => OneAtATime
BY DEF OneInFlight

(* The serial behaviours of the run: no duplicate of a task (create_task,  *)
(* update_task).                                                           *)
THEOREM SerialTasksAreUnique == MCSpec => []SerialNoDuplicateTask
<1>1. serial \/ ~serial
  OBVIOUS
<1> QED
  BY <1>1, ModeStays, SerialRunsOfComments, CommentsImplyTasks, SerialRuns,
     OneInFlightIsOneAtATime, OneAtATimeNoDuplicateTask, PTL
     DEF MCSpec, SerialNoDuplicateTask

(* The serial behaviours of the run: a log without a gap (update_task).    *)
THEOREM SerialLogsChain == MCSpec => []SerialLogChains
<1>1. serial \/ ~serial
  OBVIOUS
<1> QED
  BY <1>1, ModeStays, SerialRunsOfComments, CommentsImplyTasks, SerialRuns,
     OneInFlightIsOneAtATime, OneAtATimeLogChains, PTL
     DEF MCSpec, SerialLogChains

(* The serial behaviours of the run: what no request can find stays        *)
(* (update_comment, delete_comment, create_comment).                       *)
THEOREM SerialHiddenCommentsStay == MCSpec => SerialHiddenStays
<1>1. [HiddenStays]_cvars => [serial => HiddenStays]_mcvars
  BY DEF HiddenStays, cvars
<1>2. ~serial => [serial => HiddenStays]_mcvars
  OBVIOUS
<1> QED
  BY <1>1, <1>2, ModeStays, SerialRunsOfComments, SerialRuns, HiddenCommentsStay,
     PTL DEF MCSpec, SerialHiddenStays

-----------------------------------------------------------------------------
(* Reads in flight: what they have seen while others wrote.                *)

(* A row put in anywhere leaves the others in their order.                 *)
Inserted(s, e, k) == SubSeq(s, 1, k) \o <<e>> \o SubSeq(s, k + 1, Len(s))

LEMMA InsertAnywhere ==
  ASSUME NEW S, NEW s \in Seq(S), NEW e \in S, NEW k \in 0..Len(s)
  PROVE  /\ Inserted(s, e, k) \in Seq(S)
         /\ Len(Inserted(s, e, k)) = Len(s) + 1
         /\ \A i \in 1..k : Inserted(s, e, k)[i] = s[i]
         /\ Inserted(s, e, k)[k + 1] = e
         /\ \A i \in (k + 1)..Len(s) : Inserted(s, e, k)[i + 1] = s[i]
<1> DEFINE front == SubSeq(s, 1, k)
           back  == SubSeq(s, k + 1, Len(s))
           head  == front \o <<e>>
           r     == Inserted(s, e, k)
<1>1. /\ Len(s) \in Nat /\ k \in Nat /\ k <= Len(s)
      /\ \A i \in 1..Len(s) : s[i] \in S
  BY LenProperties, ElementOfSeq
<1>2. /\ front \in Seq(S) /\ Len(front) = k
      /\ \A i \in 1..k : front[i] = s[i]
  <2>1. /\ front \in Seq(S)
        /\ Len(front) = IF 1 <= k THEN k - 1 + 1 ELSE 0
        /\ \A i \in 1..(k - 1 + 1) : front[i] = s[1 + i - 1]
    <3>1. 1 \in Int /\ k \in Int /\ \A i \in 1..k : s[i] \in S
      BY <1>1
    <3> QED
      BY <3>1, SubSeqProperties
  <2> QED
    BY <1>1, <2>1
<1>3. /\ back \in Seq(S) /\ Len(back) = Len(s) - k
      /\ \A i \in 1..(Len(s) - k) : back[i] = s[k + i]
  <2>1. /\ back \in Seq(S)
        /\ Len(back) = IF k + 1 <= Len(s) THEN Len(s) - (k + 1) + 1 ELSE 0
        /\ \A i \in 1..(Len(s) - (k + 1) + 1) : back[i] = s[k + 1 + i - 1]
    <3>1. k + 1 \in Int /\ Len(s) \in Int /\ \A i \in (k + 1)..Len(s) : s[i] \in S
      BY <1>1
    <3> QED
      BY <3>1, SubSeqProperties
  <2> QED
    BY <1>1, <2>1
<1>4. <<e>> \in Seq(S) /\ Len(<<e>>) = 1 /\ <<e>>[1] = e
  OBVIOUS
<1> HIDE DEF front, back
<1>5. /\ head \in Seq(S) /\ Len(head) = k + 1
      /\ \A i \in 1..k : head[i] = s[i]
      /\ head[k + 1] = e
  <2>1. /\ head \in Seq(S)
        /\ Len(head) = Len(front) + Len(<<e>>)
        /\ \A i \in 1..(Len(front) + Len(<<e>>)) :
             head[i] = IF i <= Len(front) THEN front[i] ELSE <<e>>[i - Len(front)]
    BY <1>2, <1>4, ConcatProperties
  <2> QED
    BY <1>1, <1>2, <1>4, <2>1
<1> HIDE DEF head
<1>6. r = head \o back
  BY DEF Inserted, head, front, back
<1> HIDE DEF r
<1>7. /\ r \in Seq(S)
      /\ Len(r) = Len(head) + Len(back)
      /\ \A i \in 1..(Len(head) + Len(back)) :
           r[i] = IF i <= Len(head) THEN head[i] ELSE back[i - Len(head)]
  <2>1. /\ head \o back \in Seq(S)
        /\ Len(head \o back) = Len(head) + Len(back)
        /\ \A i \in 1..(Len(head) + Len(back)) :
             (head \o back)[i] = IF i <= Len(head) THEN head[i] ELSE back[i - Len(head)]
    BY <1>3, <1>5, ConcatProperties
  <2> QED
    BY ONLY <1>6, <2>1, Zenon
<1>8. Len(r) = Len(s) + 1
  BY ONLY <1>1, <1>3, <1>5, <1>7
<1>9. ASSUME NEW j \in Int, 1 <= j, j <= Len(head) + Len(back)
      PROVE  r[j] = IF j <= Len(head) THEN head[j] ELSE back[j - Len(head)]
  <2>1. j \in 1..(Len(head) + Len(back))
    BY <1>1, <1>3, <1>5, <1>9
  <2> QED
    BY ONLY <1>7, <2>1, Zenon
<1>10. ASSUME NEW i \in 1..k
       PROVE  r[i] = s[i]
  <2>1. i \in Int /\ 1 <= i /\ i <= Len(head) + Len(back) /\ i <= Len(head)
    BY <1>1, <1>3, <1>5
  <2> QED
    BY <1>5, <1>9, <2>1, Zenon
<1>11. r[k + 1] = e
  <2>1. k + 1 \in Int /\ 1 <= k + 1 /\ k + 1 <= Len(head) + Len(back) /\ k + 1 <= Len(head)
    BY <1>1, <1>3, <1>5
  <2> QED
    BY <1>5, <1>9, <2>1, Zenon
<1>12. ASSUME NEW i \in (k + 1)..Len(s)
       PROVE  r[i + 1] = s[i]
  <2>1. /\ i + 1 \in Int /\ 1 <= i + 1
        /\ i + 1 <= Len(head) + Len(back) /\ ~(i + 1 <= Len(head))
    BY <1>1, <1>3, <1>5
  <2>2. r[i + 1] = back[(i + 1) - Len(head)]
    BY <1>9, <2>1, Zenon
  <2>3. (i + 1) - Len(head) = i - k /\ i - k \in 1..(Len(s) - k) /\ k + (i - k) = i
    BY <1>1, <1>3, <1>5
  <2>4. back[i - k] = s[k + (i - k)]
    BY <1>3, <2>3, Zenon
  <2> QED
    BY ONLY <2>2, <2>3, <2>4, Zenon
<1> QED
  BY <1>7, <1>8, <1>10, <1>11, <1>12 DEF r

(* A commit puts one task and one comment at most into the tables, and     *)
(* takes no task out.                                                      *)
AddsTask(t) ==
  /\ DOMAIN tasks \subseteq DOMAIN tasks'
  /\ DOMAIN tasks' \subseteq DOMAIN tasks \cup {t}

AccountCommit == \E a, u \in User : DeleteAccount(a, u) \/ RestoreAccount(a, u)

LEMMA AccountCommitAddsNone ==
  ASSUME AccountCommit
  PROVE  DOMAIN tasks' = DOMAIN tasks /\ DOMAIN comments' = DOMAIN comments
BY DEF AccountCommit, DeleteAccount, RestoreAccount, Cascade

LEMMA CommitAddsOneTask ==
  ASSUME [CommentsNext]_cvars \/ AccountCommit
  PROVE  \E t : AddsTask(t)
<1>1. CASE DOMAIN tasks' = DOMAIN tasks
  BY <1>1 DEF AddsTask
<1>2. ASSUME NEW r \in Req, Check(r)
      PROVE  UNCHANGED tasks
  BY <1>2, CheckHolds DEF Hold
<1>3. ASSUME NEW r \in Req, NEW t \in TaskId, InsertTask(r, t)
      PROVE  AddsTask(t)
  BY <1>3 DEF InsertTask, AddsTask
<1>4. ASSUME NEW r \in Req,
             FlushUpdate(r) \/ SoftDeleteTask(r) \/ SkipDeleted(r) \/ Rollback(r)
      PROVE  DOMAIN tasks' = DOMAIN tasks
  BY <1>4 DEF FlushUpdate, SoftDeleteTask, SkipDeleted, Rollback
<1>5. ASSUME NEW r \in Req, Write(r)
      PROVE  \E t : AddsTask(t)
  BY <1>1, <1>3, <1>4, <1>5 DEF Write
<1>6. ASSUME NEW r \in CommentReq, CheckComment(r) \/ WriteComment(r)
      PROVE  UNCHANGED tasks
  BY <1>6 DEF CheckComment, CreateComment, ChangeComment, StartComment, WriteComment,
     InsertComment, WriteMessage, SoftDeleteComment, SkipDeletedComment,
     RollbackComment, FinishComment, vars
<1> QED
  BY <1>1, <1>2, <1>5, <1>6, AccountCommitAddsNone DEF CommentsNext, Next, cvars, vars

LEMMA CommitAddsOneComment ==
  ASSUME [CommentsNext]_cvars \/ AccountCommit
  PROVE  \E c : DOMAIN comments' \subseteq DOMAIN comments \cup {c}
<1>1. CASE UNCHANGED comments
  BY <1>1
<1>2. ASSUME NEW r \in CommentReq, CheckComment(r)
      PROVE  UNCHANGED comments
  BY <1>2 DEF CheckComment, CreateComment, ChangeComment, StartComment
<1>3. ASSUME NEW r \in CommentReq, NEW c \in CommentId, InsertComment(r, c)
      PROVE  DOMAIN comments' \subseteq DOMAIN comments \cup {c}
  BY <1>3 DEF InsertComment
<1>4. ASSUME NEW r \in CommentReq, WriteMessage(r) \/ SoftDeleteComment(r)
      PROVE  DOMAIN comments' \subseteq DOMAIN comments
  BY <1>4 DEF WriteMessage, SoftDeleteComment
<1>5. ASSUME NEW r \in CommentReq, SkipDeletedComment(r) \/ RollbackComment(r)
      PROVE  UNCHANGED comments
  BY <1>5 DEF SkipDeletedComment, RollbackComment
<1> QED
  BY <1>1, <1>2, <1>3, <1>4, <1>5, AccountCommitAddsNone
     DEF CommentsNext, WriteComment, cvars

(* Every task has one place in the order of the list.                      *)
OrderOK ==
  /\ order \in Seq(TaskId)
  /\ \A i, j \in DOMAIN order : order[i] = order[j] => i = j
  /\ {order[k] : k \in DOMAIN order} = DOMAIN tasks

LEMMA OrderIsKept ==
  ASSUME OrderOK, DOMAIN tasks' \subseteq TaskId, NEW t, AddsTask(t), KeepOrder
  PROVE  /\ OrderOK'
         /\ \A v, w : NoLater(v, w) => NoLater(v, w)'
<1>1. CASE DOMAIN tasks' = DOMAIN tasks /\ order' = order
  BY <1>1 DEF OrderOK, NoLater
<1>2. ASSUME NEW e \in DOMAIN tasks' \ DOMAIN tasks, NEW k \in 0..Len(order),
             order' = SubSeq(order, 1, k) \o <<e>> \o SubSeq(order, k + 1, Len(order))
      PROVE  /\ OrderOK'
             /\ \A v, w : NoLater(v, w) => NoLater(v, w)'
  <2> DEFINE n == Len(order)
             Shift(i) == IF i <= k THEN i ELSE i + 1
  <2>1. /\ DOMAIN tasks' = DOMAIN tasks \cup {e}
        /\ e \in TaskId
    BY DEF AddsTask
  <2>2. n \in Nat /\ DOMAIN order = 1..n /\ \A i \in 1..n : order[i] \in DOMAIN tasks
    BY LenProperties DEF OrderOK
  <2>3. /\ order' \in Seq(TaskId)
        /\ Len(order') = n + 1
        /\ \A i \in 1..k : order'[i] = order[i]
        /\ order'[k + 1] = e
        /\ \A i \in (k + 1)..n : order'[i + 1] = order[i]
    <3>1. order \in Seq(TaskId)
      BY DEF OrderOK
    <3>2. e \in TaskId /\ k \in 0..Len(order)
      BY <2>1
    <3>3. order' = Inserted(order, e, k)
      BY <1>2 DEF Inserted
    <3> HIDE DEF n
    <3>4. /\ Inserted(order, e, k) \in Seq(TaskId)
          /\ Len(Inserted(order, e, k)) = Len(order) + 1
          /\ Inserted(order, e, k)[k + 1] = e
      BY ONLY <3>1, <3>2, InsertAnywhere, SMT
    <3>5. \A i \in 1..k : Inserted(order, e, k)[i] = order[i]
      BY <3>1, <3>2, InsertAnywhere
    <3>6. \A i \in (k + 1)..Len(order) : Inserted(order, e, k)[i + 1] = order[i]
      BY <3>1, <3>2, InsertAnywhere
    <3> QED
      BY ONLY <3>3, <3>4, <3>5, <3>6, Zenon DEF n
  <2>4. DOMAIN order' = 1..(n + 1)
    BY <2>3, LenProperties
  <2>5. \A i \in 1..n : Shift(i) \in 1..(n + 1) /\ order'[Shift(i)] = order[i]
    BY <2>2, <2>3
  <2>6. ASSUME NEW j \in 1..(n + 1), j # k + 1
        PROVE  \E i \in 1..n : j = Shift(i)
    <3>1. CASE j <= k
      BY <2>2, <2>6, <3>1
    <3>2. CASE j > k + 1
      <4>1. j - 1 \in 1..n /\ ~(j - 1 <= k) /\ (j - 1) + 1 = j
        BY <2>2, <3>2
      <4> QED
        BY <4>1
    <3> QED
      BY <2>2, <2>6, <3>1, <3>2
  <2>7. k + 1 \in 1..(n + 1) /\ \A i, j \in 1..n : i <= j => Shift(i) <= Shift(j)
    BY <2>2
  <2> HIDE DEF Shift, n
  <2>8. \A j \in 1..(n + 1) : j # k + 1 =>
          \E i \in 1..n : j = Shift(i) /\ order'[j] = order[i]
    BY <2>5, <2>6
  <2>9. \A i, j \in 1..n : order[i] = order[j] => i = j
    BY <2>2 DEF OrderOK
  <2>10. ASSUME NEW i \in 1..(n + 1), NEW j \in 1..(n + 1), order'[i] = order'[j]
         PROVE  i = j
    BY <2>2, <2>3, <2>8, <2>9, <2>10
  <2>11. {order'[i] : i \in 1..(n + 1)} = DOMAIN tasks'
    <3>1. DOMAIN tasks = {order[i] : i \in 1..n}
      BY <2>2 DEF OrderOK
    <3>2. \A i \in 1..n : order[i] \in {order'[j] : j \in 1..(n + 1)}
      BY <2>5
    <3>3. e \in {order'[j] : j \in 1..(n + 1)}
      BY <2>3, <2>7
    <3>4. \A j \in 1..(n + 1) : order'[j] \in DOMAIN tasks \cup {e}
      BY <2>2, <2>3, <2>8
    <3> QED
      BY <2>1, <3>1, <3>2, <3>3, <3>4
  <2>12. OrderOK'
    BY <2>3, <2>4, <2>10, <2>11 DEF OrderOK
  <2>13. ASSUME NEW v, NEW w, NoLater(v, w)
         PROVE  NoLater(v, w)'
    <3>1. PICK i \in 1..n, j \in 1..n : i <= j /\ order[i] = v /\ order[j] = w
      BY <2>2, <2>13 DEF NoLater
    <3>2. Shift(i) <= Shift(j) /\ order'[Shift(i)] = v /\ order'[Shift(j)] = w
      BY <2>5, <2>7, <3>1
    <3> QED
      BY <2>4, <2>5, <3>2 DEF NoLater
  <2> QED
    BY <2>12, <2>13
<1> QED
  BY <1>1, <1>2 DEF KeepOrder

(* Every count is one of a finite set.                                     *)
FiniteTables ==
  /\ IsFiniteSet(DOMAIN tasks)
  /\ IsFiniteSet(DOMAIN comments)

(* What is covered by two finite sets is no larger than both.              *)
LEMMA SmallerThanUnion ==
  ASSUME NEW S, NEW T, NEW U, IsFiniteSet(T), IsFiniteSet(U), S \in SUBSET (T \cup U)
  PROVE  /\ IsFiniteSet(S)
         /\ Cardinality(S) \in Nat /\ Cardinality(T) \in Nat /\ Cardinality(U) \in Nat
         /\ Cardinality(S) <= Cardinality(T) + Cardinality(U)
<1>1. /\ IsFiniteSet(T \cup U)
      /\ Cardinality(T \cup U) = Cardinality(T) + Cardinality(U) - Cardinality(T \cap U)
  BY FS_Union
<1>2. IsFiniteSet(T \cap U)
  BY FS_Subset
<1>3. IsFiniteSet(S) /\ Cardinality(S) <= Cardinality(T \cup U)
  BY <1>1, FS_Subset
<1>4. /\ Cardinality(S) \in Nat /\ Cardinality(T) \in Nat /\ Cardinality(U) \in Nat
      /\ Cardinality(T \cap U) \in Nat
  BY <1>2, <1>3, FS_CardinalityType
<1> QED
  BY <1>1, <1>3, <1>4

LEMMA ListsAreFinite ==
  ASSUME FiniteTables, NEW a, NEW f
  PROVE  /\ Listed(a, f) \subseteq DOMAIN tasks
         /\ IsFiniteSet(Listed(a, f))
         /\ Total(a, f) \in Nat
         /\ \A t : /\ RowNumber(a, f, t) \in Nat
                   /\ RowNumber(a, f, t) <= Total(a, f)
<1>1. Listed(a, f) \subseteq DOMAIN tasks
  BY DEF Listed, Own, OfTenant, Live
<1>2. IsFiniteSet(Listed(a, f))
  BY <1>1, FS_Subset DEF FiniteTables
<1>3. Total(a, f) \in Nat
  BY <1>2, FS_CardinalityType DEF Total
<1>4. ASSUME NEW t
      PROVE  /\ RowNumber(a, f, t) \in Nat
             /\ RowNumber(a, f, t) <= Total(a, f)
  <2> DEFINE rows == {v \in Listed(a, f) : NoLater(v, t)}
  <2>1. IsFiniteSet(rows) /\ Cardinality(rows) <= Cardinality(Listed(a, f))
    BY <1>2, FS_Subset
  <2> QED
    BY <2>1, FS_CardinalityType DEF RowNumber, Total
<1> QED
  BY <1>1, <1>2, <1>3, <1>4

(* The tasks that leave a list.                                            *)
LeavingList(a, f) == {t \in Listed(a, f) : t \notin Listed(a, f)'}

LEMMA ListsStayFinite ==
  ASSUME FiniteTables, FiniteTables', NEW a, NEW f
  PROVE  /\ IsFiniteSet(LeavingList(a, f)) /\ Cardinality(LeavingList(a, f)) \in Nat
         /\ IsFiniteSet(Listed(a, f)')
         /\ \A t : RowNumber(a, f, t)' \in Nat
<1>1. IsFiniteSet(LeavingList(a, f)) /\ Cardinality(LeavingList(a, f)) \in Nat
  <2>1. LeavingList(a, f) \in SUBSET Listed(a, f)
    BY DEF LeavingList
  <2> QED
    BY <2>1, ListsAreFinite, FS_Subset, FS_CardinalityType
<1>2. IsFiniteSet(Listed(a, f)')
  <2>1. Listed(a, f)' \in SUBSET (DOMAIN tasks')
    BY DEF Listed, Own, OfTenant, Live
  <2> QED
    BY <2>1, FS_Subset DEF FiniteTables
<1>3. ASSUME NEW t
      PROVE  RowNumber(a, f, t)' \in Nat
  <2> DEFINE rows == {v \in Listed(a, f)' : NoLater(v, t)'}
  <2>1. Cardinality(rows) \in Nat
    BY <1>2, FS_Subset, FS_CardinalityType
  <2> QED
    BY <2>1 DEF RowNumber
<1> QED
  BY <1>1, <1>2, <1>3

(* A row moves towards the front of a list by no more places than tasks    *)
(* leave it.                                                               *)
LEMMA RowsMoveUp ==
  ASSUME FiniteTables, FiniteTables', NEW a, NEW f,
         \A v, w : NoLater(v, w) => NoLater(v, w)'
  PROVE  \A t : RowNumber(a, f, t)
                  <= RowNumber(a, f, t)' + Cardinality(LeavingList(a, f))
<1> SUFFICES ASSUME NEW t
             PROVE  RowNumber(a, f, t)
                      <= RowNumber(a, f, t)' + Cardinality(LeavingList(a, f))
  OBVIOUS
<1> DEFINE rows  == {v \in Listed(a, f) : NoLater(v, t)}
           after == {v \in Listed(a, f)' : NoLater(v, t)'}
           out   == LeavingList(a, f)
<1>1. IsFiniteSet(after) /\ IsFiniteSet(out)
  <2>1. after \in SUBSET (Listed(a, f)')
    OBVIOUS
  <2> QED
    BY <2>1, ListsStayFinite, FS_Subset
<1>2. rows \in SUBSET (after \cup out)
  BY DEF LeavingList
<1>3. RowNumber(a, f, t) = Cardinality(rows) /\ RowNumber(a, f, t)' = Cardinality(after)
  BY DEF RowNumber
<1> HIDE DEF rows, after, out
<1>4. Cardinality(rows) <= Cardinality(after) + Cardinality(out)
  BY <1>1, <1>2, SmallerThanUnion
<1> QED
  BY <1>3, <1>4 DEF out

(* Every row of a list has a number of its own.                            *)
LEMMA RowNumbersDiffer ==
  ASSUME FiniteTables, OrderOK, NEW a, NEW f,
         NEW s \in Listed(a, f), NEW t \in Listed(a, f),
         RowNumber(a, f, s) = RowNumber(a, f, t)
  PROVE  s = t
<1>1. s \in DOMAIN tasks /\ t \in DOMAIN tasks
  BY ListsAreFinite
<1>2. PICK i \in DOMAIN order, j \in DOMAIN order : order[i] = s /\ order[j] = t
  BY <1>1 DEF OrderOK
<1>3. DOMAIN order \subseteq Nat
  BY LenProperties DEF OrderOK
<1>4. ASSUME NEW k \in DOMAIN order, NEW l \in DOMAIN order, k < l,
             order[k] \in Listed(a, f), order[l] \in Listed(a, f)
      PROVE  RowNumber(a, f, order[k]) # RowNumber(a, f, order[l])
  <2> DEFINE upTo(v) == {w \in Listed(a, f) : NoLater(w, v)}
  <2>1. \A m \in DOMAIN order : \A v :
          NoLater(v, order[m]) <=> \E n \in DOMAIN order : n <= m /\ order[n] = v
    BY DEF NoLater, OrderOK
  <2>2. upTo(order[k]) \in SUBSET upTo(order[l])
    BY <1>3, <1>4, <2>1
  <2>3. order[l] \in upTo(order[l]) /\ order[l] \notin upTo(order[k])
    BY <1>3, <1>4, <2>1 DEF OrderOK
  <2>4. IsFiniteSet(upTo(order[l]))
    <3>1. upTo(order[l]) \in SUBSET Listed(a, f)
      OBVIOUS
    <3> QED
      BY <3>1, ListsAreFinite, FS_Subset
  <2>5. Cardinality(upTo(order[k])) # Cardinality(upTo(order[l]))
    BY <2>2, <2>3, <2>4, FS_Subset
  <2> QED
    BY <2>5 DEF RowNumber
<1>5. i = j \/ i < j \/ j < i
  BY <1>3
<1> QED
  BY <1>2, <1>4, <1>5

LEMMA TablesStayFinite ==
  ASSUME FiniteTables, [CommentsNext]_cvars \/ AccountCommit
  PROVE  FiniteTables'
<1>1. IsFiniteSet(DOMAIN tasks')
  <2>1. PICK t : DOMAIN tasks' \subseteq DOMAIN tasks \cup {t}
    BY CommitAddsOneTask DEF AddsTask
  <2> QED
    BY <2>1, FS_AddElement, FS_Subset DEF FiniteTables
<1>2. IsFiniteSet(DOMAIN comments')
  <2>1. PICK c : DOMAIN comments' \subseteq DOMAIN comments \cup {c}
    BY CommitAddsOneComment
  <2> QED
    BY <2>1, FS_AddElement, FS_Subset DEF FiniteTables
<1> QED
  BY <1>1, <1>2 DEF FiniteTables

(* The tasks of a user by status, as a dashboard counts them.              *)
TasksWith(u, statuses) == {t \in TasksOf(u) : tasks[t].status \in statuses}

LEMMA FiguresCount ==
  ASSUME FiniteTables, NEW u
  PROVE  /\ \A f : Figure(f, u) \in Nat
         /\ Figure("high", u) <= Figure("total", u)
         /\ \A statuses : /\ IsFiniteSet(TasksWith(u, statuses))
                          /\ Cardinality(TasksWith(u, statuses)) \in Nat
<1>1. IsFiniteSet(TasksOf(u))
  <2>1. TasksOf(u) \in SUBSET DOMAIN tasks
    BY DEF TasksOf, OfTenant, Live
  <2> QED
    BY <2>1, FS_Subset DEF FiniteTables
<1>2. ASSUME NEW S \in SUBSET TasksOf(u)
      PROVE  /\ IsFiniteSet(S)
             /\ Cardinality(S) \in Nat
             /\ Cardinality(S) <= Cardinality(TasksOf(u))
  BY <1>1, FS_Subset, FS_CardinalityType
<1>3. ASSUME NEW f
      PROVE  Figure(f, u) \in Nat
  <2>1. CASE f = "comments"
    <3> DEFINE S == {c \in LiveComments : comments[c].task \in TasksOf(u)}
    <3>1. S \in SUBSET DOMAIN comments
      BY DEF LiveComments
    <3>2. Cardinality(S) \in Nat
      BY <3>1, FS_Subset, FS_CardinalityType DEF FiniteTables
    <3> QED
      BY <2>1, <3>2 DEF Figure
  <2>2. CASE f = "total"
    BY <1>2, <2>2 DEF Figure
  <2>3. CASE f = "high"
    <3>1. {t \in TasksOf(u) : tasks[t].priority = "high"} \in SUBSET TasksOf(u)
      OBVIOUS
    <3> QED
      BY <1>2, <2>3, <3>1 DEF Figure
  <2>4. CASE f \notin {"comments", "total", "high"}
    <3>1. {t \in TasksOf(u) : tasks[t].status = f} \in SUBSET TasksOf(u)
      OBVIOUS
    <3> QED
      BY <1>2, <2>4, <3>1 DEF Figure
  <2> QED
    BY <2>1, <2>2, <2>3, <2>4
<1>4. Figure("high", u) <= Figure("total", u)
  <2>1. {t \in TasksOf(u) : tasks[t].priority = "high"} \in SUBSET TasksOf(u)
    OBVIOUS
  <2> QED
    BY <1>2, <2>1 DEF Figure
<1>5. \A statuses : TasksWith(u, statuses) \in SUBSET TasksOf(u)
  BY DEF TasksWith
<1> QED
  BY <1>2, <1>3, <1>4, <1>5

(* A commit moves each figure by no more than the rows it writes.          *)
LEMMA FiguresMove ==
  ASSUME FiniteTables, FiniteTables', DOMAIN tasks \subseteq DOMAIN tasks',
         NEW u, NEW statuses
  PROVE  LET d == Cardinality(RowsWritten) IN
         /\ d \in Nat
         /\ Cardinality(TasksWith(u, statuses))
              <= Cardinality(TasksWith(u, statuses)') + d
         /\ Cardinality(TasksWith(u, statuses)')
              <= Cardinality(TasksWith(u, statuses)) + d
         /\ Cardinality(TasksWith(u, statuses)') \in Nat
         /\ Figure("total", u)' <= Figure("total", u) + d
         /\ Figure("total", u)' \in Nat
<1> DEFINE before == TasksWith(u, statuses)
           after  == TasksWith(u, statuses)'
           all    == TasksOf(u)
<1>1. IsFiniteSet(before) /\ IsFiniteSet(all)
  <2>1. before \in SUBSET (DOMAIN tasks) /\ all \in SUBSET (DOMAIN tasks)
    BY DEF TasksWith, TasksOf, OfTenant, Live
  <2> QED
    BY <2>1, FS_Subset DEF FiniteTables
<1>2. IsFiniteSet(after) /\ IsFiniteSet(RowsWritten)
  <2>1. after \in SUBSET (DOMAIN tasks') /\ RowsWritten \in SUBSET (DOMAIN tasks')
    BY DEF TasksWith, TasksOf, OfTenant, Live, RowsWritten
  <2> QED
    BY <2>1, FS_Subset DEF FiniteTables
<1>3. \A t \in DOMAIN tasks' \ RowsWritten : t \in DOMAIN tasks /\ tasks'[t] = tasks[t]
  BY DEF RowsWritten
<1>4. /\ before \in SUBSET (after \cup RowsWritten)
      /\ after \in SUBSET (before \cup RowsWritten)
      /\ all' \in SUBSET (all \cup RowsWritten)
  BY <1>3 DEF TasksWith, TasksOf, OfTenant, Live
<1>5. Figure("total", u) = Cardinality(all) /\ Figure("total", u)' = Cardinality(all')
  BY DEF Figure
<1> HIDE DEF before, after, all
<1>6. /\ Cardinality(RowsWritten) \in Nat /\ Cardinality(after) \in Nat
      /\ Cardinality(before) <= Cardinality(after) + Cardinality(RowsWritten)
  BY <1>1, <1>2, <1>4, SmallerThanUnion
<1>7. Cardinality(after) <= Cardinality(before) + Cardinality(RowsWritten)
  BY <1>1, <1>2, <1>4, SmallerThanUnion
<1>8. /\ Cardinality(all') \in Nat
      /\ Cardinality(all') <= Cardinality(all) + Cardinality(RowsWritten)
  BY <1>1, <1>2, <1>4, SmallerThanUnion
<1> QED
  BY <1>5, <1>6, <1>7, <1>8 DEF before, after

-----------------------------------------------------------------------------
(* The inductive invariant of reads.                                       *)

(* Of what stayed in the list since a walk began, no more is behind it     *)
(* unseen than has left the list.                                          *)
RowsRead(r) == IF r.op = "page" THEN Skip(r.page) ELSE r.page * PageSize

Passed(r) ==
  {t \in r.stayed \ r.seen : RowNumber(r.actor, r.filter, t) <= RowsRead(r)}

WalkOK(r) ==
  /\ r.op \in {"page", "total"} => /\ r.stayed \subseteq Listed(r.actor, r.filter)
                                   /\ Cardinality(Passed(r)) <= r.left
  /\ r.op = "walked" => Cardinality(r.stayed \ r.seen) <= r.left

(* The figures by status that n queries have left to come, and those that  *)
(* came.                                                                   *)
ToCome(n) == CASE n = 1 -> {"pending", "in_progress", "completed"}
               [] n = 2 -> {"in_progress", "completed"}
               [] n = 3 -> {"completed"}
               [] OTHER -> {}

Counted(got) ==
  (IF Len(got) > 1 THEN got[2] ELSE 0) + (IF Len(got) > 2 THEN got[3] ELSE 0)
    + (IF Len(got) > 3 THEN got[4] ELSE 0)

(* What came and what would come now add up to the total but for the       *)
(* rows written since.                                                     *)
SumOK(r) ==
  Apart(Counted(r.got) + Cardinality(TasksWith(r.user, ToCome(Len(r.got)))), r.got[1])
    <= r.written

HighOK(r) ==
  (IF Len(r.got) < 5 THEN Figure("total", r.user) ELSE r.got[5])
    <= r.got[1] + r.written

StatsOK(r) ==
  r.op = "stats" /\ Len(r.got) > 0 => /\ Len(r.got) <= 6
                                      /\ SumOK(r)
                                      /\ HighOK(r)

Read == {Idle} \cup Walk \cup Stats

ReadsInv ==
  /\ CommentsInv
  /\ FiniteTables
  /\ OrderOK
  /\ gone \in [User -> User \cup {None}]
  /\ readers \in [Reader -> Read]
  /\ \A x \in Reader : WalkOK(readers[x]) /\ StatsOK(readers[x])

LEMMA KindsOfReads ==
  ASSUME NEW r \in Read
  PROVE  /\ r.op \in {"page", "total", "walked"} => r \in Walk
         /\ r.op = "stats" => r \in Stats
         /\ r.op \in {"idle", "page", "total", "walked", "stats"}
<1>1. Idle.op = "idle"
  BY DEF Idle
<1> QED
  BY <1>1 DEF Read, Walk, Stats

LEMMA IdleOK == Idle \in Read /\ WalkOK(Idle) /\ StatsOK(Idle)
<1>1. Idle.op = "idle"
  BY DEF Idle
<1> QED
  BY <1>1 DEF Read, WalkOK, StatsOK

LEMMA ReadsInitInv == ReadsInit => ReadsInv
<1> SUFFICES ASSUME ReadsInit PROVE ReadsInv
  OBVIOUS
<1>1. CommentsInv
  BY CommentsInitInv DEF ReadsInit
<1>2. DOMAIN tasks = {} /\ DOMAIN comments = {}
  BY DEF ReadsInit, CommentsInit, Init
<1>3. FiniteTables
  BY <1>2, FS_EmptySet DEF FiniteTables
<1>4. OrderOK
  <2>1. order \in Seq(TaskId) /\ DOMAIN order = {}
    BY DEF ReadsInit
  <2> QED
    BY <1>2, <2>1 DEF OrderOK
<1>5. readers \in [Reader -> Read] /\ \A x \in Reader : readers[x] = Idle
  BY IdleOK DEF ReadsInit
<1>6. gone \in [User -> User \cup {None}]
  BY DEF ReadsInit
<1> QED
  BY <1>1, <1>3, <1>4, <1>5, <1>6, IdleOK DEF ReadsInv

(* As long as nobody writes, a read in order stays so.                     *)
LEMMA QuietKeepsRead ==
  ASSUME UNCHANGED <<cvars, order>>, NEW r
  PROVE  (WalkOK(r) => WalkOK(r)') /\ (StatsOK(r) => StatsOK(r)')
<1>1. tasks' = tasks /\ comments' = comments /\ order' = order
  BY DEF cvars, vars
<1>2. \A a, f : Listed(a, f)' = Listed(a, f)
  BY <1>1 DEF Listed, Own, OfTenant, Live
<1>3. \A a, f, t : RowNumber(a, f, t)' = RowNumber(a, f, t)
  BY <1>1, <1>2 DEF RowNumber, NoLater
<1>4. \A u : TasksOf(u)' = TasksOf(u)
  BY <1>1 DEF TasksOf, OfTenant, Live
<1>5. \A u, ss : TasksWith(u, ss)' = TasksWith(u, ss)
  BY <1>1, <1>4 DEF TasksWith
<1>6. \A u : Figure("total", u)' = Figure("total", u)
  BY <1>4 DEF Figure
<1> QED
  BY <1>2, <1>3, <1>5, <1>6 DEF WalkOK, Passed, RowsRead, StatsOK, SumOK, HighOK

(* A read moves on when its next state is in order, since it changes       *)
(* nothing else.                                                           *)
LEMMA BecomeKeepsInv ==
  ASSUME ReadsInv, NEW x \in Reader, NEW state \in Read, WalkOK(state), StatsOK(state),
         Become(x, state)
  PROVE  ReadsInv'
<1>1. UNCHANGED <<cvars, order, gone>> /\ readers' = [readers EXCEPT ![x] = state]
  BY DEF Become
<1>2. CommentsInv'
  BY <1>1, CommentsNextKeepsInv DEF ReadsInv
<1>3. FiniteTables' /\ OrderOK' /\ gone' \in [User -> User \cup {None}]
  BY <1>1 DEF ReadsInv, FiniteTables, OrderOK, cvars, vars
<1>4. \A r : (WalkOK(r) => WalkOK(r)') /\ (StatsOK(r) => StatsOK(r)')
  BY <1>1, QuietKeepsRead
<1>5. \A y \in Reader : readers'[y] = IF y = x THEN state ELSE readers[y]
  BY <1>1 DEF ReadsInv
<1>6. readers' \in [Reader -> Read]
  BY <1>1 DEF ReadsInv
<1>7. \A y \in Reader : WalkOK(readers[y])' /\ StatsOK(readers[y])'
  <2> SUFFICES ASSUME NEW y \in Reader PROVE WalkOK(readers[y])' /\ StatsOK(readers[y])'
    OBVIOUS
  <2>1. WalkOK(readers'[y]) /\ StatsOK(readers'[y])
    BY <1>5 DEF ReadsInv
  <2> QED
    BY <1>4, <2>1
<1> QED
  BY <1>2, <1>3, <1>6, <1>7 DEF ReadsInv

-----------------------------------------------------------------------------
(* Every step of a read keeps it in order.                                 *)

LEMMA StartWalkOK ==
  ASSUME ReadsInv, NEW x \in Reader, NEW a \in User, NEW f \in Filter, StartWalk(x, a, f)
  PROVE  ReadsInv'
<1> DEFINE state == [op |-> "page", actor |-> a, filter |-> f, page |-> 1,
                     seen |-> {}, stayed |-> Listed(a, f), left |-> 0]
<1>1. /\ Listed(a, f) \subseteq TaskId
      /\ \A t : RowNumber(a, f, t) \in Nat
  BY ListsAreFinite DEF ReadsInv, CommentsInv, CommentsTypeOK, TypeOK
<1>2. state \in Read
  BY <1>1 DEF Read, Walk
<1>3. Skip(1) = 0
  BY PageSizeAssumption DEF Skip
<1>4. ASSUME NEW t \in Listed(a, f)
      PROVE  0 < RowNumber(a, f, t)
  <2> DEFINE rows == {v \in Listed(a, f) : NoLater(v, t)}
  <2>1. t \in DOMAIN tasks
    BY ListsAreFinite DEF ReadsInv
  <2>2. PICK k \in DOMAIN order : order[k] = t
    BY <2>1 DEF ReadsInv, OrderOK
  <2>3. k <= k
    BY <2>2, LenProperties DEF ReadsInv, OrderOK
  <2>4. t \in rows
    BY <2>2, <2>3 DEF NoLater
  <2>5. IsFiniteSet(rows)
    BY ListsAreFinite, FS_Subset DEF ReadsInv
  <2>6. Cardinality(rows) # 0
    BY <2>4, <2>5, FS_EmptySet
  <2> QED
    BY <1>1, <2>6 DEF RowNumber
<1>5. WalkOK(state) /\ StatsOK(state)
  <2>1. Passed(state) = {}
    BY <1>1, <1>3, <1>4 DEF Passed, RowsRead
  <2> QED
    BY <2>1, FS_EmptySet DEF WalkOK, StatsOK
<1>6. Become(x, state)
  BY DEF StartWalk
<1> QED
  BY <1>2, <1>5, <1>6, BecomeKeepsInv

LEMMA PassedIsFinite ==
  ASSUME FiniteTables, NEW r, r.op \in {"page", "total"}, WalkOK(r)
  PROVE  IsFiniteSet(r.stayed) /\ IsFiniteSet(Passed(r))
<1>1. r.stayed \in SUBSET Listed(r.actor, r.filter)
  BY DEF WalkOK
<1>2. IsFiniteSet(r.stayed)
  BY <1>1, ListsAreFinite, FS_Subset
<1>3. Passed(r) \in SUBSET r.stayed
  BY DEF Passed
<1> QED
  BY <1>2, <1>3, FS_Subset

LEMMA ReadPageOK ==
  ASSUME ReadsInv, NEW x \in Reader, ReadPage(x)
  PROVE  ReadsInv'
<1> DEFINE r == readers[x]
           page == Page(r.actor, r.filter, r.page)
           state == [r EXCEPT !.op = "total", !.seen = @ \cup page]
<1>1. r \in Walk /\ r.op = "page" /\ WalkOK(r)
  BY KindsOfReads DEF ReadsInv, ReadPage
<1>2. page \subseteq TaskId
  <2>1. Listed(r.actor, r.filter) \subseteq DOMAIN tasks
    BY ListsAreFinite DEF ReadsInv
  <2> QED
    BY <2>1 DEF Page, ReadsInv, CommentsInv, CommentsTypeOK, TypeOK
<1>3. Become(x, state)
  BY DEF ReadPage
<1> HIDE DEF r
<1>4. /\ state.op = "total" /\ state.seen = r.seen \cup page /\ state.stayed = r.stayed
      /\ state.actor = r.actor /\ state.filter = r.filter /\ state.page = r.page
      /\ state.left = r.left
  BY <1>1 DEF Walk
<1>5. state \in Read /\ StatsOK(state)
  <2>1. state \in Walk
    BY <1>1, <1>2 DEF Walk
  <2> QED
    BY <1>4, <2>1 DEF Read, StatsOK
<1>6. Skip(r.page) + PageSize = r.page * PageSize
  BY <1>1, PageSizeAssumption DEF Skip, Walk
<1> HIDE DEF state
<1>7. r.stayed \subseteq Listed(r.actor, r.filter) /\ Cardinality(Passed(r)) <= r.left
  BY <1>1 DEF WalkOK
<1>8. ASSUME NEW t \in Passed(state)
      PROVE  t \in Passed(r)
  <2>1. /\ t \in r.stayed \ r.seen /\ t \notin page
        /\ t \in Listed(r.actor, r.filter)
        /\ RowNumber(r.actor, r.filter, t) <= Skip(r.page) + PageSize
    BY <1>4, <1>6, <1>7 DEF Passed, RowsRead
  <2>2. ~(Skip(r.page) < RowNumber(r.actor, r.filter, t))
    BY <2>1 DEF Page
  <2>3. RowNumber(r.actor, r.filter, t) \in Nat
    BY ListsAreFinite DEF ReadsInv
  <2>4. RowNumber(r.actor, r.filter, t) <= Skip(r.page)
    <3>1. r.page \in Nat /\ PageSize \in Nat
      BY <1>1, PageSizeAssumption DEF Walk
    <3>2. Skip(r.page) \in Int
      BY <3>1 DEF Skip
    <3> QED
      BY <2>2, <2>3, <3>2
  <2> QED
    BY <1>1, <2>1, <2>4 DEF Passed, RowsRead
<1>9. Cardinality(Passed(state)) <= state.left
  <2>1. IsFiniteSet(Passed(r))
    BY <1>1, PassedIsFinite DEF ReadsInv
  <2>2. Passed(state) \in SUBSET Passed(r)
    BY <1>8
  <2>3. Cardinality(Passed(state)) <= Cardinality(Passed(r))
    BY <2>1, <2>2, FS_Subset
  <2>4. Cardinality(Passed(state)) \in Nat /\ Cardinality(Passed(r)) \in Nat
    BY <2>1, <2>2, FS_Subset, FS_CardinalityType
  <2>5. r.left \in Nat
    BY <1>1 DEF Walk
  <2> QED
    BY <1>4, <1>7, <2>3, <2>4, <2>5
<1>10. WalkOK(state)
  BY <1>4, <1>7, <1>9 DEF WalkOK
<1> QED
  BY <1>3, <1>5, <1>10, BecomeKeepsInv DEF state

LEMMA ReadTotalOK ==
  ASSUME ReadsInv, NEW x \in Reader, ReadTotal(x)
  PROVE  ReadsInv'
<1> DEFINE r == readers[x]
           next == [r EXCEPT !.op = "page", !.page = @ + 1]
           done == [r EXCEPT !.op = "walked"]
<1>1. r \in Walk /\ r.op = "total" /\ WalkOK(r)
  BY KindsOfReads DEF ReadsInv, ReadTotal
<1>2. \/ Become(x, next)
      \/ ~(r.page * PageSize < Total(r.actor, r.filter)) /\ Become(x, done)
  BY DEF ReadTotal
<1> HIDE DEF r
<1>3. Skip(r.page + 1) = r.page * PageSize /\ r.page * PageSize \in Nat
  BY <1>1, PageSizeAssumption DEF Skip, Walk
<1>4. CASE Become(x, next)
  <2>1. /\ next.op = "page" /\ next.seen = r.seen /\ next.stayed = r.stayed
        /\ next.actor = r.actor /\ next.filter = r.filter /\ next.page = r.page + 1
        /\ next.left = r.left
    BY <1>1 DEF Walk
  <2>2. next \in Walk
    <3>1. r.page + 1 \in Nat /\ DOMAIN r = DOMAIN next
      BY <1>1 DEF Walk
    <3> QED
      BY <1>1, <2>1, <3>1 DEF Walk
  <2>3. WalkOK(next) /\ StatsOK(next)
    <3>1. Passed(next) = Passed(r)
      BY <1>1, <1>3, <2>1 DEF Passed, RowsRead
    <3> QED
      BY <1>1, <2>1, <3>1 DEF WalkOK, StatsOK
  <2> QED
    BY <1>4, <2>2, <2>3, BecomeKeepsInv DEF Read
<1>5. CASE ~(r.page * PageSize < Total(r.actor, r.filter)) /\ Become(x, done)
  <2>1. /\ done.op = "walked" /\ done.seen = r.seen /\ done.stayed = r.stayed
        /\ done.actor = r.actor /\ done.filter = r.filter /\ done.page = r.page
        /\ done.left = r.left
    BY <1>1 DEF Walk
  <2>2. done \in Walk
    BY <1>1 DEF Walk
  <2>3. ASSUME NEW t \in r.stayed \ r.seen
        PROVE  t \in Passed(r)
    <3>1. /\ RowNumber(r.actor, r.filter, t) <= Total(r.actor, r.filter)
          /\ RowNumber(r.actor, r.filter, t) \in Nat /\ Total(r.actor, r.filter) \in Nat
      BY ListsAreFinite DEF ReadsInv
    <3>2. RowNumber(r.actor, r.filter, t) <= r.page * PageSize
      BY <1>3, <1>5, <3>1
    <3> QED
      BY <1>1, <2>3, <3>2 DEF Passed, RowsRead
  <2>4. Cardinality(r.stayed \ r.seen) <= r.left
    <3>1. Passed(r) = r.stayed \ r.seen
      BY <2>3 DEF Passed
    <3> QED
      BY <1>1, <3>1 DEF WalkOK
  <2>5. WalkOK(done) /\ StatsOK(done)
    BY <2>1, <2>4 DEF WalkOK, StatsOK
  <2> QED
    BY <1>5, <2>2, <2>5, BecomeKeepsInv DEF Read
<1> QED
  BY <1>2, <1>4, <1>5

(* One query by status counts what it takes from the figures to come; the  *)
(* three of them count every task.                                         *)
LEMMA FiguresByStatus ==
  ASSUME ReadsInv, NEW u
  PROVE  /\ Cardinality(TasksWith(u, ToCome(1))) = Figure("total", u)
         /\ \A n \in 1..3 : Cardinality(TasksWith(u, ToCome(n)))
              = Figure(Figures[n + 1], u) + Cardinality(TasksWith(u, ToCome(n + 1)))
         /\ \A n \in 4..6 : Cardinality(TasksWith(u, ToCome(n))) = 0
<1>1. FiniteTables
  BY DEF ReadsInv
<1>2. ASSUME NEW t \in TasksOf(u)
      PROVE  tasks[t].status \in {"pending", "in_progress", "completed"}
  <2>1. t \in DOMAIN tasks /\ tasks \in [DOMAIN tasks -> Row]
    BY DEF TasksOf, OfTenant, Live, ReadsInv, CommentsInv, CommentsTypeOK, TypeOK
  <2> QED
    BY <2>1, StatusAssumption DEF Row
<1>3. Cardinality(TasksWith(u, ToCome(1))) = Figure("total", u)
  <2>1. TasksWith(u, ToCome(1)) = TasksOf(u)
    BY <1>2 DEF TasksWith, ToCome
  <2> QED
    BY <2>1 DEF Figure
<1>4. ASSUME NEW st \in {"pending", "in_progress", "completed"}, NEW rest,
             st \notin rest
      PROVE  Cardinality(TasksWith(u, {st} \cup rest))
               = Figure(st, u) + Cardinality(TasksWith(u, rest))
  <2> DEFINE S == {t \in TasksOf(u) : tasks[t].status = st}
             T == TasksWith(u, rest)
  <2>1. Figure(st, u) = Cardinality(S)
    BY DEF Figure
  <2>2. S = TasksWith(u, {st})
    BY DEF TasksWith
  <2>3. IsFiniteSet(S) /\ IsFiniteSet(T)
    BY <1>1, <2>2, FiguresCount
  <2>4. S \cup T = TasksWith(u, {st} \cup rest) /\ S \cap T = {}
    BY <1>4 DEF TasksWith
  <2>5. Cardinality(S) \in Nat /\ Cardinality(T) \in Nat
    BY <2>3, FS_CardinalityType
  <2> HIDE DEF S, T
  <2>6. Cardinality(S \cup T) = Cardinality(S) + Cardinality(T) - Cardinality({})
    BY <2>3, <2>4, FS_Union
  <2>7. Cardinality({}) = 0
    BY FS_EmptySet
  <2>8. Cardinality(S \cup T) = Cardinality(S) + Cardinality(T)
    BY <2>5, <2>6, <2>7
  <2> QED
    BY ONLY <2>1, <2>4, <2>8, Zenon DEF T
<1>5. /\ Figures[2] = "pending" /\ Figures[3] = "in_progress" /\ Figures[4] = "completed"
      /\ ToCome(1) = {"pending"} \cup ToCome(2)
      /\ ToCome(2) = {"in_progress"} \cup ToCome(3)
      /\ ToCome(3) = {"completed"} \cup ToCome(4)
      /\ "pending" \notin ToCome(2) /\ "in_progress" \notin ToCome(3)
      /\ "completed" \notin ToCome(4)
  BY DEF Figures, ToCome
<1>6. ASSUME NEW n \in 1..3
      PROVE  Cardinality(TasksWith(u, ToCome(n)))
               = Figure(Figures[n + 1], u) + Cardinality(TasksWith(u, ToCome(n + 1)))
  <2>1. CASE n = 1
    BY <1>4, <1>5, <2>1
  <2>2. CASE n = 2
    BY <1>4, <1>5, <2>2
  <2>3. CASE n = 3
    BY <1>4, <1>5, <2>3
  <2> QED
    BY <2>1, <2>2, <2>3
<1>7. ASSUME NEW n \in 4..6
      PROVE  Cardinality(TasksWith(u, ToCome(n))) = 0
  <2>1. TasksWith(u, ToCome(n)) = {}
    BY DEF TasksWith, ToCome
  <2> QED
    BY <2>1, FS_EmptySet
<1> QED
  BY <1>3, <1>6, <1>7

LEMMA StartStatsOK ==
  ASSUME ReadsInv, NEW x \in Reader, NEW a \in User, NEW u \in User, StartStats(x, a, u)
  PROVE  ReadsInv'
<1> DEFINE state == [op |-> "stats", user |-> u, got |-> <<>>, written |-> 0]
<1>1. state \in Read
  BY DEF Read, Stats
<1>2. WalkOK(state) /\ StatsOK(state)
  BY DEF WalkOK, StatsOK
<1>3. Become(x, state)
  BY DEF StartStats
<1> QED
  BY <1>1, <1>2, <1>3, BecomeKeepsInv

LEMMA EndReadOK ==
  ASSUME ReadsInv, NEW x \in Reader, EndRead(x)
  PROVE  ReadsInv'
BY IdleOK, BecomeKeepsInv DEF EndRead

LEMMA ReadFigureOK ==
  ASSUME ReadsInv, NEW x \in Reader, ReadFigure(x)
  PROVE  ReadsInv'
<1> DEFINE r == readers[x]
           n == Len(r.got)
           figure == Figure(Figures[n + 1], r.user)
           state == [r EXCEPT !.got = Append(@, figure)]
<1>1. r \in Stats /\ r.op = "stats" /\ StatsOK(r) /\ n < 6
  <2>1. Len(Figures) = 6
    BY DEF Figures
  <2> QED
    BY <2>1, KindsOfReads DEF ReadsInv, ReadFigure
<1>2. Become(x, state)
  BY DEF ReadFigure
<1>3. FiniteTables
  BY DEF ReadsInv
<1> HIDE DEF r
<1>0. n = Len(r.got)
  OBVIOUS
<1> HIDE DEF n
<1>4. r.got \in Seq(Nat) /\ n \in 0..5 /\ r.written \in Nat
  <2>1. r.got \in Seq(Nat) /\ r.written \in Nat
    BY <1>1 DEF Stats
  <2>2. n \in Nat
    BY <1>0, <2>1, LenProperties
  <2>3. n < 6
    BY <1>1
  <2>4. n \in 0..5
    BY ONLY <2>2, <2>3
  <2> QED
    BY <2>1, <2>4
<1>5. figure \in Nat
  BY <1>3, FiguresCount
<1> HIDE DEF figure
<1>6. /\ state.op = "stats" /\ state.user = r.user /\ state.written = r.written
      /\ state.got = Append(r.got, figure)
  BY <1>1 DEF Stats
<1>7. /\ state.got \in Seq(Nat) /\ Len(state.got) = n + 1
      /\ \A i \in 1..n : state.got[i] = r.got[i]
      /\ state.got[n + 1] = figure
  BY <1>0, <1>4, <1>5, <1>6, AppendProperties
<1>8. state \in Read
  <2>1. state \in Stats
    BY <1>1, <1>7 DEF Stats
  <2> QED
    BY <2>1 DEF Read
<1> HIDE DEF state
<1>9. Len(state.got) <= 6
  BY <1>4, <1>7
<1>10. \A i \in 1..n : r.got[i] \in Nat
  BY <1>0, <1>4, ElementOfSeq
<1>11. \A ss : Cardinality(TasksWith(r.user, ss)) \in Nat
  BY <1>3, FiguresCount
<1>12. Figure("total", r.user) \in Nat /\ Figure("high", r.user) <= Figure("total", r.user)
       /\ Figure("high", r.user) \in Nat
  BY <1>3, FiguresCount
<1>13. /\ Figures[1] = "total" /\ Figures[5] = "high"
  BY DEF Figures
<1>14. ASSUME n = 0
       PROVE  StatsOK(state)
  <2>1. figure = Figure("total", r.user)
    BY <1>13, <1>14 DEF figure
  <2>2. state.got[1] = figure /\ Len(state.got) = 1
    BY <1>7, <1>14
  <2>3. Counted(state.got) = 0
    BY <2>2 DEF Counted
  <2>4. Cardinality(TasksWith(r.user, ToCome(1))) = figure
    BY <2>1, FiguresByStatus
  <2>5. SumOK(state)
    BY <1>4, <1>5, <1>6, <2>2, <2>3, <2>4 DEF SumOK, Apart
  <2>6. HighOK(state)
    BY <1>4, <1>5, <1>6, <2>1, <2>2 DEF HighOK
  <2> QED
    BY <1>9, <2>5, <2>6 DEF StatsOK
<1>15. ASSUME n \in 1..3
       PROVE  StatsOK(state)
  <2>0. Len(r.got) > 0
    BY ONLY <1>0, <1>15
  <2>1. SumOK(r) /\ HighOK(r)
    BY <1>1, <2>0 DEF StatsOK
  <2>2. Cardinality(TasksWith(r.user, ToCome(n)))
          = figure + Cardinality(TasksWith(r.user, ToCome(n + 1)))
    BY <1>15, FiguresByStatus DEF figure
  <2>3. state.got[1] = r.got[1] /\ r.got[1] \in Nat
    BY <1>7, <1>10, <1>15
  <2>4. Counted(state.got) = Counted(r.got) + figure /\ Counted(r.got) \in Nat
    <3>1. CASE n = 1
      BY <1>0, <1>5, <1>7, <3>1 DEF Counted
    <3>2. CASE n = 2
      BY <1>0, <1>5, <1>7, <1>10, <3>2 DEF Counted
    <3>3. CASE n = 3
      BY <1>0, <1>5, <1>7, <1>10, <3>3 DEF Counted
    <3> QED
      BY <1>15, <3>1, <3>2, <3>3
  <2>5. Counted(state.got) + Cardinality(TasksWith(r.user, ToCome(n + 1)))
          = Counted(r.got) + Cardinality(TasksWith(r.user, ToCome(n)))
    BY <1>5, <1>11, <2>2, <2>4
  <2>6. SumOK(state)
    BY <1>0, <1>6, <1>7, <2>1, <2>3, <2>5 DEF SumOK
  <2>7. HighOK(state)
    BY <1>0, <1>6, <1>7, <1>15, <2>1, <2>3 DEF HighOK
  <2> QED
    BY <1>9, <2>6, <2>7 DEF StatsOK
<1>16. ASSUME n \in 4..5
       PROVE  StatsOK(state)
  <2>0. Len(r.got) > 0
    BY ONLY <1>0, <1>16
  <2>1. SumOK(r) /\ HighOK(r)
    BY <1>1, <2>0 DEF StatsOK
  <2>2. /\ Cardinality(TasksWith(r.user, ToCome(n))) = 0
        /\ Cardinality(TasksWith(r.user, ToCome(n + 1))) = 0
    BY <1>16, FiguresByStatus
  <2>3. state.got[1] = r.got[1] /\ r.got[1] \in Nat
    BY <1>7, <1>10, <1>16
  <2>4. Counted(state.got) = Counted(r.got)
    <3>1. \A i \in 2..4 : i \in 1..n
      BY ONLY <1>16
    <3>2. Len(r.got) > 3 /\ Len(state.got) > 3
      <4>1. n > 3 /\ n + 1 > 3
        BY ONLY <1>16
      <4>2. Len(state.got) = n + 1
        BY <1>7
      <4> QED
        BY ONLY <1>0, <4>1, <4>2, Zenon
    <3>3. \A i \in 2..4 : state.got[i] = r.got[i]
      BY ONLY <1>7, <3>1
    <3> QED
      BY <3>2, <3>3 DEF Counted
  <2>5. SumOK(state)
    BY <1>0, <1>6, <1>7, <2>1, <2>2, <2>3, <2>4 DEF SumOK
  <2>6. HighOK(state)
    <3>1. CASE n = 4
      <4>1. figure = Figure("high", r.user)
        BY <1>13, <3>1 DEF figure
      <4>2. Figure("total", r.user) <= r.got[1] + r.written
        BY <1>0, <2>1, <3>1 DEF HighOK
      <4>3. Len(state.got) = 5 /\ state.got[5] = figure
        BY ONLY <1>7, <3>1
      <4>4. figure <= state.got[1] + state.written
        <5>1. figure <= Figure("total", r.user)
          BY ONLY <1>12, <4>1
        <5>2. state.got[1] = r.got[1] /\ state.written = r.written
          BY ONLY <1>6, <2>3
        <5> QED
          BY ONLY <1>4, <1>5, <1>12, <2>3, <4>2, <5>1, <5>2
      <4> QED
        BY <4>3, <4>4 DEF HighOK
    <3>2. CASE n = 5
      BY <1>0, <1>6, <1>7, <2>1, <2>3, <3>2 DEF HighOK
    <3> QED
      BY <1>16, <3>1, <3>2
  <2> QED
    BY <1>9, <2>5, <2>6 DEF StatsOK
<1>17. StatsOK(state)
  BY <1>4, <1>14, <1>15, <1>16
<1>18. WalkOK(state)
  BY <1>6 DEF WalkOK
<1> QED
  BY <1>2, <1>8, <1>17, <1>18, BecomeKeepsInv DEF state

-----------------------------------------------------------------------------
(* A commit keeps every read in flight in order.                           *)

(* What comes to lie behind a walk unseen has crossed the rows read so     *)
(* far, which no more rows can do than tasks leave the list.               *)
LEMMA FewCross ==
  ASSUME FiniteTables, FiniteTables', OrderOK, \A v, w : NoLater(v, w) => NoLater(v, w)',
         NEW a, NEW f, NEW k \in Int, NEW X \in SUBSET Listed(a, f),
         \A t \in X : k < RowNumber(a, f, t) /\ RowNumber(a, f, t)' <= k
  PROVE  IsFiniteSet(X) /\ Cardinality(X) <= Cardinality(LeavingList(a, f))
<1> DEFINE d    == Cardinality(LeavingList(a, f))
           rows == (k + 1)..(k + d)
           row  == [t \in X |-> RowNumber(a, f, t)]
<1>1. d \in Nat
  BY ListsStayFinite
<1>2. \A t \in X : RowNumber(a, f, t) \in rows
  <2> SUFFICES ASSUME NEW t \in X PROVE RowNumber(a, f, t) \in rows
    OBVIOUS
  <2>1. RowNumber(a, f, t) \in Nat /\ RowNumber(a, f, t)' \in Nat
    BY ListsAreFinite, ListsStayFinite
  <2>2. RowNumber(a, f, t) <= RowNumber(a, f, t)' + d
    BY RowsMoveUp
  <2>3. k < RowNumber(a, f, t) /\ RowNumber(a, f, t)' <= k
    OBVIOUS
  <2> HIDE DEF d
  <2> QED
    BY <1>1, <2>1, <2>2, <2>3
<1>3. \A s, t \in X : row[s] = row[t] => s = t
  BY RowNumbersDiffer
<1> HIDE DEF d
<1>4. IsFiniteSet(rows) /\ Cardinality(rows) = d
  BY <1>1, FS_Interval
<1>5. row \in Injection(X, rows)
  BY <1>2, <1>3 DEF Injection, IsInjective
<1> HIDE DEF row, rows
<1>6. IsFiniteSet(X) /\ Cardinality(X) <= Cardinality(rows)
  BY <1>4, <1>5, FS_Injection
<1> QED
  BY <1>4, <1>6 DEF d

LEMMA CommitKeepsWalk ==
  ASSUME FiniteTables, FiniteTables', OrderOK, \A v, w : NoLater(v, w) => NoLater(v, w)',
         NEW r \in Walk, r.op \in {"page", "total"}, WalkOK(r),
         NEW out, out = LeavingList(r.actor, r.filter),
         NEW s, s = [r EXCEPT !.stayed = @ \ out, !.left = @ + Cardinality(out)]
  PROVE  s \in Walk /\ WalkOK(s)'
<1> DEFINE a == r.actor
           f == r.filter
           k == RowsRead(r)
<1>1. Cardinality(out) \in Nat /\ IsFiniteSet(out)
  BY ListsStayFinite
<1>2. /\ s.op = r.op /\ s.actor = a /\ s.filter = f /\ s.page = r.page
      /\ s.seen = r.seen /\ s.stayed = r.stayed \ out
      /\ s.left = r.left + Cardinality(out)
  BY DEF Walk
<1>3. s \in Walk
  <2>1. r.stayed \ out \in SUBSET TaskId /\ r.left + Cardinality(out) \in Nat
    BY <1>1 DEF Walk
  <2> QED
    BY <2>1 DEF Walk
<1>4. s.stayed \subseteq Listed(a, f)'
  BY <1>2 DEF WalkOK, LeavingList
<1>5. k \in Int /\ RowsRead(s) = k
  <2>1. r.page \in Nat /\ PageSize \in Nat
    BY PageSizeAssumption DEF Walk
  <2>2. r.page * PageSize \in Int /\ (r.page - 1) * PageSize \in Int
    BY <2>1
  <2> QED
    BY <1>2, <2>2 DEF RowsRead, Skip
<1>6. Cardinality(Passed(s)') <= s.left
  <2> DEFINE behind == {t \in s.stayed \ s.seen : RowNumber(a, f, t)' <= k}
             X == {t \in behind : k < RowNumber(a, f, t)}
  <2>1. Passed(s)' = behind
    BY <1>2, <1>5 DEF Passed, RowsRead
  <2>2. X \in SUBSET Listed(a, f)
    BY <1>2 DEF WalkOK
  <2>3. IsFiniteSet(X) /\ Cardinality(X) <= Cardinality(out)
    BY <1>5, <2>2, FewCross
  <2>4. behind \in SUBSET (Passed(r) \cup X)
    <3> SUFFICES ASSUME NEW t \in behind, t \notin X PROVE t \in Passed(r)
      OBVIOUS
    <3>1. RowNumber(a, f, t) \in Nat
      BY ListsAreFinite
    <3>2. RowNumber(a, f, t) <= k
      BY <1>5, <3>1
    <3> QED
      BY <1>2, <3>2 DEF Passed
  <2>5. IsFiniteSet(Passed(r)) /\ Cardinality(Passed(r)) <= r.left
    BY PassedIsFinite DEF WalkOK
  <2>6. r.left \in Nat
    BY DEF Walk
  <2> HIDE DEF behind, X
  <2>7. /\ Cardinality(behind) \in Nat /\ Cardinality(Passed(r)) \in Nat
        /\ Cardinality(X) \in Nat
        /\ Cardinality(behind) <= Cardinality(Passed(r)) + Cardinality(X)
    BY <2>3, <2>4, <2>5, SmallerThanUnion
  <2> QED
    BY <1>1, <1>2, <2>1, <2>3, <2>5, <2>6, <2>7
<1>7. WalkOK(s)'
  BY <1>2, <1>4, <1>6 DEF WalkOK
<1> QED
  BY <1>3, <1>7

LEMMA ApartByMore ==
  ASSUME NEW i \in Nat, NEW m \in Nat, NEW n \in Nat, NEW j \in Nat, NEW c \in Nat,
         NEW d \in Nat, m <= n + d, n <= m + d, Apart(i + m, j) <= c
  PROVE  Apart(i + n, j) <= c + d
BY DEF Apart

LEMMA CommitKeepsStats ==
  ASSUME FiniteTables, FiniteTables', DOMAIN tasks \subseteq DOMAIN tasks',
         NEW r \in Stats, StatsOK(r), NEW d \in Nat, d = Cardinality(RowsWritten),
         NEW s,
         \/ Len(r.got) \notin 1..5 /\ s = r
         \/ Len(r.got) \in 1..5 /\ s = [r EXCEPT !.written = @ + d]
  PROVE  s \in Stats /\ StatsOK(s)'
<1> DEFINE u == r.user
           n == Len(r.got)
           sum == Counted(r.got)
           rest == Cardinality(TasksWith(u, ToCome(n)))
           restAfter == Cardinality(TasksWith(u, ToCome(n))')
           total == Figure("total", u)
           totalAfter == Figure("total", u)'
<1>1. /\ r.op = "stats" /\ r.got \in Seq(Nat) /\ r.written \in Nat
      /\ n \in Nat /\ \A i \in 1..n : r.got[i] \in Nat
  BY LenProperties, ElementOfSeq DEF Stats
<1>2. s \in Stats /\ s.op = "stats" /\ s.user = u /\ s.got = r.got
  BY DEF Stats
<1>0. n = Len(r.got)
  OBVIOUS
<1> HIDE DEF n
<1>3. CASE n = 0
  BY <1>2, <1>3 DEF StatsOK, n
<1>4. CASE n > 0
  <2>1. n <= 6 /\ SumOK(r) /\ HighOK(r)
    BY <1>1, <1>4 DEF StatsOK, n
  <2>2. r.got[1] \in Nat /\ sum \in Nat
    <3>1. /\ 1 \in 1..n /\ (n > 1 => 2 \in 1..n) /\ (n > 2 => 3 \in 1..n)
          /\ (n > 3 => 4 \in 1..n)
      BY <1>1, <1>4
    <3>2. /\ r.got[1] \in Nat /\ (n > 1 => r.got[2] \in Nat)
          /\ (n > 2 => r.got[3] \in Nat) /\ (n > 3 => r.got[4] \in Nat)
      BY <1>1, <3>1
    <3> QED
      BY <3>2 DEF Counted, n
  <2>3. rest \in Nat /\ total \in Nat
    BY FiguresCount
  <2>4. restAfter \in Nat /\ totalAfter \in Nat
    BY FiguresMove
  <2>5. rest <= restAfter + d /\ restAfter <= rest + d /\ totalAfter <= total + d
    BY FiguresMove
  <2>6. n >= 4 => rest = 0 /\ restAfter = 0
    <3> SUFFICES ASSUME n >= 4 PROVE rest = 0 /\ restAfter = 0
      OBVIOUS
    <3>0. n # 1 /\ n # 2 /\ n # 3
      BY <1>1
    <3>1. ToCome(n) = {}
      BY <3>0 DEF ToCome
    <3>2. TasksWith(u, ToCome(n)) = {} /\ TasksWith(u, ToCome(n))' = {}
      BY <3>1 DEF TasksWith
    <3> QED
      BY <3>2, FS_EmptySet
  <2>7. Apart(sum + rest, r.got[1]) <= r.written
    BY <2>1 DEF SumOK, n
  <2>8. (IF n < 5 THEN total ELSE r.got[5]) <= r.got[1] + r.written
    BY <2>1 DEF HighOK, n
  <2>9. n >= 5 => r.got[5] \in Nat
    <3>1. n >= 5 => 5 \in 1..n
      BY <1>1
    <3> QED
      BY <1>1, <3>1
  <2> HIDE DEF sum
  <2>10. ASSUME n \notin 1..5, s = r
         PROVE  /\ Apart(sum + restAfter, r.got[1]) <= s.written
                /\ (IF n < 5 THEN totalAfter ELSE r.got[5]) <= r.got[1] + s.written
    <3>1. n >= 5 /\ n >= 4 /\ ~(n < 5)
      BY <1>1, <1>4, <2>10
    <3> QED
      BY <2>6, <2>7, <2>8, <2>10, <3>1
  <2>11. ASSUME s = [r EXCEPT !.written = @ + d]
         PROVE  /\ Apart(sum + restAfter, r.got[1]) <= s.written
                /\ (IF n < 5 THEN totalAfter ELSE r.got[5]) <= r.got[1] + s.written
    <3>1. s.written = r.written + d
      BY <2>11 DEF Stats
    <3>2. Apart(sum + restAfter, r.got[1]) <= r.written + d
      BY <1>1, <2>2, <2>3, <2>4, <2>5, <2>7, ApartByMore
    <3>3. (IF n < 5 THEN totalAfter ELSE r.got[5]) <= r.got[1] + (r.written + d)
      <4> DEFINE g1 == r.got[1]
                 g5 == r.got[5]
                 c  == r.written
      <4>1. g1 \in Nat /\ c \in Nat /\ d \in Nat /\ (n >= 5 => g5 \in Nat)
        BY <1>1, <2>2, <2>9
      <4>2. (IF n < 5 THEN total ELSE g5) <= g1 + c
        BY <2>8
      <4> HIDE DEF g1, g5, c, total, totalAfter
      <4>3. (IF n < 5 THEN totalAfter ELSE g5) <= g1 + (c + d)
        <5>1. CASE n < 5
          BY ONLY <2>3, <2>4, <2>5, <4>1, <4>2, <5>1
        <5>2. CASE ~(n < 5)
          <6>1. g5 \in Nat
            BY ONLY <1>1, <4>1, <5>2
          <6> QED
            BY ONLY <4>1, <4>2, <5>2, <6>1
        <5> QED
          BY <5>1, <5>2
      <4> QED
        BY <4>3 DEF g1, g5, c
    <3> QED
      <4>1. Apart(sum + restAfter, r.got[1]) <= s.written
        BY ONLY <3>1, <3>2, Zenon
      <4>2. (IF n < 5 THEN totalAfter ELSE r.got[5]) <= r.got[1] + s.written
        BY ONLY <3>1, <3>3, Zenon
      <4> QED
        BY ONLY <4>1, <4>2
  <2>12. /\ Apart(sum + restAfter, r.got[1]) <= s.written
         /\ (IF n < 5 THEN totalAfter ELSE r.got[5]) <= r.got[1] + s.written
    BY <2>10, <2>11 DEF n
  <2> QED
    BY <1>2, <2>1, <2>12 DEF StatsOK, SumOK, HighOK, n, sum
<1> QED
  BY <1>1, <1>2, <1>3, <1>4

LEMMA CommitKeepsReads ==
  ASSUME ReadsInv, (CommentsNext /\ UNCHANGED gone) \/ AccountCommit, Written
  PROVE  ReadsInv'
<1>1. CommentsInv'
  BY CommentsNextKeepsInv, AccountStepKeepsInv DEF ReadsInv, AccountCommit
<1>2. FiniteTables /\ FiniteTables'
  BY TablesStayFinite DEF ReadsInv
<1>3. PICK t : AddsTask(t)
  BY CommitAddsOneTask
<1>4. OrderOK /\ OrderOK' /\ \A v, w : NoLater(v, w) => NoLater(v, w)'
  <2>1. DOMAIN tasks' \subseteq TaskId
    BY <1>1 DEF CommentsInv, CommentsTypeOK, TypeOK
  <2> QED
    BY <1>3, <2>1, OrderIsKept DEF ReadsInv, Written
<1>5. gone' \in [User -> User \cup {None}]
  BY DEF ReadsInv, AccountCommit, DeleteAccount, RestoreAccount, Cascade
<1>6. DOMAIN tasks \subseteq DOMAIN tasks'
  BY <1>3 DEF AddsTask
<1>7. PICK d \in Nat : d = Cardinality(RowsWritten)
  BY <1>2, <1>6, FiguresMove
<1>8. ASSUME NEW x \in Reader, NEW r, r = readers[x], NEW s, s = readers'[x]
      PROVE  s \in Read /\ WalkOK(s)' /\ StatsOK(s)'
  <2>1. r \in Read /\ WalkOK(r) /\ StatsOK(r)
    BY <1>8 DEF ReadsInv
  <2>2. Len(Figures) - 1 = 5
    BY DEF Figures
  <2>3. PICK out : out = LeavingList(r.actor, r.filter)
    OBVIOUS
  <2>4. Leaving(x) = out
    BY <1>8, <2>3 DEF Leaving, LeavingList
  <2>5. s = CASE r.op \in {"page", "total"} ->
                   [r EXCEPT !.stayed = @ \ out, !.left = @ + Cardinality(out)]
              [] r.op = "stats" /\ Len(r.got) \in 1..5 -> [r EXCEPT !.written = @ + d]
              [] OTHER -> r
    BY <1>7, <1>8, <2>2, <2>4 DEF Written, Observe
  <2>6. CASE r.op \in {"page", "total"}
    <3>1. r \in Walk
      BY <2>1, <2>6, KindsOfReads
    <3>2. s = [r EXCEPT !.stayed = @ \ out, !.left = @ + Cardinality(out)]
      BY <2>5, <2>6
    <3>3. s \in Walk /\ WalkOK(s)'
      BY <1>2, <1>4, <2>1, <2>3, <2>6, <3>1, <3>2, CommitKeepsWalk
    <3>4. s.op # "stats"
      BY <3>3 DEF Walk
    <3> QED
      BY <3>3, <3>4 DEF Read, StatsOK
  <2>7. CASE r.op = "stats"
    <3>1. r \in Stats
      BY <2>1, <2>7, KindsOfReads
    <3>2. \/ Len(r.got) \notin 1..5 /\ s = r
          \/ Len(r.got) \in 1..5 /\ s = [r EXCEPT !.written = @ + d]
      BY <2>5, <2>7
    <3>3. s \in Stats /\ StatsOK(s)'
      BY <1>2, <1>6, <1>7, <2>1, <3>1, <3>2, CommitKeepsStats
    <3>4. s.op \notin {"page", "total", "walked"}
      BY <3>3 DEF Stats
    <3> QED
      BY <3>3, <3>4 DEF Read, WalkOK
  <2>8. CASE r.op \in {"idle", "walked"}
    <3>1. s = r
      BY <2>5, <2>8
    <3>2. WalkOK(r)' /\ StatsOK(r)'
      BY <2>1, <2>8 DEF WalkOK, StatsOK
    <3> QED
      BY <2>1, <3>1, <3>2
  <2> QED
    BY <2>1, <2>6, <2>7, <2>8, KindsOfReads
<1>9. readers' \in [Reader -> Read]
  <2>1. \A x \in Reader : readers'[x] \in Read
    BY <1>8
  <2> QED
    BY <2>1 DEF Written, Observe
<1>10. \A x \in Reader : WalkOK(readers[x])' /\ StatsOK(readers[x])'
  BY <1>8
<1> QED
  BY <1>1, <1>2, <1>4, <1>5, <1>9, <1>10 DEF ReadsInv

LEMMA ReadsNextKeepsInv == ReadsInv /\ [ReadsNext]_rvars => ReadsInv'
<1> SUFFICES ASSUME ReadsInv, [ReadsNext]_rvars PROVE ReadsInv'
  OBVIOUS
<1>1. CASE UNCHANGED rvars
  <2>1. UNCHANGED <<cvars, order, gone, readers>>
    BY <1>1 DEF rvars
  <2>2. CommentsInv'
    BY <2>1, CommentsNextKeepsInv DEF ReadsInv
  <2>3. /\ FiniteTables' /\ OrderOK' /\ readers' \in [Reader -> Read]
        /\ gone' \in [User -> User \cup {None}]
    BY <2>1 DEF ReadsInv, FiniteTables, OrderOK, cvars, vars
  <2>4. \A x \in Reader : WalkOK(readers[x])' /\ StatsOK(readers[x])'
    BY <2>1, QuietKeepsRead DEF ReadsInv
  <2> QED
    BY <2>2, <2>3, <2>4 DEF ReadsInv
<1>2. CASE ((CommentsNext /\ UNCHANGED gone) \/ AccountCommit) /\ Written
  BY <1>2, CommitKeepsReads
<1>3. ASSUME NEW x \in Reader, ReadNext(x)
      PROVE  ReadsInv'
  BY <1>3, StartWalkOK, ReadPageOK, ReadTotalOK, StartStatsOK, ReadFigureOK, EndReadOK
     DEF ReadNext
<1> QED
  BY <1>1, <1>2, <1>3 DEF ReadsNext, AccountCommit

LEMMA ReadsInvariance == ReadsSpec => []ReadsInv
BY ReadsInitInv, ReadsNextKeepsInv, PTL DEF ReadsSpec

(* Lists, walks and dashboards in flight always have their types, the      *)
(* order of the list among them: every task has one place in it.           *)
THEOREM ReadsTypeCorrect == ReadsSpec => []ReadsTypeOK
<1>1. ReadsInv => ReadsTypeOK
  BY DEF ReadsInv, ReadsTypeOK, CommentsInv, OrderOK, Read
<1> QED
  BY <1>1, ReadsInvariance, PTL

(* A walk through the pages of a list (list_tasks) misses, of the tasks    *)
(* that stay in the list, no more than tasks leave it meanwhile, whatever  *)
(* requests and account deletions write: the numbers of the rows differ,   *)
(* and one moves up by as many places as rows before it have left.         *)
THEOREM WalksMissFew == ReadsSpec => []WalkComplete
<1>1. ReadsInv => WalkComplete
  BY DEF ReadsInv, WalkOK, WalkComplete
<1> QED
  BY <1>1, ReadsInvariance, PTL

(* The figures of a dashboard, each a query of its own, disagree by no     *)
(* more than the rows of tasks written between the queries                 *)
(* (_stats_intern), be it all those of an account at once                  *)
(* (_cascade_soft_delete_user_related, _cascade_restore_user_related).     *)
THEOREM DashboardsAreClose == ReadsSpec => []StatsClose
<1>1. ReadsInv => StatsClose
  <2> SUFFICES ASSUME ReadsInv, NEW x \in Reader, readers[x].op = "stats",
                      Len(readers[x].got) = Len(Figures)
               PROVE  /\ Apart(readers[x].got[2] + readers[x].got[3] + readers[x].got[4],
                               readers[x].got[1]) <= readers[x].written
                      /\ readers[x].got[5] <= readers[x].got[1] + readers[x].written
    BY DEF StatsClose
  <2> DEFINE r == readers[x]
  <2>1. r \in Stats /\ StatsOK(r)
    BY KindsOfReads DEF ReadsInv
  <2>2. Len(r.got) = 6
    BY DEF Figures
  <2> HIDE DEF r
  <2>3. r.got \in Seq(Nat) /\ r.written \in Nat
    BY <2>1 DEF Stats
  <2>4. \A i \in 1..6 : r.got[i] \in Nat
    BY <2>2, <2>3, ElementOfSeq
  <2>5. SumOK(r) /\ HighOK(r)
    BY <2>1, <2>2 DEF StatsOK, r
  <2>6. Cardinality(TasksWith(r.user, ToCome(6))) = 0
    BY FiguresByStatus
  <2>7. Counted(r.got) = r.got[2] + r.got[3] + r.got[4]
    BY <2>2, <2>4 DEF Counted
  <2>8. Apart(r.got[2] + r.got[3] + r.got[4], r.got[1]) <= r.written
    BY <2>2, <2>4, <2>5, <2>6, <2>7 DEF SumOK
  <2>9. r.got[5] <= r.got[1] + r.written
    BY <2>2, <2>5 DEF HighOK
  <2> QED
    BY <2>8, <2>9 DEF r
<1> QED
  BY <1>1, ReadsInvariance, PTL
=============================================================================
