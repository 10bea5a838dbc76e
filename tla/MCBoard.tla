------------------------------- MODULE MCBoard -------------------------------
(* Instances of Tasks, Comments and Reads for TLC: an admin, a mentor and  *)
(* an intern of one tenant, and the admin of another tenant.  A run        *)
(* explores several kinds of behaviour from one start:                     *)
(*   "titles"    everybody creates, renames, reassigns and deletes two     *)
(*               tasks, one request after the other;                       *)
(*   "handover"  everybody creates, reassigns and deletes one task, with   *)
(*               requests in flight together;                              *)
(*   "history"   the intern changes status and priority of one task, one   *)
(*               request after the other;                                  *)
(*   "overlap"   the same, with requests in flight together;               *)
(*   "comments"  everybody comments on one task that is reassigned and     *)
(*               deleted, one request after the other;                     *)
(*   "threads"   the same, with requests in flight together, about a       *)
(*               single comment;                                           *)
(*   "pages"     somebody walks through a list of tasks while the intern   *)
(*               creates, moves and deletes two of them;                   *)
(*   "figures"   somebody computes a dashboard while the intern creates,   *)
(*               moves and deletes two tasks;                              *)
(*   "cascades"  the same, while the admin deletes and restores the        *)
(*               intern's account, with its two tasks.                     *)
EXTENDS Reads, TLC

CONSTANTS t1, t2, admin, mentor, intern, outsider, onlyTitle, medium

MCTenant   == {t1, t2}
MCUser     == {admin, mentor, intern, outsider}
MCTenantOf == [u \in User |-> IF u = outsider THEN t2 ELSE t1]
MCRoleOf   == [u \in User |-> CASE u = mentor -> "MENTOR"
                                [] u = intern -> "INTERN"
                                [] OTHER      -> "TENANT_ADMIN"]

ASSUME BoardAssumption ==
  /\ {admin, mentor, intern} \subseteq User
  /\ onlyTitle \in Title
  /\ medium \in Priority

Symmetry == Permutations(TaskId) \cup Permutations(CommentId)
              \cup Permutations(Req) \cup Permutations(CommentReq)

VARIABLE mode

Is(modes) == mode \in modes

serial   == Is({"titles", "history", "comments", "pages", "figures"})
TwoTasks == Is({"titles", "pages", "figures", "cascades"})
Figured  == Is({"figures", "cascades"})

(* What a behaviour of each kind varies.                                   *)
Actor ==
  CASE Is({"titles", "handover", "comments", "threads"}) -> User
    [] OTHER -> {intern}
Named == IF TwoTasks THEN Title ELSE {onlyTitle}
Ranked ==
  CASE Is({"history", "overlap"}) -> Priority
    [] Figured                    -> Priority \ {medium}
    [] OTHER                      -> {medium}
Retitled == IF Is({"titles"}) THEN Title ELSE {}
Assigned == IF Is({"titles", "handover", "comments", "threads"}) THEN Actor ELSE {}
Moved ==
  CASE Is({"history", "overlap", "figures"}) -> Status
    [] Is({"pages"})                         -> Status \ {"in_progress"}
    [] OTHER                                 -> {}
Reranked == IF Is({"history", "overlap"}) THEN Priority ELSE {}

NothingInFlight ==
  /\ \A r \in Req : req[r] = Idle
  /\ \A r \in CommentReq : creq[r] = Idle

(* A request arrives, and an update that has begun reads.                  *)
MCArrive(r) ==
  \/ \E u \in Actor :
       \/ \E s \in Actor, ti \in Named, pr \in Ranked : CreateTask(r, u, s, ti, pr)
       \/ \E t \in TaskId : DeleteTask(r, u, t)
  \/ \E t \in TaskId : BeginUpdate(r, t)

MCUpdate(r) ==
  \E u \in Actor, t \in TaskId, ti \in Retitled \cup {None}, s \in Assigned \cup {None},
     st \in Moved \cup {None}, pr \in Reranked \cup {None} :
    UpdateTask(r, u, t, ti, s, st, pr)

AboutTask ==
  \E r \in Req :
    \/ /\ serial \/ Is({"cascades"}) => NothingInFlight
       /\ Is({"threads"}) => \A q \in Req : req[q] = Idle
       /\ MCArrive(r)
    \/ MCUpdate(r)
    \/ Write(r)

AboutComment ==
  /\ Is({"comments", "threads"})
  /\ \E r \in CommentReq : \/ (serial => NothingInFlight) /\ CheckComment(r)
                           \/ WriteComment(r)

AboutAccount ==
  /\ Is({"cascades"})
  /\ DeleteAccount(admin, intern) \/ RestoreAccount(admin, intern)

Bounds ==
  /\ TwoTasks \/ Cardinality(DOMAIN tasks') <= 1
  /\ Is({"comments"}) \/ Cardinality(DOMAIN comments') <= 1
  /\ Is({"pages"}) \/ Figured => \A t \in DOMAIN log' : Len(log'[t]) <= 1
  /\ Figured => \A x \in Reader : readers'[x].op = "stats" => readers'[x].written <= 4

MCRead(x) ==
  \/ /\ Is({"pages"})
     /\ \/ \E u \in {admin, intern}, st \in {"pending", None} :
             StartWalk(x, u, [NoFilter EXCEPT !.status = st])
        \/ ReadPage(x)
        \/ ReadTotal(x)
        \/ readers[x].op = "walked" /\ EndRead(x)
  \/ /\ Figured
     /\ \/ \E u \in {mentor, intern} : StartStats(x, u, intern)
        \/ ReadFigure(x)
        \/ readers[x].op = "stats" /\ Len(readers[x].got) = Len(Figures) /\ EndRead(x)

MCInit ==
  /\ ReadsInit
  /\ mode \in {"titles", "handover", "history", "overlap", "comments",
               "threads", "pages", "figures", "cascades"}

MCNext ==
  /\ \/ AboutTask /\ UNCHANGED <<comments, creq, gone>> /\ Written
     \/ AboutComment /\ UNCHANGED gone /\ Written
     \/ AboutAccount /\ Written
     \/ \E x \in Reader : MCRead(x)
  /\ Bounds
  /\ UNCHANGED mode

mcvars == <<rvars, mode>>
MCSpec == MCInit /\ [][MCNext]_mcvars

(* The properties that are claimed of serial behaviours only.              *)
SerialNoDuplicateTask == serial => NoDuplicateTask
SerialLogChains       == serial => LogChains
SerialHiddenStays     == [][serial => HiddenStays]_mcvars
=============================================================================
