CONSTANTS
  t1 = t1
  t2 = t2
  admin = admin
  mentor = mentor
  intern = intern
  outsider = outsider
  None = None
  onlyTitle = a
  medium = "medium"
  User <- MCUser
  Tenant <- MCTenant
  TenantOf <- MCTenantOf
  RoleOf <- MCRoleOf
  TaskId = {k1, k2}
  Title = {a, b}
  Status = {"pending", "in_progress", "completed"}
  Priority = {"medium", "high"}
  Req = {r1, r2}
  MaxLog = 2
  CommentId = {c1, c2}
  CommentReq = {q1, q2}
  Reader = {x1}
  PageSize = 1
SPECIFICATION MCSpec
SYMMETRY Symmetry
INVARIANT OneTenant
INVARIANT InternDeletesOwn
INVARIANT LogTells
INVARIANT SerialNoDuplicateTask
INVARIANT SerialLogChains
INVARIANT CommentsStayInTenant
INVARIANT InternsOwnComments
INVARIANT ReadsTypeOK
INVARIANT ListedIsGot
INVARIANT StatsAgree
INVARIANT StatsClose
INVARIANT WalkComplete
PROPERTY SerialHiddenStays
