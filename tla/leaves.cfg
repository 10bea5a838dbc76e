CONSTANTS
  t1 = t1
  t2 = t2
  admin = admin
  mentor = mentor
  intern = intern
  outsider = outsider
  r1 = r1
  None = None
  User <- MCUser
  Tenant <- MCTenant
  TenantOf <- MCTenantOf
  RoleOf <- MCRoleOf
  LeaveId = {l1, l2}
  Req = {r1, r2, r3}
  MaxDay = 2
SPECIFICATION MCSpec
SYMMETRY Symmetry
INVARIANT TypeOK
INVARIANT ApprovalAttributed
INVARIANT ListedIsGot
INVARIANT SerialDatesOrdered
PROPERTY DecisionKeepsItsApprover
PROPERTY NeverPendingAgain
