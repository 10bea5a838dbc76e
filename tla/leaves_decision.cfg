CONSTANTS
  t1 = t1
  t2 = t2
  admin = admin
  mentor = mentor
  intern = intern
  outsider = outsider
  r1 = r1
  None = None
  User <- MCUser
  Tenant <- MCTenant
  TenantOf <- MCTenantOf
  RoleOf <- MCRoleOf
  LeaveId = {l1}
  Req = {r1, r2}
  MaxDay = 1
SPECIFICATION MCSpec
SYMMETRY Symmetry
PROPERTY DecisionIsFinal
