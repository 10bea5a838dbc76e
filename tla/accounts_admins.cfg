CONSTANTS
  t1 = t1
  t2 = t2
  super = super
  admin = admin
  admin2 = admin2
  mentor = mentor
  intern = intern
  newcomer = newcomer
  r1 = r1
  None = None
  Tenant = {t1, t2}
  User = {admin, admin2, intern}
  FirstUsers <- TwoAdmins
  RecordId = {i1}
  Req = {r1, r2}
SPECIFICATION MCSpec
SYMMETRY Symmetry
PROPERTY TenantKeepsAdmin
