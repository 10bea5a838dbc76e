CONSTANTS
  t1 = t1
  acme = acme
  r1 = r1
  bob = bob
  Bob = Bob
  eve = eve
  None = None
  User = {u1, u2}
  Email = {e1, e2}
  Username = {bob, Bob, eve}
  Lower <- MCLower
  Tenant = {t1, t2}
  OrgName = {acme, beta}
  FirstTenants <- MCFirstTenants
  InvitationId = {i1, i2}
  Req = {r1, r2}
SPECIFICATION MCSpec
SYMMETRY Symmetry
INVARIANT TypeOK
INVARIANT InvitationSingleUse
INVARIANT SerialOpenOnceUnlessRestored
