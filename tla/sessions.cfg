CONSTANTS
  User = {u1}
  Token = {k1, k2, k3}
  Req = {r1, r2}
  MaxIssued = 3
SPECIFICATION FairSpec
INVARIANT TypeOK
INVARIANT OneSuccessor
PROPERTY ChainSpec
PROPERTY LogoutEnds
PROPERTY RotationEnds
