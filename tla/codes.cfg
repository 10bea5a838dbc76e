CONSTANTS
  None = None
  User = {u1}
  Tenant = {t1, t2}
  MaxSent = 3
  MaxConcurrent = 2
  Req = {1, 2}
SPECIFICATION MCSpec
INVARIANT TypeOK
INVARIANT SuccessVerifies
INVARIANT SerialCodesReach
INVARIANT SerialNoCodeForVerified
PROPERTY OneTime
