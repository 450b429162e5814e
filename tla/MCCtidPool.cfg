SPECIFICATION Spec
CONSTANTS
  t1 = t1
  t2 = t2
  t3 = t3
  h1 = h1
  h2 = h2
  k1 = k1
  k2 = k2
  None = None
  N = 3
  Threads = {t1, t2, t3}
  Hpids = {h1, h2}
  HpidOf <- MCHpidOf
  Buckets = {k1, k2}
  BucketOf <- MCBucketOf
  RefSize = 4
  MaxEntries = 2
INVARIANTS
  IdentityIsSafe
  
CONSTRAINT NoOverlapYet
