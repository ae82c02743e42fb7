CONSTANTS
  u1 = u1
  u2 = u2
  ta = ta
  tb = tb
  Tenants = {ta, tb}
  TenantOf <- MCTenantOf
  None = None
  Uuids = {u1}
  Names = {n1, n2}
  Threads = {t1, t2}
  ConfdSources = {}
  PhonebookSources = {u1}
  FragileSources = {}
  MaxGen = 3
  MaxLoads = 2
SPECIFICATION FairSpec
INVARIANTS
  GetIsFresh
  CacheIsFresh
PROPERTIES
  NoDoubleLoad
  LockIsReleased
