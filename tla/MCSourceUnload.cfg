CONSTANTS
  u1 = u1
  u2 = u2
  ta = ta
  tb = tb
  Tenants = {ta, tb}
  TenantOf <- MCTenantOf
  None = None
  Uuids = {u1, u2}
  Names = {n1, n2}
  Threads = {t1}
  ConfdSources = {u1}
  PhonebookSources = {}
  FragileSources = {u2}
  MaxGen = 2
  MaxLoads = 3
SPECIFICATION Spec
SYMMETRY Symmetry
INVARIANTS
  CacheIsSound
  OnlyEditsLeakPlugins
