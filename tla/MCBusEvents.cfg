CONSTANTS
  Users = {u1, u2}
  Tenants = {t1}
  Backends = {wazo, personal}
  None = None
SPECIFICATION BusFairSpec
INVARIANTS
  EventsTakeEffect
PROPERTIES
  SessionHeals
  EveryEventIsHandled
