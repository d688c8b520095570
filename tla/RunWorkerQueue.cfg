SPECIFICATION Spec
CONSTANTS
  r1 = r1
  r2 = r2
  w1 = w1
  w2 = w2
  a1 = a1
  a2 = a2
  t1 = t1
  Nobody = Nobody
  NoRun = NoRun
  Run = {r1, r2}
  Worker = {w1, w2}
  Api = {}
  Tenant = {t1}
  TenantOf <- OneTenant
  SlotLimit = 1
  MaxFaults = 1
SYMMETRY Symmetry
INVARIANTS
  TypeOK
  LocksAreHeld
PROPERTIES
  ImplementsRunExecution
  LostLeaseStaysLost
CHECK_DEADLOCK FALSE
