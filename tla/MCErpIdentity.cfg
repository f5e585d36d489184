SPECIFICATION Spec
CONSTANTS
  Threads = {t1, t2}
  Persons = {ann}
  Groups = {hr, mgmt}
  t1 = t1
  t2 = t2
  ann = ann
  hr = hr
  mgmt = mgmt
  HrGroup = hr
  MgmtGroup = mgmt
  None = None
  Ttl = 2
  MaxTime = 3
  MaxChanges = 2
SYMMETRY ThreadSymmetry
INVARIANTS TypeOK RevocationBound DeactivationBound ProvisioningAtOnce
PROPERTIES PromiseKept
CHECK_DEADLOCK FALSE
