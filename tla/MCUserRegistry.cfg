SPECIFICATION Spec
CONSTANTS
  Names = {root}
  Scripts = {c1, c2}
  Browsers = {b1}
  Registrations = {r1, r2}
  Removals = {d1}
  SlackIds = {u1}
  Employees = {ann, bob}
  root = root
  c1 = c1
  c2 = c2
  b1 = b1
  r1 = r1
  r2 = r2
  d1 = d1
  u1 = u1
  ann = ann
  bob = bob
  NoAdmin = NoAdmin
  NoSlack = NoSlack
  NoRow = NoRow
  NoBody = NoBody
  MaxRows = 2
  MaxTouched = 1
SYMMETRY Symmetry
INVARIANTS TypeOK CreatedOnce RevokedAtOnce RegistrationSettled DeregisteredStays OneEmployeePerSlackId
CHECK_DEADLOCK FALSE
