SPECIFICATION Spec
CONSTANTS
  Requests = {s1}
  Slack = {s1}
  Persons = {ann}
  q1 = q1
  q2 = q2
  s1 = s1
  s2 = s2
  ann = ann
  Nobody = Nobody
  PoolSize = 1
  Ttl = 2
  MaxTime = 3
  MaxChanges = 1
  MaxBeats = 0
PROPERTIES RevocationWindow
CHECK_DEADLOCK FALSE
