SPECIFICATION FairSpec
CONSTANTS
  Requests = {q1, s1}
  Slack = {s1}
  Persons = {ann}
  q1 = q1
  q2 = q2
  s1 = s1
  s2 = s2
  ann = ann
  Nobody = Nobody
  PoolSize = 1
  Ttl = 1
  MaxTime = 1
  MaxChanges = 1
  MaxBeats = 1
INVARIANTS TypeOK OnlyCleared OneReply
PROPERTIES StreamsKeepContract EveryStreamEnds EveryEventEnds
CHECK_DEADLOCK FALSE
