SPECIFICATION FairSpec
CONSTANTS
  Threads = {t1, t2}
  Persons = {ann}
  t1 = t1
  t2 = t2
  ann = ann
  NoCtx = NoCtx
  All = All
  Main = Main
  NoAgent = NoAgent
  MaxAttempts = 3
  MaxQueries = 1
INVARIANTS TypeOK ScopeIsolation RetryIsFresh
PROPERTIES OnlySharersTouchShared EveryQueryEnds
CHECK_DEADLOCK FALSE
