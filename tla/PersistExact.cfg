\* Crashes outside the snapshot rewrite: recovery is exact.
CONSTANTS
  a = a
  b = b
  j1 = j1
  j2 = j2
  Job = {j1, j2}
  QueueName = {a, b}
  QueueOf <- MCQueueOf
  MaxAttempts <- Retried
  ScheduledAt <- Unscheduled
  MaxLog = 1
  CrashPoints <- AllButCompact
  IoFaults = {}
  TornFaults = {1}
  MaxRecords = 2
  MaxCrashes = 2
  MaxTime = 0
SPECIFICATION FairSpec
INVARIANTS
  TypeOK
  MemoryIsLogged
  AckSurvives
  NoDuplicateJob
PROPERTIES
  ImplementsQueue
  RestartsServe
