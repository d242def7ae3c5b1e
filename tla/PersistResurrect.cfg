\* A snapshot taken while a promoted job is scheduled on disk.
CONSTANTS
  a = a
  b = b
  j1 = j1
  j2 = j2
  Job = {j1, j2}
  QueueName = {a, b}
  QueueOf <- MCQueueOf
  MaxAttempts <- Retried
  ScheduledAt <- Scheduled
  MaxLog = 2
  CrashPoints <- AllButCompact
  IoFaults = {}
  TornFaults = {}
  MaxRecords = 3
  MaxCrashes = 1
  MaxTime = 1
SPECIFICATION Spec
INVARIANTS
  AckSurvives
