\* A record appended behind a torn one.
CONSTANTS
  a = a
  b = b
  j1 = j1
  j2 = j2
  Job = {j1, j2}
  QueueName = {a, b}
  QueueOf <- MCQueueOf
  MaxAttempts <- Retried
  ScheduledAt <- Unscheduled
  MaxLog = 5
  CrashPoints <- AllButRewrite
  IoFaults = {}
  TornFaults = {0, 1}
  MaxRecords = 5
  MaxCrashes = 2
  MaxTime = 0
SPECIFICATION Spec
INVARIANTS
  OpenSucceeds
