\* Named dequeues only, one restart: the heartbeat timeout.
CONSTANTS
  a = a
  j1 = j1
  j2 = j2
  w1 = w1
  w2 = w2
  NoJob = NoJob
  Job = {j1, j2}
  QueueName = {a}
  Worker = {w1, w2}
  Roaming = {}
  QueueOf <- MCQueueOf
  MaxAttempts <- MCMaxAttempts
  ScheduledAt <- MCScheduledAt
  Limit <- Two
  MaxTime = 1
  MaxRecords = 1
  MaxErrors = 0
  MaxRestarts = 1
SPECIFICATION FairSpec
CHECK_DEADLOCK FALSE
PROPERTIES
  SilentJobReturns
