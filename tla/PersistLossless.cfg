\* Crashes, torn writes and I/O errors: no accepted job is lost.
CONSTANTS
  a = a
  b = b
  j1 = j1
  j2 = j2
  Job = {j1, j2}
  QueueName = {a, b}
  QueueOf <- MCQueueOf
  MaxAttempts <- NotRetried
  ScheduledAt <- Scheduled
  MaxLog = 1
  CrashPoints <- AllButRewrite
  IoFaults <- AllIoButRewrite
  TornFaults = {1}
  MaxRecords = 2
  MaxCrashes = 2
  MaxTime = 1
SPECIFICATION Spec
INVARIANTS
  NoAcceptedJobLost
  OpenSucceeds
VIEW WithoutHistory
