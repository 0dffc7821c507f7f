CONSTANTS
  None = None
  Workers = {w1, w2}
  Names = {c1}
  Recipients = {r1, r2}
  Batch = 2
  MaxAttempts = 2
  Ops <- EveryOp
  Faults = {"refused", "lost"}
  Failures = 1
  Retries = 1
SPECIFICATION FairSpec
INVARIANTS
  TypeOK
  MailedOnce
  OverMeansAnswered
PROPERTIES
  ScheduledIsAnswered
CHECK_DEADLOCK FALSE
