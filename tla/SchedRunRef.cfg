SPECIFICATION Spec
CONSTANTS
  NrCpus = 2
  Threads = {t1, t2, t3}
  KThreads = {t3}
  Boot = t1
  Idle = Idle
  Policies = {"OTHER"}
  SleepStates = {"S","T"}
  Loads = {"irq"}
INVARIANT RunReferenceDroppedOnce
CHECK_DEADLOCK FALSE
