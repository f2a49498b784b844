SPECIFICATION Spec
CONSTANTS
  NrCpus = 2
  Threads = {t1, t2, t3}
  KThreads = {t3}
  Boot = t1
  Idle = Idle
  Policies = {"OTHER", "FIFO99"}
  SleepStates = {"S"}
  Loads = {"irq", "retune"}
INVARIANTS RunsOnOneCpu NoLostThread QueuesExact BklHeldRunning
PROPERTIES ImplementsAbsSched 
CHECK_DEADLOCK FALSE
