SPECIFICATION StorageSpec
CONSTANTS
  Blocks = {b1, b2}
  Halves = {1, 2}
  Vals = {0, 1}
  Zero = 0
  max_bufs = 1
  Syncers = {s1, s2}
  FLUSH_INTERVAL = 1
  POLL = 1
  Num = 4
  W = 8
  Tokens = {"v"}
  Sizes = {2, 3}
  Threads = {t1, t2}
  None = None
  Settings = {"up", "smp", "slow"}
VIEW StorageView
INVARIANTS Coherent Durable AgedOut 
CHECK_DEADLOCK FALSE
