SPECIFICATION LocksSpec
CONSTANTS
  Cpus = {c1, c2, c3}
  NoCpu = NoCpu
  W = 4
  Threads = {t1, t2, t3}
  None = None
  Clients = {1, 2}
  UNames = {"a"}
  Inos = {1}
  UChunks = 2
  UOps <- UserfsCalls
  MaxSize = 2
  IdMod = 2
  MaxDeaths = 1
  MaxStalls = 1
INVARIANTS MutualExclusion NoLostEvent OwnersOnly NoStrandedWaiter QueueExact UfsExact
PROPERTIES FirstComeFirstServed NobodyKeptForEver
