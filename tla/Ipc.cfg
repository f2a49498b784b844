SPECIFICATION IpcSpec
CONSTANTS
  Threads = {t1, t2}
  Files = {x}
  None = None
  CHAN_MAX_QUEUED = 2
  CHAN_MAX_BYTES = 2
  Lens = {1, 2}
  NonBlock = {}
  FilesToClosed = FALSE
  MaxFds = 1
  w1 = w1
  w2 = w2
  u1 = u1
  parent = parent
  child = child
  PThreads = {w1, w2, u1}
  PProcs = {parent, child}
  ProcOf <- MCProcOf
  Child = child
  Pollers = {u1}
  NFiles = 3
  NPipes = 2
  FD_MAX = 2
  PIPE_SIZE = 3
  PIPE_BUF = 2
  RLens <- MCRLens
  WLens <- MCWLens
  EV_MAX = 2
  PLoads = {"pipe", "fault", "fifo", "poll", "table", "event", "semaphore"}
  CopyFaults = {"fault"}
  FifoFails = FALSE
  USocks = {1, 2, 3, 4}
  UThreads = {t1, t2}
  UAddrs = {"n"}
  RCVBUF = 2
  CHUNK = 2
  BACKLOG = 1
  MaxWaiting = 1
  ULoads <- MCULoads
  ISocks = {1, 2}
  Pcbs = {1, 2}
  IThreads = {t1, t2}
  SNDBUF = 1
  WINDOW = 1
  DGRAMS = 1
  IBACKLOG = 1
  MAXTRIES = 1
  ILoads <- MCILoads
INVARIANTS ChannelsExact PipesExact  NobodySleepsInVain
SYMMETRY Symmetry
CHECK_DEADLOCK FALSE
