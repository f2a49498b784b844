SPECIFICATION Spec
CONSTANTS
  Threads = {t1, t2}
  Files = {x}
  None = None
  CHAN_MAX_QUEUED = 2
  CHAN_MAX_BYTES = 2
  Lens = {1}
  NonBlock = {0}
  FilesToClosed = TRUE
  MaxFds = 2
INVARIANTS FilesExact

CHECK_DEADLOCK FALSE
