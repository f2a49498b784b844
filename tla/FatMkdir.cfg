SPECIFICATION FilesSpec
CONSTANTS
  Inodes = {1, 2, 3, 4}
  Dentries = {1, 2, 3, 4, 5, 6}
  Mounts = {0, 1, 2}
  Files = {1}
  VPaths <- FilesPaths
  VOps <- FilesCalls
  MAX_SYMLINKS = 2
  PAGE = 2
  max_pages = 2
  VLens = {0, 1, 3}
  NCLUS = 3
  CS = 2
  PER = 1
  ROOT_ENTS = 2
  BPS = 2
  FNames = {"a", "b"}
  FSpans <- FatSpans
  FOps <- FatMkdirCalls
  FSizes = {0, 1, 3}
  MaxRequests = 3
  MaxKills = 1
  FGids = {1, 2, 3}
  CrashAnywhere = TRUE
  TThreads = {t1, t2}
  Master = m
  Users = {1, 2, 3}
  TTY_BUF = 4
  OBUF = 4
  TMP = 1
  TChars <- TtyKeys
  TModes = {"canon", "raw", "timed"}
  TLens = {2}
  TLoads = {"line", "poll", "pty", "jobs"}
INVARIANT FatSound
CHECK_DEADLOCK FALSE
