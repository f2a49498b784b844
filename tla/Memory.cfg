SPECIFICATION MemorySpec
CONSTANTS
  PAGE_SIZE = 2
  Top = 18
  Banks <- MCBanks
  Carveouts <- MCCarveouts
  Layouts <- MCLayouts
  ZoneStart <- MCZoneStart
  MAX_ORDER = 3
  ClassSize <- MCClassSize
  MaxRefs = 2
  VCpus = {v1, v2}
  VMALLOC_END = 7
  Frames = {f1, f2, f3}
  Device = Device
  Unmapped = Unmapped
  AreaSizes = {1, 2}
  Mms = {m1, m2}
  USER_VA_END = 6
  UFrames <- MCFrames
  asid_limit = 3
  Data = {1}
  USER_STACK_MAX = 2
  MmapGap = 1
  MaxVmas = 2
  MaxTlb = 2
  FileSize = 2
  VmLoads = {"fork", "cow", "threads", "files", "maps", "heap"}
VIEW MemoryView
INVARIANTS PageOwnersExact AreasExact UserSpacesExact
CHECK_DEADLOCK FALSE
