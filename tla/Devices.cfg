SPECIFICATION DevicesSpec
CONSTANTS
  d1 = d1
  Nics = {1, 2}
  Driver <- DevDriver
  Boards = {{1}, {2}}
  RXRING = 3
  BUDGET = 2
  TXRING = 2
  TXIDX = 4
  RING_TRBS <- DevTrbs
  XThreads = {d1}
  XLoads <- DevXLoads
  Signals = FALSE
  RootPorts = {1, 2}
  HubPorts = {1}
  Gadgets = {"h", "k"}
  Kind <- DevKind
  Fits <- DevFits
  Slots = {1, 2, 3}
  UDevs = {1, 2, 3}
  TIERS = 5
  MaxRecords = 1
  Replug = FALSE
  NBlocks = 1
  ATTEMPTS = 2
  READY_TRIES = 2
  Faults = 2
  Keys = {"a"}
  Mods = {"m"}
  Clients = {"f", "g"}
  QLEN = 3
INVARIANTS NetdevExact  DiskExact InputExact
CHECK_DEADLOCK FALSE
