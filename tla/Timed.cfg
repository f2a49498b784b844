SPECIFICATION TimedSpec
CONSTANTS
  Cpus = {c0, c1}
  NoCpu = NoCpu
  Timers = {k1, k2}
  Periodic = {k1, k2}
  TICK_NSEC = 1
  MaxTime = 2
  Threads = {w1, w2, p1}
  Waiters = {w1, w2}
  Plain = {w2}
  Posters = {p1}
  None = None
  Addrs = {a1, a2}
  Values = {v0, v1}
  WaitBitsets = {{1}}
  Bits = {1, 2}
  Timeouts = {"zero", "some"}
VIEW TimedView
INVARIANTS ListsExact HardwareCovers LinkedExact NoOversleep
PROPERTIES WakeNotSwallowed
SYMMETRY TimedSymmetry
