SPECIFICATION Spec
CONSTANTS
  Profiles = {p1, p2}
  Unconfigured = Unconfigured
  Requests = {r1}
  Threads = {t1, t2}
  Adapters = {a1, a2, a3, a4, a5, a6}
  NoAdapter = NoAdapter
  MaxActivations = 1
  MaxOutages = 0
  MaxRestarts = 0
  Lossy = FALSE
  Overlap = FALSE
INVARIANT NoOrphanSession
