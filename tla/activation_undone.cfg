SPECIFICATION Spec
CONSTANTS
  Profiles = {p1, p2}
  Unconfigured = Unconfigured
  Requests = {r1}
  Threads = {t1}
  Adapters = {a1, a2, a3, a4}
  NoAdapter = NoAdapter
  MaxActivations = 1
  MaxOutages = 1
  MaxRestarts = 0
  Lossy = FALSE
  Overlap = TRUE
INVARIANT ActiveIsLastDone
