SPECIFICATION BothSpec
CONSTANTS
  r2 = r2
  t2 = t2
  Profiles = {p1, p2}
  Unconfigured = Unconfigured
  Requests = {r1}
  Threads = {t1}
  Adapters = {a1, a2, a3, a4, a5, a6}
  NoAdapter = NoAdapter
  MaxActivations = 3
  MaxOutages = 2
  MaxRestarts = 1
  Lossy = TRUE
  Overlap = FALSE
INVARIANTS SkillAtRest SessionsReferred
PROPERTIES CalmServing CalmAnswers
