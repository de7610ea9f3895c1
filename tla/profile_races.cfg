SPECIFICATION RacesSpec
CONSTANTS
  p1 = p1
  p2 = p2
  Profiles = {p1, p2}
  Configs = {cfg1, cfg2}
  Kinds = {metric_mapping, intent_active, kpi_objective}
  SweptKinds = {metric_mapping, intent_active}
  Clients = {c1, c2}
  AutoName = p1
  Unconfigured = Unconfigured
  Mangled = Mangled
  ReadBack <- MCReadBackPlain
  Absent = Absent
  NoCall = NoCall
INVARIANTS ActiveRaceContained OrphansRaceContained
PROPERTIES LoneImplementsRegistry BornClean
