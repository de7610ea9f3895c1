SPECIFICATION RacesSpec
CONSTANTS
  p1 = p1
  p2 = p2
  Profiles = {p1, p2}
  Configs = {cfg1}
  Kinds = {metric_mapping}
  SweptKinds = {metric_mapping}
  Clients = {c1}
  AutoName = p1
  Unconfigured = Unconfigured
  Mangled = Mangled
  ReadBack <- MCReadBackNull
  Absent = Absent
  NoCall = NoCall
PROPERTY ActivationTakesEffect
