SPECIFICATION Spec
CONSTANTS
  Migrators = {web, skill}
  Profiles = {p1, p2}
  Unconfigured = Unconfigured
  Items = {i1}
  Absent = Absent
  MaxCrashes = 0
  MaxEdits = 1
PROPERTY EditsKept
CHECK_DEADLOCK FALSE
