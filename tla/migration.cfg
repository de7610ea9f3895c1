SPECIFICATION CastSpec
CONSTANTS
  web = web
  skill = skill
  Migrators = {web, skill}
  Profiles = {p1, p2}
  Unconfigured = Unconfigured
  Items = {i1, i2}
  Absent = Absent
  MaxCrashes = 2
  MaxEdits = 2
INVARIANT ServedMigrated
PROPERTIES CastServes ValuesKeptAlone EditsKept
CHECK_DEADLOCK FALSE
