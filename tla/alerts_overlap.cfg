SPECIFICATION Spec
CONSTANTS
  r1 = r1
  r2 = r2
  anomaly = anomaly
  drift = drift
  Never = Never
  Runs <- TwoRuns
  Keys <- TwoKeys
  Levels <- OneLevel
  Cooldowns <- ShortAndLong
  MaxTime = 2
CONSTRAINT Bounded
SYMMETRY Symmetric
INVARIANT CooldownRaceContained
INVARIANT SilenceContained
