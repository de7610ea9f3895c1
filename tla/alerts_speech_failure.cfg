SPECIFICATION Spec
CONSTANTS
  r1 = r1
  r2 = r2
  anomaly = anomaly
  drift = drift
  Never = Never
  Runs <- OneRun
  Keys <- TwoKeys
  Levels <- OneLevel
  Cooldowns <- Short
  MaxTime = 1
SYMMETRY Symmetric
INVARIANT NoSilentCooldown
