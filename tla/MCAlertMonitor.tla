---------------------------- MODULE MCAlertMonitor ----------------------------
(* Instances of AlertMonitor for TLC; the time bound of each run is in its    *)
(* configuration.  Runs and keys are interchangeable.                         *)
EXTENDS AlertMonitor, FiniteSets, TLC

CONSTANTS r1, r2, anomaly, drift

OneRun == {r1}
TwoRuns == {r1, r2}
OneKey == {anomaly}
TwoKeys == {anomaly, drift}
TwoLevels == {0, 1}
OneLevel == {1}
ShortAndLong == {1, 2}
Short == {1}

\* Keys that some check has still to judge, or that have alerted.
InPlay ==
  {k \in Keys : last[k] # Never \/ \E r \in Runs : k \in run[r].todo}

\* Two keys are in play at the first moment only, where a check alerts on one
\* of them and fails at the other; a single one is followed for longer.
Bounded == now = 0 \/ Cardinality(InPlay) <= 1

Symmetric == Permutations(Runs) \union Permutations(Keys)
=============================================================================
