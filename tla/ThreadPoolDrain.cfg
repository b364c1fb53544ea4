CONSTANTS
  Workers = {w1, w2}
  Callers = {c1, c2}
  Tasks = {t1, t2, t3}
  NoTask = NoTask
SPECIFICATION FairSpec
CHECK_DEADLOCK FALSE
INVARIANTS TypeOK ShutdownDrains NoLostWakeup StartedInOrder
PROPERTIES AcceptedRuns ShutdownEnds
