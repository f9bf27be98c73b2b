\* Two action keys, four tasks, overlapping holds, two handshakes.
SPECIFICATION Spec
CONSTANTS
  Keys = {k1, k2}
  SyncIds = {r1, r2}
  None = None
  MaxTasks = 4
  MaxHolds = 2
INVARIANTS
  TypeOK
  WorkConserving
  CommandIsActive
  NoTaskLost
  OneContinuousPerKey
PROPERTIES
  DispatchOnlyAtBoundary
  OnlyCleanupOvertakes
CHECK_DEADLOCK FALSE
