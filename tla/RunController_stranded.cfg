\* A failed send with another task queued behind it.
SPECIFICATION Spec
CONSTANTS
  Keys = {step, reset, stop}
  StopKey = stop
  ResetKey = reset
  RunKeys = {step}
  OneShotKeys = {step, reset}
  SendOutcomes = {"sent", "invalid"}
  PublicExtras = {}
  SyncIds = {}
  None = None
  MaxTasks = 4
  MaxRuns = 1
  MaxHolds = 0
  Quotas = {0}
INVARIANTS
  NoStrandedCommand
CHECK_DEADLOCK FALSE
