\* A pause during the render barrier.
SPECIFICATION FairSpec
CONSTANTS
  Keys = {step, reset, stop}
  StopKey = stop
  ResetKey = reset
  RunKeys = {step}
  OneShotKeys = {step, reset}
  SendOutcomes = {"sent"}
  PublicExtras = {}
  SyncIds = {}
  None = None
  MaxTasks = 3
  MaxRuns = 1
  MaxHolds = 0
  Quotas = {0}
PROPERTIES
  PauseTakesEffect
CHECK_DEADLOCK FALSE
