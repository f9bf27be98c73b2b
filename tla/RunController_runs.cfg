\* Manual and bounded runs in succession with everything the user can do, under
\* a dispatch hold.
SPECIFICATION FairSpec
CONSTANTS
  Keys = {step, reset, stop}
  StopKey = stop
  ResetKey = reset
  RunKeys = {step}
  OneShotKeys = {step, reset}
  SendOutcomes = {"sent"}
  PublicExtras = {}
  SyncIds = {}
  None = None
  MaxTasks = 4
  MaxRuns = 2
  MaxHolds = 1
  Quotas = {0, 2}
INVARIANTS
  TypeOK
  OwnersAreLive
PROPERTIES
  NoTickAfterStop
  HookOnceAndLast
  SettledIsFinal
  StoppedRunSettles
CHECK_DEADLOCK FALSE
