\* Sends that fail validation or reach no transport, also twice in one call, state-sync
\* handshakes, and the public entry points that no host calls.
SPECIFICATION Spec
CONSTANTS
  Keys = {step, reset, stop}
  StopKey = stop
  ResetKey = reset
  RunKeys = {step}
  OneShotKeys = {step, reset}
  SendOutcomes = {"sent", "invalid", "failed"}
  PublicExtras = {"continuous-action", "cancel-continuous"}
  SyncIds = {r1}
  None = None
  MaxTasks = 3
  MaxRuns = 1
  MaxHolds = 0
  Quotas = {0, 1}
INVARIANTS
  RunAccounting
  OverdueIsNoticed
  ResetBracket
CHECK_DEADLOCK FALSE
