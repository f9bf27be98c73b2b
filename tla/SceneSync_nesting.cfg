\* A restore still being validated when the renderer gives up on it and syncs.
SPECIFICATION Spec
CONSTANTS
  Syncs = {s1, s2}
  ParamChanges = {}
  Actions = {}
  Restores = {r1}
  RestoreIds = {x}
  Captures = {}
  Items = {i}
  Values = {v, w}
  Checkpoints = TRUE
  None = None
  TimedOut = {"state-sync", "scene-restore"}
INVARIANT
  OneOperation
CHECK_DEADLOCK FALSE
