\* A step after a restore that failed and was rolled back.
SPECIFICATION Spec
CONSTANTS
  Syncs = {s1}
  ParamChanges = {}
  Actions = {a1, a2}
  Restores = {r1}
  RestoreIds = {x}
  Captures = {}
  Items = {i}
  Values = {v, w}
  Checkpoints = TRUE
  None = None
  TimedOut = {}
INVARIANT
  NoRejectedMutation
CHECK_DEADLOCK FALSE
