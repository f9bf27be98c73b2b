\* One connection: two syncs, two actions, a restore sent twice under one id, a
\* capture and a parameter change, in any order the renderer's guards allow. The
\* timer of a capture, which multiplies the states by five, is left to the proofs.
SPECIFICATION Spec
CONSTANTS
  Syncs = {s1, s2}
  ParamChanges = {p1}
  Actions = {a1, a2}
  Restores = {r1, r2}
  RestoreIds = {x}
  Captures = {c1}
  Items = {i}
  Values = {v}
  Checkpoints = TRUE
  None = None
  TimedOut = {"state-sync", "scene-restore"}
INVARIANTS
  TypeOK
  BaselineIsCommitted
  OneOperationUnlessOvertaken
  RestoreAppliedOnce
  
SYMMETRY RequestSymmetry
CONSTRAINT NotOvertaken
CHECK_DEADLOCK FALSE
