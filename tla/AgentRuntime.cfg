CONSTANTS
  Attempts = {a1, a2}
  MaxRevision = 2
  MaxWrites = 1
  None = None
SPECIFICATION Spec
INVARIANTS SceneIsSaved StoppedIsClean
PROPERTY StopEnds
CHECK_DEADLOCK FALSE
