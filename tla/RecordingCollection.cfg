CONSTANTS
  MaxCommits = 4
  MaxFrames = 1
  Before = 2
  After = 1
  Cooldown = 1
  MaxTriggers = 2
  Every = 2
  MaxCount = 2
  MaxBytes = 2
SPECIFICATION Spec
INVARIANTS TypeOK EveryCommitIsKept WindowsAddUp CheckpointsWithinBudget
PROPERTIES ResultsDoNotOverrun HoldIsReleased
CHECK_DEADLOCK FALSE
