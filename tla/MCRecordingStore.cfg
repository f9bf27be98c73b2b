CONSTANTS
  Readers = {r1}
  Contents = {a, b}
  MaxFrame = 3
  MaxFrames = 1
  MaxPending = 2
  PruneEvery = 2
  None = None
SPECIFICATION Spec
INVARIANTS TypeOK PromisedIsReadable WriterIsAlone InterruptedIsTrue
PROPERTIES CompleteLostNothing ImplementsRecording
SYMMETRY ContentSymmetry
CHECK_DEADLOCK FALSE
