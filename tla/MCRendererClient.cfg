CONSTANTS
  Transports = {t1, t2, t3}
  MaxMessages = 2
  None = None
SPECIFICATION Spec
INVARIANTS TypeOK EveryTransportIsOwned NothingLostInTheSwap
PROPERTY LatestOperationWins
SYMMETRY TransportSymmetry
CHECK_DEADLOCK FALSE
