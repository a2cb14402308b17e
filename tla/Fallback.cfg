SPECIFICATION Spec
CONSTANTS
  BYTE = 32
  GroupKey = GroupKey
  BadFrame = BadFrame
  RangeError = RangeError
  Nil = Nil
  UpDarts <- MCUpDarts
  DownDarts <- MCDownDarts
  DataSeqs <- MCDataSeqs
  MaxSent = 2
  MaxConns = 2
  Slow = 3
CHECK_DEADLOCK FALSE
INVARIANTS  NothingStuck ChainInStep
