SPECIFICATION Spec
CONSTANTS
  r1 = r1
  r2 = r2
  NoBuf = NoBuf
  NoSeq = NoSeq
  SEQ_MOD = 11
  CACHE_WINDOW = 2
  DICT_WINDOW = 1
  SLACK = 0
  Receiver = {r1, r2}
  Prior = 9
  MaxTyped = 2
  MaxLosses = 2
  MaxInFlight = 1
  SHARE_RETRIES = 0
SYMMETRY ReceiverSymmetry
INVARIANTS
  TypeOK
  BufferAhead
  ProbesStopWhenHeard
PROPERTIES
  ForwardOnly
CHECK_DEADLOCK FALSE
