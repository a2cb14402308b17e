SPECIFICATION Spec
CONSTANTS
  r1 = r1
  NoBuf = NoBuf
  NoSeq = NoSeq
  SEQ_MOD = 16
  CACHE_WINDOW = 2
  DICT_WINDOW = 2
  SLACK = 1
  Receiver = {r1}
  Prior = 0
  MaxTyped = 3
  MaxLosses = 1
  MaxInFlight = 2
  SHARE_RETRIES = 0
PROPERTIES
  HeldIsNotLost
CHECK_DEADLOCK FALSE
