SPECIFICATION FairSpec
CONSTANTS
  r1 = r1
  NoBuf = NoBuf
  NoSeq = NoSeq
  SEQ_MOD = 11
  CACHE_WINDOW = 2
  DICT_WINDOW = 2
  SLACK = 1
  Receiver = {r1}
  Prior = 0
  MaxTyped = 1
  MaxLosses = 1
  MaxInFlight = 1
  SHARE_RETRIES = 1
PROPERTIES
  NoStall
CHECK_DEADLOCK FALSE
