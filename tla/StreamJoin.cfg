SPECIFICATION Spec
CONSTANTS
  r1 = r1
  r2 = r2
  NoBuf = NoBuf
  NoSeq = NoSeq
  SEQ_MOD = 16
  CACHE_WINDOW = 2
  DICT_WINDOW = 1
  SLACK = 1
  Receiver = {r1, r2}
  Late = {}
  Prior = 0
  KeyReady = FALSE
  MaxSends = 2
  MaxLosses = 1
  MaxDups = 0
  MaxInFlight = 1
  SHARE_RETRIES = 1
SYMMETRY ReceiverSymmetry
PROPERTIES
  InOrderDelivery
CHECK_DEADLOCK FALSE
