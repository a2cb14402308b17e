SPECIFICATION Spec
CONSTANTS
  r1 = r1
  NoBuf = NoBuf
  NoSeq = NoSeq
  SEQ_MOD = 16
  CACHE_WINDOW = 2
  DICT_WINDOW = 2
  SLACK = 1
  Receiver = {r1}
  Late = {}
  Prior = 14
  KeyReady = TRUE
  MaxSends = 3
  MaxLosses = 1
  MaxDups = 1
  MaxInFlight = 2
  SHARE_RETRIES = 0
INVARIANTS
  TypeOK
  
  DictionariesMatch
PROPERTIES
  InOrderDelivery
CHECK_DEADLOCK FALSE
