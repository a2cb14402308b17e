CONSTANTS
  SEQ_MOD = 4
  CACHE_WINDOW = 1
  NoBuf = NoBuf
  NoSeq = NoSeq
  Conv = {7}
  Sender = {1, 2, 3}
  Peer <- MCPeer
  StreamPeer <- MCStream
  Owner <- MCOwner
  PubKey = {k1, k2}
  Body = {}
  NackSets = {}
  NoOne = NoOne
  NoKey = NoKey
SPECIFICATION Spec

PROPERTY EvictsOnlyDeparted
