SPECIFICATION Spec
CONSTANTS
  SEQ_MOD = 4
  CACHE_WINDOW = 1
  NoBuf = NoBuf
  NoSeq = NoSeq
  Sender = {1, 2, 3}
  Peer <- MCPeer
  StreamPeer <- MCStream
  Owner <- MCOwner
  PubKey = {k1}
  DataSeqs = {0, 3}
  Thread = {t1, t2}
  MaxPackets = 4
  NoOne = NoOne
  NoKey = NoKey
  Idle = Idle
SYMMETRY Threads
INVARIANTS TypeOK LastWord CacheSound
PROPERTY RosterKept
