CONSTANTS
  SEQ_MOD = 4
  CACHE_WINDOW = 1
  NoBuf = NoBuf
  NoSeq = NoSeq
  Conv = {7}
  Sender = {1, 2}
  Peer <- MCDataPeer
  StreamPeer <- MCDataStream
  Owner <- MCDataOwner
  PubKey = {k1}
  Body = {b1}
  NackSets = {{1, 3}}
  NoOne = NoOne
  NoKey = NoKey
SPECIFICATION Spec
INVARIANTS TypeOK CreatorIsMember MembersReachable CacheInWindow NewestCached
PROPERTIES CacheRetained RosterAnnounced RosterKept
