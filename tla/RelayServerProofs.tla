------------------------- MODULE RelayServerProofs --------------------------
(***************************************************************************)
(* Safety of the relay for every set of conversations, members, addresses  *)
(* and sequence numbers.                                                   *)
(***************************************************************************)
EXTENDS RelayServer, RelayCacheProofs

-----------------------------------------------------------------------------
(* The successor of a creator.                                             *)

LEMMA SuccessorFacts ==
  ASSUME TypeOK, NEW c \in Conv, NEW s \in Sender
  PROVE  /\ successor(c, s) \in Sender \union {NoOne}
         /\ creator[c] # s => successor(c, s) = creator[c]
         /\ creator[c] = s /\ MembersOf(c) \ {s} = {} => successor(c, s) = NoOne
         /\ creator[c] = s /\ MembersOf(c) \ {s} # {} => successor(c, s) \in MembersOf(c) \ {s}
  <1> DEFINE left == MembersOf(c) \ {s}
  <1>1. left \in SUBSET Nat
    BY ServerAssumption DEF MembersOf
  <1>2. CASE creator[c] = s /\ left # {}
    <2>1. \E m \in left : \A n \in left : m <= n
      BY <1>1, <1>2, SmallestExists
    <2>2. successor(c, s) = CHOOSE m \in left : \A n \in left : m <= n
      BY <1>2 DEF successor
    <2>3. successor(c, s) \in left
      BY <2>1, <2>2
    <2> QED BY <1>2, <2>3 DEF MembersOf
  <1>3. CASE creator[c] = s /\ left = {}
    BY <1>3 DEF successor
  <1>4. CASE creator[c] # s
    BY <1>4 DEF successor, TypeOK
  <1> QED BY <1>2, <1>3, <1>4

-----------------------------------------------------------------------------
(* Type correctness.                                                       *)

LEMMA IdentifyTypes ==
  ASSUME TypeOK, NEW p \in Peer, NEW c \in Conv, identify(c, p)
  PROVE  /\ groups' \in [Conv -> SUBSET Peer]
         /\ clientMap' \in [Conv -> [Sender -> Peer \union {NoOne}]]
         /\ peerIdentity' \in [Peer -> Sender \union {NoOne}]
  BY ServerAssumption DEF TypeOK, identify, joinGroup

\* The maps of DartGroupServer keep their declared types under every packet
\* and transport event.
THEOREM TypeCorrect == Spec => []TypeOK
  <1>1. Init => TypeOK
    BY DEF Init, TypeOK, NoRoutes, NoMembers, NoCache, NoBaseline, EmptyCache
  <1>2. TypeOK /\ [Next]_vars => TypeOK'
    <2> SUFFICES ASSUME TypeOK, [Next]_vars PROVE TypeOK'
      OBVIOUS
    <2>1. ASSUME NEW p \in Peer, NEW c \in Conv, DataUnknown(p, c) PROVE TypeOK'
      BY <2>1 DEF DataUnknown, joinGroup, TypeOK, roster, cached
    <2>2. ASSUME NEW p \in Peer, NEW c \in Conv, NEW seq \in Seq24, NEW b \in Body,
                 Data(p, c, seq, b)
          PROVE  TypeOK'
      <3> DEFINE s == peerIdentity[p]
                 h == highestSeq[c][s]
      <3>1. s \in Sender
        BY <2>2 DEF Data, TypeOK
      <3>2. messageCache[c][s] \in [Seq24 -> Body \union {NoBuf}] /\ h \in Seq24 \union {NoSeq}
        BY <3>1 DEF TypeOK
      <3>3. HighestPut(h, seq) \in Seq24
        BY <3>2, RefIsHighest
      <3>4. CachePut(messageCache[c][s], h, seq, b) \in [Seq24 -> Body \union {NoBuf}]
        BY <3>2 DEF CachePut
      <3>5. messageCache' = [messageCache EXCEPT ![c][s] = CachePut(messageCache[c][s], h, seq, b)]
        BY <2>2 DEF Data
      <3>6. highestSeq' = [highestSeq EXCEPT ![c][s] = HighestPut(h, seq)]
        BY <2>2 DEF Data
      <3>7. messageCache' \in [Conv -> [Sender -> [Seq24 -> Body \union {NoBuf}]]]
        BY <3>1, <3>4, <3>5 DEF TypeOK
      <3>8. highestSeq' \in [Conv -> [Sender -> Seq24 \union {NoSeq}]]
        BY <3>1, <3>3, <3>6 DEF TypeOK
      <3> QED BY <2>2, <3>7, <3>8 DEF Data, joinGroup, TypeOK, roster
    <2>3. ASSUME NEW p \in Peer, NEW c \in Conv, NEW k \in PubKey, KeyReq(p, c, k)
          PROVE  TypeOK'
      <3>1. CreatorOnKeyReq(c, Owner[p]) \in Sender \union {NoOne}
        BY ServerAssumption DEF CreatorOnKeyReq, TypeOK
      <3> QED BY <2>3, <3>1, IdentifyTypes, ServerAssumption DEF KeyReq, TypeOK, cached
    <2>4. ASSUME NEW p \in Peer, NEW c \in Conv, NEW t \in Sender, NEW type,
                 Targeted(p, c, type, t)
          PROVE  TypeOK'
      BY <2>4, IdentifyTypes DEF Targeted, TypeOK, roster, cached
    <2>5. ASSUME NEW p \in Peer, NEW c \in Conv, NEW t \in Sender, NEW missing \in NackSets,
                 Nack(p, c, t, missing)
          PROVE  TypeOK'
      BY <2>5, IdentifyTypes DEF Nack, TypeOK, roster, cached
    <2>6. ASSUME NEW p \in Peer, NEW c \in Conv, NEW k \in PubKey, NEW type,
                 Verified(p, c, type, k)
          PROVE  TypeOK'
      BY <2>6, IdentifyTypes DEF Verified, TypeOK, roster, cached
    <2>7. ASSUME NEW p \in Peer, Connect(p) PROVE TypeOK'
      BY <2>7, ServerAssumption DEF Connect, TypeOK, routing, roster, cached
    <2>8. ASSUME NEW p \in Peer, removePeer(p) PROVE TypeOK'
      <3> DEFINE s == peerIdentity[p]
                 left == IF s = NoOne THEN {} ELSE LeftConvs(p) \cap rooms
      <3>1. \A c \in left : s \in Sender
        BY DEF TypeOK
      <3>2. \A c \in Conv : c \in left => successor(c, s) \in Sender \union {NoOne}
        BY <3>1, SuccessorFacts
      <3>3. \A c \in Conv : c \in left => Without(c, s) \in [Sender -> PubKey \union {NoKey}]
        BY DEF Without, TypeOK
      <3>4. members' = [c \in Conv |-> IF c \in left THEN Without(c, s) ELSE members[c]]
        BY <2>8 DEF removePeer
      <3>5. creator' = [c \in Conv |-> IF c \in left THEN successor(c, s) ELSE creator[c]]
        BY <2>8 DEF removePeer
      <3>6. /\ open' \subseteq Peer
            /\ rooms' \subseteq Conv
            /\ groups' \in [Conv -> SUBSET Peer]
            /\ UNCHANGED <<clientMap, peerIdentity, messageCache, highestSeq>>
        BY <2>8 DEF removePeer, TypeOK, cached
      <3> HIDE DEF left
      <3> QED BY <3>2, <3>3, <3>4, <3>5, <3>6 DEF TypeOK
    <2>9. CASE Restart
      BY <2>9 DEF Restart, TypeOK, NoRoutes, NoMembers, NoCache, NoBaseline, EmptyCache
    <2>10. CASE UNCHANGED vars
      BY <2>10 DEF TypeOK, vars, routing, roster, cached
    <2> QED BY <2>1, <2>2, <2>3, <2>4, <2>5, <2>6, <2>7, <2>8, <2>9, <2>10 DEF Next, FromPeer
  <1> QED BY <1>1, <1>2, PTL DEF Spec
-----------------------------------------------------------------------------
(* The cache.                                                              *)

CacheInv == TypeOK /\ CacheInWindow /\ NewestCached

\* One data packet, seen from the maps: the entry of its sender is put, every
\* other entry is left alone.
PutsPacket(c, s) ==
  /\ s \in Sender
  /\ highestSeq'[c][s] \in Seq24
  /\ messageCache'[c][s][highestSeq'[c][s]] # NoBuf
  /\ \A k \in Seq24 : messageCache'[c][s][k] # NoBuf =>
                        seqDelta(k, highestSeq'[c][s]) <= CACHE_WINDOW
  /\ \A k \in Seq24 : messageCache[c][s][k] # NoBuf /\ messageCache'[c][s][k] = NoBuf =>
                        seqDelta(k, highestSeq'[c][s]) > CACHE_WINDOW
  /\ \A d \in Conv, t \in Sender : <<d, t>> # <<c, s>> =>
       messageCache'[d][t] = messageCache[d][t] /\ highestSeq'[d][t] = highestSeq[d][t]

LEMMA DataStep ==
  ASSUME CacheInv, NEW p \in Peer, NEW c \in Conv, NEW seq \in Seq24, NEW b \in Body,
         Data(p, c, seq, b)
  PROVE  PutsPacket(c, peerIdentity[p])
  <1> DEFINE s == peerIdentity[p]
             cache == messageCache[c][s]
             h == highestSeq[c][s]
             new == messageCache'[c][s]
             nh == highestSeq'[c][s]
  <1>1. s \in Sender
    BY DEF Data, TypeOK, CacheInv
  <1>2. /\ messageCache' = [messageCache EXCEPT ![c][s] = CachePut(cache, h, seq, b)]
        /\ highestSeq' = [highestSeq EXCEPT ![c][s] = HighestPut(h, seq)]
    BY DEF Data
  <1>3. /\ messageCache \in [Conv -> [Sender -> [Seq24 -> Body \union {NoBuf}]]]
        /\ highestSeq \in [Conv -> [Sender -> Seq24 \union {NoSeq}]]
    BY DEF TypeOK, CacheInv
  <1>4. h # NoSeq => cache[h] # NoBuf
    BY <1>1 DEF CacheInv, NewestCached
  <1>5. new = CachePut(cache, h, seq, b) /\ nh = HighestPut(h, seq)
    BY <1>1, <1>2, <1>3
  <1>6. \A d \in Conv, t \in Sender : <<d, t>> # <<c, s>> =>
          messageCache'[d][t] = messageCache[d][t] /\ highestSeq'[d][t] = highestSeq[d][t]
    BY <1>1, <1>2, <1>3
  <1>7. cache \in [Seq24 -> Body \union {NoBuf}] /\ h \in Seq24 \union {NoSeq}
    BY <1>1, <1>3
  <1>8. /\ nh \in Seq24
        /\ new[nh] # NoBuf
        /\ \A k \in Seq24 : new[k] # NoBuf => seqDelta(k, nh) <= CACHE_WINDOW
        /\ \A k \in Seq24 : cache[k] # NoBuf /\ new[k] = NoBuf =>
                              seqDelta(k, nh) > CACHE_WINDOW
    <2>1. cache \in CacheOf(Body)
      BY <1>7 DEF CacheOf
    <2> HIDE DEF cache, h, new, nh
    <2>2. Slides(cache, new, nh)
      BY <1>4, <1>5, <1>7, <2>1, CachePutFacts, ServerAssumption
    <2> QED BY <2>2 DEF Slides
  <1> HIDE DEF s
  <1>9. PutsPacket(c, s)
    BY <1>1, <1>6, <1>8 DEF PutsPacket
  <1> QED BY <1>9 DEF s

\* Every other step leaves the caches alone or starts the process afresh.
LEMMA CacheSteps ==
  ASSUME [Next]_vars
  PROVE  \/ \E p \in Peer, c \in Conv, seq \in Seq24, b \in Body : Data(p, c, seq, b)
         \/ Restart
         \/ UNCHANGED cached
  <1>1. ASSUME NEW p \in Peer, NEW c \in Conv, FromPeer(p, c)
        PROVE  (\E seq \in Seq24, b \in Body : Data(p, c, seq, b)) \/ UNCHANGED cached
    BY <1>1 DEF FromPeer, DataUnknown, KeyReq, Targeted, Nack, Verified, cached
  <1>2. ASSUME NEW p \in Peer, Connect(p) \/ removePeer(p)
        PROVE  UNCHANGED cached
    BY <1>2 DEF Connect, removePeer, cached
  <1> QED BY <1>1, <1>2 DEF Next, vars, cached

LEMMA CacheInvStep ==
  ASSUME CacheInv, [Next]_vars, TypeOK'
  PROVE  CacheInv'
  <1>1. ASSUME NEW p \in Peer, NEW c \in Conv, NEW seq \in Seq24, NEW b \in Body,
               Data(p, c, seq, b)
        PROVE  CacheInv'
    <2> DEFINE s == peerIdentity[p]
    <2>1. PutsPacket(c, s)
      BY <1>1, DataStep
    <2> HIDE DEF s
    <2>2. highestSeq'[c][s] # NoSeq
      BY <2>1, CacheAssumption DEF PutsPacket, Seq24
    <2> QED BY <2>1, <2>2 DEF PutsPacket, CacheInv, CacheInWindow, NewestCached
  <1>2. CASE Restart
    BY <1>2 DEF Restart, NoCache, NoBaseline, EmptyCache, CacheInv, CacheInWindow, NewestCached
  <1>3. CASE UNCHANGED cached
    BY <1>3 DEF cached, CacheInv, CacheInWindow, NewestCached
  <1> QED BY <1>1, <1>2, <1>3, CacheSteps

LEMMA CacheInvAlways == Spec => []CacheInv
  <1>1. Init => CacheInWindow /\ NewestCached
    BY DEF Init, NoCache, NoBaseline, EmptyCache, CacheInWindow, NewestCached
  <1>2. CacheInv /\ [Next]_vars /\ TypeOK' => CacheInv'
    BY CacheInvStep
  <1> QED BY <1>1, <1>2, TypeCorrect, PTL DEF Spec, CacheInv

\* The packet cache never holds a packet more than CACHE_WINDOW behind the
\* newest one: the collection in the TYPE_DATA branch bounds it under stale,
\* duplicated and wrapped packets.
THEOREM CacheBounded == Spec => []CacheInWindow
  BY CacheInvAlways, PTL DEF CacheInv

\* The newest packet of every sender stays repairable.
THEOREM NewestRepairable == Spec => []NewestCached
  BY CacheInvAlways, PTL DEF CacheInv

\* No packet leaves the cache while it is in the window.
THEOREM CacheKeepsWindow == Spec => CacheRetained
  <1>1. CacheInv /\ [Next]_vars => KeepsCache
    <2> SUFFICES ASSUME CacheInv, [Next]_vars PROVE KeepsCache
      OBVIOUS
    <2>1. ASSUME NEW p \in Peer, NEW c \in Conv, NEW seq \in Seq24, NEW b \in Body,
                 Data(p, c, seq, b)
          PROVE  KeepsCache
      <3> DEFINE s == peerIdentity[p]
      <3>1. PutsPacket(c, s)
        BY <2>1, DataStep
      <3> HIDE DEF s
      <3> QED BY <3>1 DEF PutsPacket, KeepsCache
    <2>2. CASE Restart
      BY <2>2 DEF KeepsCache
    <2>3. CASE UNCHANGED cached
      BY <2>3 DEF cached, KeepsCache
    <2> QED BY <2>1, <2>2, <2>3, CacheSteps
  <1> QED BY <1>1, CacheInvAlways, PTL DEF Spec, CacheRetained
-----------------------------------------------------------------------------
(* The roster.  That every member is reachable is not inductive by itself: *)
(* a close evicts the member peerIdentity names, in the conversations      *)
(* whose group has the address, so the route of a member must also be in   *)
(* the group and be identified with that member, and addresses must never  *)
(* be recorded for anyone but the client that uses them.                   *)

Routed ==
  /\ \A c \in Conv, s \in Sender : clientMap[c][s] # NoOne => Owner[clientMap[c][s]] = s
  /\ \A p \in Peer : peerIdentity[p] \in {NoOne, Owner[p]}
  /\ \A c \in Conv, s \in Sender : members[c][s] # NoKey =>
       /\ clientMap[c][s] \in open
       /\ clientMap[c][s] \in groups[c]
       /\ peerIdentity[clientMap[c][s]] = s

RosterInv == TypeOK /\ CreatorIsMember /\ Routed

\* A control packet moves the route of its sender and nothing else.
LEMMA IdentifyKeepsRoutes ==
  ASSUME TypeOK, Routed, NEW p \in Peer, NEW c \in Conv, p \in open, identify(c, p),
         UNCHANGED open, TypeOK',
         \A d \in Conv, s \in Sender : members'[d][s] # NoKey =>
           members[d][s] # NoKey \/ (d = c /\ s = Owner[p])
  PROVE  Routed'
  <1> USE DEF identify, joinGroup
  <1>1. \A d \in Conv, s \in Sender : <<d, s>> # <<c, Owner[p]>> => clientMap'[d][s] = clientMap[d][s]
    BY ServerAssumption DEF TypeOK
  <1>2. clientMap'[c][Owner[p]] = p /\ peerIdentity'[p] = Owner[p] /\ p \in groups'[c]
    BY ServerAssumption DEF TypeOK
  <1>3. \A q \in Peer : q # p => peerIdentity'[q] = peerIdentity[q]
    BY DEF TypeOK
  <1>4. \A d \in Conv : groups[d] \subseteq groups'[d]
    BY DEF TypeOK
  <1>5. \A d \in Conv, s \in Sender : clientMap'[d][s] # NoOne => Owner[clientMap'[d][s]] = s
    BY <1>1, <1>2 DEF Routed
  <1>6. \A q \in Peer : peerIdentity'[q] \in {NoOne, Owner[q]}
    BY <1>2, <1>3 DEF Routed
  <1>7. ASSUME NEW d \in Conv, NEW s \in Sender, members'[d][s] # NoKey
        PROVE  /\ clientMap'[d][s] \in open'
               /\ clientMap'[d][s] \in groups'[d]
               /\ peerIdentity'[clientMap'[d][s]] = s
    <2>1. CASE d = c /\ s = Owner[p]
      BY <2>1, <1>2
    <2>2. CASE ~(d = c /\ s = Owner[p])
      <3>1. members[d][s] # NoKey /\ clientMap'[d][s] = clientMap[d][s]
        BY <2>2, <1>1, <1>7
      <3>2. clientMap[d][s] \in open /\ clientMap[d][s] \in groups[d] /\ peerIdentity[clientMap[d][s]] = s
        BY <3>1 DEF Routed
      <3>3. clientMap[d][s] \in Peer
        BY <3>2 DEF TypeOK
      <3>4. peerIdentity'[clientMap[d][s]] = s
        BY <3>2, <3>3, <1>2, <1>3, ServerAssumption DEF Routed
      <3> QED BY <3>1, <3>2, <3>4, <1>4
    <2> QED BY <2>1, <2>2
  <1> QED BY <1>5, <1>6, <1>7 DEF Routed

\* The conversations a close evicts the peer's sender from.
Evicts(p, c) == peerIdentity[p] # NoOne /\ p \in groups[c] /\ c \in rooms

\* What a close does to the roster of a conversation it evicts from ...
LEMMA RemovePeerEvicts ==
  ASSUME NEW p \in Peer, removePeer(p), NEW c \in Conv, Evicts(p, c)
  PROVE  /\ members'[c] = [members[c] EXCEPT ![peerIdentity[p]] = NoKey]
         /\ creator'[c] = successor(c, peerIdentity[p])
         /\ c \in rooms' <=> MembersOf(c) \ {peerIdentity[p]} # {}
  <1> HIDE DEF successor, MembersOf
  <1>1. c \in LeftConvs(p) \cap rooms
    BY DEF Evicts, LeftConvs
  <1>2. members'[c] = Without(c, peerIdentity[p]) /\ creator'[c] = successor(c, peerIdentity[p])
    BY <1>1 DEF removePeer, Evicts
  <1>3. c \in rooms' <=> MembersOf(c) \ {peerIdentity[p]} # {}
    BY <1>1 DEF removePeer, Evicts
  <1> QED BY <1>2, <1>3 DEF Without

\* ... and of every other one.
LEMMA RemovePeerSpares ==
  ASSUME NEW p \in Peer, removePeer(p), NEW c \in Conv, ~Evicts(p, c)
  PROVE  members'[c] = members[c] /\ creator'[c] = creator[c] /\ (c \in rooms' <=> c \in rooms)
  <1>1. c \notin (IF peerIdentity[p] = NoOne THEN {} ELSE LeftConvs(p) \cap rooms)
    BY DEF Evicts, LeftConvs
  <1>2. members'[c] = members[c] /\ creator'[c] = creator[c]
    BY <1>1 DEF removePeer
  <1>3. c \in rooms' <=> c \in rooms
    BY <1>1 DEF removePeer
  <1> QED BY <1>2, <1>3

\* A close evicts the member whose route is the closed address.
LEMMA RemovePeerKeepsRoutes ==
  ASSUME RosterInv, NEW p \in Peer, removePeer(p)
  PROVE  Routed'
  <1>1. UNCHANGED <<clientMap, peerIdentity>> /\ open' = open \ {p}
    BY DEF removePeer
  <1>2. \A c \in Conv : groups'[c] = groups[c] \ {p}
    BY DEF removePeer
  <1>3. ASSUME NEW c \in Conv, NEW s \in Sender, members'[c][s] # NoKey
        PROVE  clientMap[c][s] \in open' /\ clientMap[c][s] \in groups'[c]
               /\ peerIdentity[clientMap[c][s]] = s
    <2>1. members[c][s] # NoKey
      <3>1. CASE Evicts(p, c)
        <4>1. members'[c] = [members[c] EXCEPT ![peerIdentity[p]] = NoKey]
          BY <3>1, RemovePeerEvicts
        <4>2. members[c] = [t \in Sender |-> members[c][t]]
          BY DEF RosterInv, TypeOK
        <4> QED BY <1>3, <4>1, <4>2
      <3>2. CASE ~Evicts(p, c)
        BY <1>3, <3>2, RemovePeerSpares
      <3> QED BY <3>1, <3>2
    <2>2. clientMap[c][s] \in open /\ clientMap[c][s] \in groups[c] /\ peerIdentity[clientMap[c][s]] = s
      BY <2>1 DEF RosterInv, Routed
    <2>3. c \in rooms
      BY <2>1 DEF RosterInv, CreatorIsMember, MembersOf
    <2>4. clientMap[c][s] # p
      <3> SUFFICES ASSUME clientMap[c][s] = p PROVE FALSE
        OBVIOUS
      <3>1. peerIdentity[p] = s /\ p \in groups[c] /\ s # NoOne
        BY <2>2, ServerAssumption
      <3>2. members'[c] = [members[c] EXCEPT ![s] = NoKey]
        BY <2>3, <3>1, RemovePeerEvicts DEF Evicts
      <3>3. members[c] = [t \in Sender |-> members[c][t]]
        BY DEF RosterInv, TypeOK
      <3> QED BY <1>3, <3>2, <3>3
    <2> QED BY <1>1, <1>2, <2>2, <2>4
  <1> QED BY <1>1, <1>3 DEF RosterInv, Routed

\* The successor keeps a creator among the members.
LEMMA RemovePeerKeepsCreator ==
  ASSUME RosterInv, NEW p \in Peer, removePeer(p), TypeOK'
  PROVE  CreatorIsMember'
  <1> SUFFICES ASSUME NEW c \in Conv
               PROVE  /\ c \in rooms' <=> MembersOf(c)' # {}
                      /\ c \in rooms' => creator'[c] \in MembersOf(c)'
                      /\ c \notin rooms' => creator'[c] = NoOne
    BY DEF CreatorIsMember
  <1> DEFINE s == peerIdentity[p]
  <1>1. CASE Evicts(p, c)
    <2>1. s \in Sender
      BY <1>1 DEF Evicts, RosterInv, TypeOK
    <2>2. members'[c] = [members[c] EXCEPT ![s] = NoKey]
      BY <1>1, RemovePeerEvicts
    <2>3. members[c] = [t \in Sender |-> members[c][t]]
      BY DEF RosterInv, TypeOK
    <2>4. MembersOf(c)' = MembersOf(c) \ {s}
      BY <2>1, <2>2, <2>3 DEF MembersOf
    <2>5. creator'[c] = successor(c, s) /\ (c \in rooms' <=> MembersOf(c) \ {s} # {})
      BY <1>1, RemovePeerEvicts
    <2>6. creator[c] \in MembersOf(c)
      BY <1>1 DEF Evicts, RosterInv, CreatorIsMember
    <2> HIDE DEF s
    <2>7. /\ MembersOf(c) \ {s} # {} => successor(c, s) \in MembersOf(c) \ {s}
          /\ MembersOf(c) \ {s} = {} => successor(c, s) = NoOne
      BY <2>1, <2>6, SuccessorFacts DEF RosterInv
    <2> QED BY <2>4, <2>5, <2>7
  <1>2. CASE ~Evicts(p, c)
    <2>1. members'[c] = members[c] /\ creator'[c] = creator[c] /\ (c \in rooms' <=> c \in rooms)
      BY <1>2, RemovePeerSpares
    <2>2. MembersOf(c)' = MembersOf(c)
      BY <2>1 DEF MembersOf
    <2> QED BY <2>1, <2>2 DEF RosterInv, CreatorIsMember
  <1> QED BY <1>1, <1>2

LEMMA KeyReqKeepsCreator ==
  ASSUME RosterInv, NEW p \in Peer, NEW c \in Conv, NEW k \in PubKey, KeyReq(p, c, k)
  PROVE  CreatorIsMember'
  <1> DEFINE s == Owner[p]
  <1>1. s \in Sender /\ k # NoKey
    BY ServerAssumption
  <1>2. /\ rooms' = rooms \union {c}
        /\ creator' = [creator EXCEPT ![c] = CreatorOnKeyReq(c, s)]
        /\ members' = [members EXCEPT ![c][s] = k]
    BY DEF KeyReq
  <1>3. MembersOf(c)' = MembersOf(c) \union {s}
    BY <1>1, <1>2 DEF MembersOf, RosterInv, TypeOK
  <1>4. creator'[c] \in MembersOf(c)'
    BY <1>1, <1>2, <1>3 DEF CreatorOnKeyReq, RosterInv, TypeOK, CreatorIsMember
  <1>5. \A d \in Conv : d # c => MembersOf(d)' = MembersOf(d) /\ creator'[d] = creator[d]
    BY <1>2 DEF MembersOf, RosterInv, TypeOK
  <1> QED BY <1>2, <1>3, <1>4, <1>5 DEF RosterInv, CreatorIsMember

LEMMA SameRosterKeepsCreator ==
  ASSUME CreatorIsMember, UNCHANGED roster
  PROVE  CreatorIsMember'
  BY DEF roster, CreatorIsMember, MembersOf

LEMMA RosterInvStep ==
  ASSUME RosterInv, [Next]_vars, TypeOK'
  PROVE  RosterInv'
  <1> SUFFICES CreatorIsMember' /\ Routed'
    BY DEF RosterInv
  <1> USE DEF RosterInv
  <1>1. ASSUME NEW p \in Peer, NEW c \in Conv,
               DataUnknown(p, c) \/ \E seq \in Seq24, b \in Body : Data(p, c, seq, b)
        PROVE  CreatorIsMember' /\ Routed'
    <2>1. UNCHANGED <<open, clientMap, peerIdentity, roster>> /\ joinGroup(c, p)
      BY <1>1 DEF DataUnknown, Data
    <2>2. UNCHANGED <<rooms, members, creator>>
      BY <2>1 DEF roster
    <2>3. \A d \in Conv : groups[d] \subseteq groups'[d]
      BY <2>1 DEF joinGroup, TypeOK
    <2> QED BY <2>1, <2>2, <2>3 DEF CreatorIsMember, MembersOf, Routed
  <1>2. ASSUME NEW p \in Peer, NEW c \in Conv, NEW k \in PubKey, KeyReq(p, c, k)
        PROVE  CreatorIsMember' /\ Routed'
    <2>1. CreatorIsMember'
      BY <1>2, KeyReqKeepsCreator
    <2>2. \A d \in Conv, s \in Sender : members'[d][s] # NoKey =>
            members[d][s] # NoKey \/ (d = c /\ s = Owner[p])
      <3>1. members' = [members EXCEPT ![c][Owner[p]] = k]
        BY <1>2 DEF KeyReq
      <3>2. members \in [Conv -> [Sender -> PubKey \union {NoKey}]]
        BY DEF TypeOK
      <3> QED BY <3>1, <3>2
    <2>3. p \in open /\ identify(c, p) /\ UNCHANGED open
      BY <1>2 DEF KeyReq
    <2> QED BY <2>1, <2>2, <2>3, IdentifyKeepsRoutes
  <1>3. ASSUME NEW p \in Peer, NEW c \in Conv, p \in open, identify(c, p), UNCHANGED <<open, roster>>
        PROVE  CreatorIsMember' /\ Routed'
    <2>1. CreatorIsMember'
      BY <1>3, SameRosterKeepsCreator
    <2>2. UNCHANGED members /\ UNCHANGED open
      BY <1>3 DEF roster
    <2> QED BY <1>3, <2>1, <2>2, IdentifyKeepsRoutes
  <1>4. ASSUME NEW p \in Peer, NEW c \in Conv, NEW t \in Sender, NEW type, Targeted(p, c, type, t)
        PROVE  CreatorIsMember' /\ Routed'
    BY <1>3, <1>4 DEF Targeted
  <1>5. ASSUME NEW p \in Peer, NEW c \in Conv, NEW t \in Sender, NEW missing, Nack(p, c, t, missing)
        PROVE  CreatorIsMember' /\ Routed'
    BY <1>3, <1>5 DEF Nack
  <1>6. ASSUME NEW p \in Peer, NEW c \in Conv, NEW k \in PubKey, NEW type, Verified(p, c, type, k)
        PROVE  CreatorIsMember' /\ Routed'
    BY <1>3, <1>6 DEF Verified
  <1>7. ASSUME NEW p \in Peer, Connect(p)
        PROVE  CreatorIsMember' /\ Routed'
    <2>1. open \subseteq open' /\ UNCHANGED <<routing, roster>>
      BY <1>7 DEF Connect
    <2> QED BY <2>1 DEF routing, roster, Routed, CreatorIsMember, MembersOf
  <1>8. ASSUME NEW p \in Peer, removePeer(p)
        PROVE  CreatorIsMember' /\ Routed'
    BY <1>8, RemovePeerKeepsCreator, RemovePeerKeepsRoutes
  <1>9. CASE Restart
    BY <1>9 DEF Restart, NoRoutes, NoMembers, CreatorIsMember, MembersOf, Routed
  <1>10. CASE UNCHANGED vars
    BY <1>10 DEF vars, routing, roster, Routed, CreatorIsMember, MembersOf
  <1> QED BY <1>1, <1>2, <1>4, <1>5, <1>6, <1>7, <1>8, <1>9, <1>10 DEF Next, FromPeer

LEMMA RosterInvAlways == Spec => []RosterInv
  <1>1. Init => CreatorIsMember /\ Routed
    BY DEF Init, NoRoutes, NoMembers, CreatorIsMember, MembersOf, Routed
  <1>2. RosterInv /\ [Next]_vars /\ TypeOK' => RosterInv'
    BY RosterInvStep
  <1> QED BY <1>1, <1>2, TypeCorrect, PTL DEF Spec, RosterInv

\* A conversation exists exactly while it has members, and one of them is its
\* creator, after any order of KeyReqs, closes and restarts.
THEOREM CreatorAlwaysMember == Spec => []CreatorIsMember
  BY RosterInvAlways, PTL DEF RosterInv

\* Every member of every roster can be written to.
THEOREM MembersStayReachable == Spec => []MembersReachable
  <1>1. RosterInv => MembersReachable
    BY DEF RosterInv, Routed, MembersReachable, MembersOf
  <1> QED BY <1>1, RosterInvAlways, PTL

-----------------------------------------------------------------------------
(* Announcing the roster.                                                  *)

LEMMA NotifyReaches ==
  ASSUME NEW c \in Conv, NEW ms, NEW cr, NEW cm, NEW s \in Sender, ms[s] # NoKey, cm[s] \in open
  PROVE  [to |-> cm[s],
          msg |-> [type |-> "MEMBER_INFO", conv |-> c, creator |-> (cr = s), members |-> ms]]
           \in notifyMembers(c, ms, cr, cm)
  BY DEF notifyMembers, sendToPeer

\* Every step that changes a roster or a creator tells each remaining member.
THEOREM RosterChangesAnnounced == Spec => RosterAnnounced
  <1>1. RosterInv /\ RosterInv' /\ [Next]_vars => [AnnouncesRoster]_vars
    <2> SUFFICES ASSUME RosterInv, RosterInv', [Next]_vars PROVE [AnnouncesRoster]_vars
      OBVIOUS
    <2>1. ASSUME NEW p \in Peer, NEW c \in Conv, NEW k \in PubKey, KeyReq(p, c, k)
          PROVE  AnnouncesRoster
      <3> SUFFICES ASSUME NEW d \in Conv, <<members[d], creator[d]>>' # <<members[d], creator[d]>>,
                          NEW s \in MembersOf(d)'
                   PROVE  [to |-> clientMap'[d][s],
                           msg |-> [type |-> "MEMBER_INFO", conv |-> d, creator |-> (creator'[d] = s),
                                    members |-> members'[d]]] \in out'
        BY DEF AnnouncesRoster
      <3>1. d = c
        BY <2>1 DEF KeyReq, RosterInv, TypeOK
      <3>2. s \in Sender /\ members'[c][s] # NoKey /\ clientMap'[c][s] \in open
        BY <2>1, <3>1 DEF KeyReq, MembersOf, RosterInv, Routed
      <3>3. out' = notifyMembers(c, members'[c], creator'[c], clientMap'[c])
        BY <2>1 DEF KeyReq
      <3> QED BY <3>1, <3>2, <3>3, NotifyReaches
    <2>2. ASSUME NEW p \in Peer, removePeer(p)
          PROVE  AnnouncesRoster
      <3> SUFFICES ASSUME NEW c \in Conv, <<members[c], creator[c]>>' # <<members[c], creator[c]>>,
                          NEW s \in MembersOf(c)'
                   PROVE  [to |-> clientMap'[c][s],
                           msg |-> [type |-> "MEMBER_INFO", conv |-> c, creator |-> (creator'[c] = s),
                                    members |-> members'[c]]] \in out'
        BY DEF AnnouncesRoster
      <3>1. peerIdentity[p] # NoOne /\ p \in groups[c] /\ c \in rooms
        BY <2>2, RemovePeerSpares DEF Evicts
      <3>2. /\ c \in (IF peerIdentity[p] = NoOne THEN {} ELSE LeftConvs(p) \cap rooms)
            /\ c \in rooms'
        BY <3>1 DEF LeftConvs, RosterInv, CreatorIsMember
      <3>3. s \in Sender /\ members'[c][s] # NoKey /\ clientMap[c][s] \in open \ {p}
            /\ clientMap'[c][s] = clientMap[c][s]
        <4>1. s \in Sender /\ members'[c][s] # NoKey
          BY DEF MembersOf
        <4>2. clientMap' = clientMap /\ open' = open \ {p}
          BY <2>2 DEF removePeer
        <4>3. Routed'
          BY DEF RosterInv
        <4>4. clientMap'[c][s] \in open'
          BY <4>1, <4>3 DEF Routed
        <4> QED BY <4>1, <4>2, <4>4
      <3>4. [to |-> clientMap[c][s],
             msg |-> [type |-> "MEMBER_INFO", conv |-> c, creator |-> (creator'[c] = s),
                      members |-> members'[c]]]
              \in notifyMembers(c, members'[c], creator'[c], clientMap[c])
        BY <3>3, NotifyReaches
      <3>5. out' = {o \in UNION {notifyMembers(d, members'[d], creator'[d], clientMap[d])
                                 : d \in (IF peerIdentity[p] = NoOne THEN {} ELSE LeftConvs(p) \cap rooms)
                                         \cap rooms'} : o.to # p}
        BY <2>2 DEF removePeer
      <3> HIDE DEF notifyMembers, LeftConvs
      <3> QED BY <3>2, <3>3, <3>4, <3>5
    <2>3. CASE Restart
      BY <2>3 DEF Restart, AnnouncesRoster, MembersOf, NoMembers
    <2>4. CASE UNCHANGED roster
      BY <2>4 DEF roster, AnnouncesRoster
    <2>5. ASSUME NEW p \in Peer, NEW c \in Conv, FromPeer(p, c)
          PROVE  (\E k \in PubKey : KeyReq(p, c, k)) \/ UNCHANGED roster
      BY <2>5 DEF FromPeer, DataUnknown, Data, Targeted, Nack, Verified
    <2>6. ASSUME NEW p \in Peer, Connect(p)
          PROVE  UNCHANGED roster
      BY <2>6 DEF Connect
    <2> QED BY <2>1, <2>2, <2>3, <2>4, <2>5, <2>6 DEF Next
  <1> QED BY <1>1, RosterInvAlways, PTL DEF Spec, RosterAnnounced

-----------------------------------------------------------------------------
(* The relay implements Roster.                                            *)

\* A recorded creator has a route, so a KeyReq takes creatorship only in a
\* conversation without members.
LEMMA KeyReqJoins ==
  ASSUME RosterInv, NEW p \in Peer, NEW c \in Conv, NEW k \in PubKey, KeyReq(p, c, k)
  PROVE  Promise!Join(c, Owner[p], k)
  <1>1. /\ creator' = [creator EXCEPT ![c] = CreatorOnKeyReq(c, Owner[p])]
        /\ members' = [members EXCEPT ![c][Owner[p]] = k]
        /\ identify(c, p)
    BY DEF KeyReq
  <1>2. CreatorOnKeyReq(c, Owner[p]) = IF MembersOf(c) = {} THEN Owner[p] ELSE creator[c]
    <2>1. CASE MembersOf(c) = {}
      BY <2>1 DEF CreatorOnKeyReq, RosterInv, CreatorIsMember
    <2>2. CASE MembersOf(c) # {}
      <3>1. c \in rooms /\ creator[c] \in Sender /\ members[c][creator[c]] # NoKey
        BY <2>2 DEF RosterInv, CreatorIsMember, MembersOf
      <3>2. clientMap[c][creator[c]] \in Peer
        BY <3>1 DEF RosterInv, Routed, TypeOK
      <3>3. clientMap' = [clientMap EXCEPT ![c][Owner[p]] = p]
        BY <1>1 DEF identify
      <3>4. clientMap'[c][creator[c]] \in Peer
        BY <3>1, <3>2, <3>3 DEF RosterInv, TypeOK
      <3> QED BY <2>2, <3>1, <3>4, ServerAssumption DEF CreatorOnKeyReq
    <2> QED BY <2>1, <2>2
  <1>3. Promise!MembersOf(c) = MembersOf(c)
    BY DEF MembersOf, Promise!MembersOf
  <1>4. creator' = [creator EXCEPT ![c] = IF Promise!MembersOf(c) = {} THEN Owner[p] ELSE @]
    BY <1>1, <1>2, <1>3 DEF RosterInv, TypeOK
  <1> QED BY <1>1, <1>4 DEF Promise!Join

\* A close takes its member off the conversations it was in, or changes nothing.
LEMMA RemovePeerLeaves ==
  ASSUME RosterInv, NEW p \in Peer, removePeer(p)
  PROVE  (\E C \in SUBSET Conv, s \in Sender : Promise!Leave(C, s)) \/ UNCHANGED <<members, creator>>
  <1> DEFINE s == peerIdentity[p]
             C == LeftConvs(p) \cap rooms
  <1>1. CASE s = NoOne
    <2>1. members' = [c \in Conv |-> members[c]] /\ creator' = [c \in Conv |-> creator[c]]
      BY <1>1 DEF removePeer
    <2> QED BY <2>1 DEF RosterInv, TypeOK
  <1>2. CASE s # NoOne
    <2>1. s \in Sender /\ C \in SUBSET Conv
      BY <1>2 DEF RosterInv, TypeOK, LeftConvs
    <2>2. /\ members' = [c \in Conv |-> IF c \in C THEN Without(c, s) ELSE members[c]]
          /\ creator' = [c \in Conv |-> IF c \in C THEN successor(c, s) ELSE creator[c]]
      BY <1>2 DEF removePeer
    <2>3. ASSUME NEW c \in Conv
          PROVE  Promise!Successor(c, s) = successor(c, s)
      BY DEF Promise!Successor, Promise!MembersOf, successor, MembersOf
    <2> HIDE DEF C, s
    <2>4. Promise!Leave(C, s)
      BY <2>2, <2>3 DEF Promise!Leave, Without
    <2> QED BY <2>1, <2>4
  <1> QED BY <1>1, <1>2

\* Every step of the relay is a join, a departure, the end of the process, or
\* leaves membership and creatorship alone: the relay implements Roster.
THEOREM ImplementsRoster == Spec => RosterKept
  <1>1. Init => Promise!Empty
    BY DEF Init, NoMembers, Promise!Empty
  <1>2. RosterInv /\ [Next]_vars => [Promise!Next]_(Promise!vars)
    <2> SUFFICES ASSUME RosterInv, [Next]_vars
                 PROVE  Promise!Next \/ UNCHANGED <<members, creator>>
      BY DEF Promise!vars
    <2>1. ASSUME NEW p \in Peer, NEW c \in Conv, NEW k \in PubKey, KeyReq(p, c, k)
          PROVE  Promise!Next
      <3>1. Owner[p] \in Sender
        BY ServerAssumption
      <3> QED BY <2>1, <3>1, KeyReqJoins DEF Promise!Next
    <2>2. ASSUME NEW p \in Peer, removePeer(p)
          PROVE  Promise!Next \/ UNCHANGED <<members, creator>>
      BY <2>2, RemovePeerLeaves DEF Promise!Next
    <2>3. CASE Restart
      BY <2>3 DEF Restart, NoMembers, Promise!Next, Promise!Empty
    <2>4. CASE UNCHANGED roster
      BY <2>4 DEF roster
    <2>5. ASSUME NEW p \in Peer, NEW c \in Conv, FromPeer(p, c)
          PROVE  (\E k \in PubKey : KeyReq(p, c, k)) \/ UNCHANGED roster
      BY <2>5 DEF FromPeer, DataUnknown, Data, Targeted, Nack, Verified
    <2>6. ASSUME NEW p \in Peer, Connect(p)
          PROVE  UNCHANGED roster
      BY <2>6 DEF Connect
    <2>7. UNCHANGED vars => UNCHANGED roster
      BY DEF vars
    <2>8. \/ \E p \in Peer, c \in Conv, k \in PubKey : KeyReq(p, c, k)
          \/ \E p \in Peer : removePeer(p)
          \/ Restart
          \/ UNCHANGED roster
      BY <2>5, <2>6, <2>7 DEF Next
    <2> QED BY <2>1, <2>2, <2>3, <2>4, <2>8
  <1> QED BY <1>1, <1>2, RosterInvAlways, PTL DEF Spec, RosterKept, Promise!Spec
=============================================================================
