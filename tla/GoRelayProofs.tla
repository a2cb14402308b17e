--------------------------- MODULE GoRelayProofs ----------------------------
(***************************************************************************)
(* The Go relay implements Roster and announces every roster, for every    *)
(* set of members, addresses, keys and goroutines.                         *)
(***************************************************************************)
EXTENDS GoRelay, RelayCacheProofs

-----------------------------------------------------------------------------
(* The inductive invariant.  LastWord speaks of quiet moments; in between, *)
(* a KeyReq that is identified and not yet admitted must be known to come  *)
(* from an address that is open, in the group and identified, or the       *)
(* roster would gain a member that nothing can be sent to.                 *)

CreatorIsMember ==
  /\ MembersOf = {} => creator = NoOne
  /\ MembersOf # {} => creator \in MembersOf

Known(p) == p \in groups /\ peerIdentity[p] = Owner[p] /\ clientMap[Owner[p]] # NoOne

Sound(h) ==
  /\ h.peer \in open
  /\ h.type = "KEY_REQ" => h.arg \in PubKey
  /\ h.type = "DATA" => h.arg \in DataSeqs
  /\ h.at \in {"lookup", "cache"} => h.type = "DATA"
  /\ h.at = "cache" => h.from # NoOne
  /\ h.at = "identify" => h.peer \in groups
  /\ h.at = "admit" => h.type = "KEY_REQ" /\ Known(h.peer)

Threads == \A t \in Thread : thread[t] # Idle => Sound(thread[t])

Routes ==
  /\ Peer \ StreamPeer \subseteq open
  /\ \A p \in Peer : peerIdentity[p] \in {NoOne, Owner[p]}
  /\ \A s \in Sender : clientMap[s] # NoOne => Owner[clientMap[s]] = s
  /\ \A s \in MembersOf : clientMap[s] # NoOne
  /\ \A s \in MembersOf : OneAddress(s) =>
       clientMap[s] \in open \cap groups /\ peerIdentity[clientMap[s]] = s

GoInv == TypeOK /\ CreatorIsMember /\ Threads /\ Routes /\ LastWord

-----------------------------------------------------------------------------
(* Facts shared by the actions.                                            *)

\* The successor is the smallest of the members that remain.
LEMMA SuccessorFacts ==
  ASSUME GoInv, NEW s \in Sender
  PROVE  LET left == MembersOf \ {s}
         IN  /\ Successor(s) \in Sender \union {NoOne}
             /\ left = {} => Successor(s) = NoOne
             /\ left # {} => Successor(s) \in left
  <1> DEFINE left == MembersOf \ {s}
  <1>1. left \in SUBSET Nat /\ left \subseteq Sender
    BY GoAssumption DEF MembersOf
  <1>2. CASE creator # s
    BY <1>2 DEF Successor, GoInv, CreatorIsMember, TypeOK
  <1>3. CASE creator = s /\ left = {}
    BY <1>3 DEF Successor
  <1>4. CASE creator = s /\ left # {}
    <2>1. \E m \in left : \A n \in left : m <= n
      BY <1>1, <1>4, SmallestExists
    <2>2. Successor(s) = CHOOSE m \in left : \A n \in left : m <= n
      BY <1>4 DEF Successor
    <2>3. Successor(s) \in left
      BY <2>1, <2>2
    <2> QED BY <1>1, <1>4, <2>3
  <1> QED BY <1>2, <1>3, <1>4

\* Only a goroutine that is at a notification may let one end unannounced.
LEMMA LastWordKept ==
  ASSUME LastWord, UNCHANGED <<roster, told>>,
         \A u \in Thread : At(u, "notify") => At(u, "notify")'
  PROVE  LastWord'
  BY DEF LastWord, At, MembersOf, OneAddress, Info, roster

-----------------------------------------------------------------------------
(* One lemma per locked part and per event of a connection.                *)

LEMMA ReceiveKeeps ==
  ASSUME GoInv, NEW t \in Thread, NEW p \in Peer, NEW m \in Packet, Receive(t, p, m)
  PROVE  GoInv'
  <1> DEFINE h == [at |-> "joinGroup", peer |-> p, from |-> NoOne, type |-> m.type, arg |-> m.arg]
  <1>1. /\ thread' = [thread EXCEPT ![t] = h]
        /\ thread[t] = Idle /\ p \in open
        /\ packets' = packets + 1
        /\ UNCHANGED <<open, routing, roster, cached, told>>
    BY DEF Receive
  <1>2. /\ m.type \in {"DATA", "KEY_REQ", "CONTROL"}
        /\ m.arg \in DataSeqs \union PubKey \union {NoKey}
        /\ m.type = "KEY_REQ" => m.arg \in PubKey
        /\ m.type = "DATA" => m.arg \in DataSeqs
    BY DEF Packet
  <1>3. h \in Handler
    BY <1>2 DEF Handler
  <1>4. TypeOK'
    BY <1>1, <1>3 DEF GoInv, TypeOK, routing, roster, cached
  <1>5. CreatorIsMember' /\ Routes'
    BY <1>1 DEF GoInv, CreatorIsMember, Routes, MembersOf, OneAddress, routing, roster
  <1>6. Threads'
    BY <1>1, <1>2 DEF GoInv, Threads, Sound, TypeOK, Known, routing
  <1>7. LastWord'
    <2>1. \A u \in Thread : At(u, "notify") => At(u, "notify")'
      BY <1>1 DEF At, GoInv, TypeOK
    <2> QED BY <1>1, <2>1, LastWordKept DEF GoInv
  <1> QED BY <1>4, <1>5, <1>6, <1>7 DEF GoInv

LEMMA JoinGroupKeeps ==
  ASSUME GoInv, NEW t \in Thread, joinGroup(t)
  PROVE  GoInv'
  <1> DEFINE h == [thread[t] EXCEPT !.at = IF thread[t].type = "DATA" THEN "lookup" ELSE "identify"]
  <1>1. /\ thread' = [thread EXCEPT ![t] = h]
        /\ groups' = groups \union {thread[t].peer}
        /\ thread[t] \in Handler /\ thread[t] # Idle /\ thread[t].at = "joinGroup"
        /\ UNCHANGED <<open, clientMap, peerIdentity, roster, cached, told, packets>>
    BY DEF joinGroup, Goto, At, GoInv, TypeOK
  <1>2. h \in Handler
    BY <1>1 DEF Handler
  <1>3. TypeOK'
    BY <1>1, <1>2 DEF GoInv, TypeOK, roster, cached, Handler
  <1>4. CreatorIsMember' /\ Routes'
    BY <1>1 DEF GoInv, CreatorIsMember, Routes, MembersOf, OneAddress, roster
  <1>5. Threads'
    BY <1>1 DEF GoInv, Threads, Sound, TypeOK, Known, Handler
  <1>6. LastWord'
    <2>1. \A u \in Thread : At(u, "notify") => At(u, "notify")'
      BY <1>1 DEF At, GoInv, TypeOK
    <2> QED BY <1>1, <2>1, LastWordKept DEF GoInv
  <1> QED BY <1>3, <1>4, <1>5, <1>6 DEF GoInv

LEMMA IdentifyKeeps ==
  ASSUME GoInv, NEW t \in Thread, identify(t)
  PROVE  GoInv'
  <1> DEFINE p == thread[t].peer
             h == IF thread[t].type = "KEY_REQ" THEN [thread[t] EXCEPT !.at = "admit"] ELSE Idle
  <1>1. /\ thread' = [thread EXCEPT ![t] = h]
        /\ peerIdentity' = [peerIdentity EXCEPT ![p] = Owner[p]]
        /\ clientMap' = [clientMap EXCEPT ![Owner[p]] = p]
        /\ thread[t] \in Handler /\ thread[t] # Idle /\ thread[t].at = "identify"
        /\ UNCHANGED <<open, groups, roster, cached, told, packets>>
    BY DEF identify, Goto, Return, At, GoInv, TypeOK
  <1>2. p \in Peer /\ Owner[p] \in Sender /\ p \in open /\ p \in groups /\ p # NoOne
    BY <1>1, GoAssumption DEF Handler, GoInv, Threads, Sound
  <1>3. h \in Handler \union {Idle}
    BY <1>1 DEF Handler
  <1> HIDE DEF p
  <1>4. TypeOK'
    BY <1>1, <1>2, <1>3 DEF GoInv, TypeOK, roster, cached
  <1>5. CreatorIsMember'
    BY <1>1 DEF GoInv, CreatorIsMember, MembersOf, roster
  <1>6. Routes'
    BY <1>1, <1>2, GoAssumption DEF GoInv, Routes, TypeOK, MembersOf, OneAddress, roster
  <1>7. Threads'
    <2> SUFFICES ASSUME NEW u \in Thread, thread'[u] # Idle
                 PROVE  Sound(thread[u])'
      BY DEF Threads
    <2>1. ASSUME NEW q \in Peer, Known(q)
          PROVE  Known(q)'
      BY <1>1, <1>2, <2>1, GoAssumption DEF Known, GoInv, TypeOK
    <2>2. p \in groups' /\ peerIdentity'[p] = Owner[p] /\ clientMap'[Owner[p]] # NoOne
      BY <1>1, <1>2, GoAssumption DEF Known, GoInv, TypeOK
    <2>3. CASE u # t
      <3>1. thread'[u] = thread[u] /\ thread[u] \in Handler
        BY <1>1, <2>3 DEF GoInv, TypeOK
      <3>2. Sound(thread[u]) /\ thread[u].peer \in Peer
        BY <3>1 DEF GoInv, Threads, Handler
      <3>3. PICK q \in Peer : q = thread[u].peer
        BY <3>2
      <3>4. thread[u].at = "admit" => Known(q)'
        BY <2>1, <3>2, <3>3 DEF Sound
      <3>5. UNCHANGED <<open, groups>>
        BY <1>1
      <3> QED BY <3>1, <3>2, <3>3, <3>4, <3>5 DEF Sound, Known
    <2>4. CASE u = t
      <3>1. thread'[u] = [thread[t] EXCEPT !.at = "admit"] /\ thread[t].type = "KEY_REQ"
        BY <1>1, <2>4 DEF GoInv, TypeOK
      <3> QED BY <1>1, <1>2, <2>2, <3>1 DEF GoInv, Threads, Sound, Known, Handler, p
    <2> QED BY <2>3, <2>4
  <1>8. LastWord'
    <2>1. \A u \in Thread : At(u, "notify") => At(u, "notify")'
      BY <1>1 DEF At, GoInv, TypeOK
    <2> QED BY <1>1, <2>1, LastWordKept DEF GoInv
  <1> QED BY <1>4, <1>5, <1>6, <1>7, <1>8 DEF GoInv

LEMMA LookupKeeps ==
  ASSUME GoInv, NEW t \in Thread, lookup(t)
  PROVE  GoInv'
  <1> DEFINE s == peerIdentity[thread[t].peer]
             h == IF s = NoOne THEN Idle ELSE [thread[t] EXCEPT !.at = "cache", !.from = s]
  <1>1. /\ thread' = [thread EXCEPT ![t] = h]
        /\ thread[t] \in Handler /\ thread[t] # Idle /\ thread[t].at = "lookup"
        /\ UNCHANGED <<open, routing, roster, cached, told, packets>>
    BY DEF lookup, Return, At, GoInv, TypeOK
  <1>2. h \in Handler \union {Idle}
    BY <1>1 DEF Handler, GoInv, TypeOK
  <1>3. TypeOK'
    BY <1>1, <1>2 DEF GoInv, TypeOK, routing, roster, cached
  <1>4. CreatorIsMember' /\ Routes'
    BY <1>1 DEF GoInv, CreatorIsMember, Routes, MembersOf, OneAddress, routing, roster
  <1>5. Threads'
    BY <1>1 DEF GoInv, Threads, Sound, TypeOK, Known, Handler, routing
  <1>6. LastWord'
    <2>1. \A u \in Thread : At(u, "notify") => At(u, "notify")'
      BY <1>1 DEF At, GoInv, TypeOK
    <2> QED BY <1>1, <2>1, LastWordKept DEF GoInv
  <1> QED BY <1>3, <1>4, <1>5, <1>6 DEF GoInv

LEMMA CacheKeeps ==
  ASSUME GoInv, NEW t \in Thread, cache(t)
  PROVE  GoInv'
  <1> DEFINE s == thread[t].from
             seq == thread[t].arg
  <1>1. /\ thread' = [thread EXCEPT ![t] = Idle]
        /\ messageCache' = [messageCache EXCEPT ![s] = CachePut(@, highestSeq[s], seq, seq)]
        /\ highestSeq' = [highestSeq EXCEPT ![s] = HighestPut(@, seq)]
        /\ thread[t] \in Handler /\ thread[t] # Idle /\ thread[t].at = "cache"
        /\ UNCHANGED <<open, routing, roster, told, packets>>
    BY DEF cache, Return, At, GoInv, TypeOK
  <1>2. s \in Sender /\ seq \in DataSeqs
    BY <1>1 DEF GoInv, Threads, Sound, Handler
  <1> HIDE DEF s, seq
  <1>3. CachePut(messageCache[s], highestSeq[s], seq, seq) \in [Seq24 -> DataSeqs \union {NoBuf}]
    BY <1>2, GoAssumption DEF CachePut, GoInv, TypeOK
  <1>4. HighestPut(highestSeq[s], seq) \in DataSeqs \union {NoSeq}
    BY <1>2 DEF HighestPut, GoInv, TypeOK
  <1>5. TypeOK'
    BY <1>1, <1>2, <1>3, <1>4 DEF GoInv, TypeOK, routing, roster
  <1>6. CreatorIsMember' /\ Routes'
    BY <1>1 DEF GoInv, CreatorIsMember, Routes, MembersOf, OneAddress, routing, roster
  <1>7. Threads'
    BY <1>1 DEF GoInv, Threads, Sound, TypeOK, Known, routing
  <1>8. LastWord'
    <2>1. \A u \in Thread : At(u, "notify") => At(u, "notify")'
      BY <1>1 DEF At, GoInv, TypeOK
    <2> QED BY <1>1, <2>1, LastWordKept DEF GoInv
  <1> QED BY <1>5, <1>6, <1>7, <1>8 DEF GoInv

\* An admission: the KeyReq's address is identified, so if it is the member's
\* only one the route to the member is that address.
LEMMA AdmitKeeps ==
  ASSUME GoInv, NEW t \in Thread, admit(t)
  PROVE  GoInv'
  <1> DEFINE p == thread[t].peer
             s == Owner[p]
             k == thread[t].arg
  <1>1. /\ thread' = [thread EXCEPT ![t] = [thread[t] EXCEPT !.at = "notify"]]
        /\ creator' = CreatorOnKeyReq(s)
        /\ members' = [members EXCEPT ![s] = k]
        /\ thread[t] \in Handler /\ thread[t] # Idle /\ thread[t].at = "admit"
        /\ UNCHANGED <<open, routing, cached, told, packets>>
    BY DEF admit, Goto, At, GoInv, TypeOK
  <1>2. p \in Peer /\ p \in open /\ Known(p) /\ s \in Sender /\ k \in PubKey /\ k # NoKey
    BY <1>1, GoAssumption DEF GoInv, Threads, Sound, Handler
  <1>3. [thread[t] EXCEPT !.at = "notify"] \in Handler
    BY <1>1 DEF Handler
  <1> HIDE DEF p, k
  <1>4. MembersOf' = MembersOf \union {s}
    BY <1>1, <1>2 DEF MembersOf, GoInv, TypeOK
  <1>5. CreatorOnKeyReq(s) = IF MembersOf = {} THEN s ELSE creator
    BY <1>2, GoAssumption DEF CreatorOnKeyReq, GoInv, CreatorIsMember, Routes, MembersOf
  <1>6. TypeOK'
    BY <1>1, <1>2, <1>3, <1>5 DEF GoInv, TypeOK, routing, cached
  <1>7. CreatorIsMember'
    BY <1>1, <1>2, <1>4, <1>5 DEF GoInv, CreatorIsMember
  <1>8. Routes'
    <2>1. clientMap[s] \in Peer /\ Owner[clientMap[s]] = s
      BY <1>2 DEF Known, GoInv, Routes, TypeOK
    <2>2. OneAddress(s) => clientMap[s] = p
      BY <1>2, <2>1 DEF OneAddress
    <2>3. /\ clientMap[s] # NoOne
          /\ OneAddress(s) => clientMap[s] \in open \cap groups /\ peerIdentity[clientMap[s]] = s
      BY <1>2, <2>2 DEF Known
    <2> HIDE DEF s
    <2> QED BY <1>1, <1>4, <2>3 DEF GoInv, Routes, OneAddress, routing
  <1>9. Threads'
    BY <1>1 DEF GoInv, Threads, Sound, TypeOK, Known, Handler, routing
  <1>10. LastWord'
    <2>1. thread'[t] \in Handler /\ thread'[t].at = "notify"
      BY <1>1, <1>3 DEF GoInv, TypeOK, Handler
    <2>2. thread'[t] # Idle
      BY <2>1, IdleAssumption
    <2> QED BY <2>1, <2>2 DEF LastWord, At
  <1> QED BY <1>6, <1>7, <1>8, <1>9, <1>10 DEF GoInv

LEMMA NotifyKeeps ==
  ASSUME GoInv, NEW t \in Thread, notify(t)
  PROVE  GoInv'
  <1>1. /\ thread' = [thread EXCEPT ![t] = Idle]
        /\ told' = [s \in Sender |-> IF members[s] # NoKey /\ clientMap[s] \in open
                                     THEN Info(s, members, creator) ELSE told[s]]
        /\ UNCHANGED <<open, routing, roster, cached, packets>>
    BY DEF notify, notifyMembersLocked, Return
  <1>2. TypeOK'
    BY <1>1 DEF GoInv, TypeOK, Info, routing, roster, cached
  <1>3. CreatorIsMember' /\ Routes'
    BY <1>1 DEF GoInv, CreatorIsMember, Routes, MembersOf, OneAddress, routing, roster
  <1>4. Threads'
    BY <1>1 DEF GoInv, Threads, Sound, TypeOK, Known, routing
  <1>5. LastWord'
    BY <1>1 DEF GoInv, Routes, LastWord, MembersOf, OneAddress, Info, roster
  <1> QED BY <1>2, <1>3, <1>4, <1>5 DEF GoInv

LEMMA ConnectKeeps ==
  ASSUME GoInv, NEW p \in Peer, Connect(p)
  PROVE  GoInv'
  <1>1. open' = open \union {p} /\ UNCHANGED <<routing, roster, cached, thread, told, packets>>
    BY DEF Connect
  <1>2. TypeOK'
    BY <1>1 DEF GoInv, TypeOK, routing, roster, cached
  <1>3. CreatorIsMember' /\ Routes'
    BY <1>1 DEF GoInv, CreatorIsMember, Routes, MembersOf, OneAddress, routing, roster
  <1>4. Threads'
    BY <1>1 DEF GoInv, Threads, Sound, Known, routing
  <1>5. LastWord'
    BY <1>1 DEF GoInv, LastWord, At, MembersOf, OneAddress, Info, roster
  <1> QED BY <1>2, <1>3, <1>4, <1>5 DEF GoInv

\* A close: no goroutine is at work for the connection, and if it was the
\* only address of a member, its identity names the member to evict.
LEMMA RemovePeerKeeps ==
  ASSUME GoInv, NEW p \in Peer, removePeer(p)
  PROVE  GoInv'
  <1> DEFINE s == peerIdentity[p]
             evicts == p \in groups /\ s # NoOne
  <1>1. /\ p \in StreamPeer
        /\ \A t \in Thread : thread[t] # Idle => thread[t].peer # p
        /\ open' = open \ {p} /\ groups' = groups \ {p}
        /\ members' = IF evicts THEN [members EXCEPT ![s] = NoKey] ELSE members
        /\ creator' = IF evicts THEN Successor(s) ELSE creator
        /\ told' = IF p \in groups
                   THEN [m \in Sender |-> IF members'[m] # NoKey /\ clientMap[m] \in open'
                                          THEN Info(m, members', creator') ELSE told[m]]
                   ELSE told
        /\ UNCHANGED <<clientMap, peerIdentity, cached, thread, packets>>
    BY DEF removePeer, notifyMembersLocked, Busy
  <1>2. s # NoOne => s \in Sender
    BY DEF GoInv, TypeOK
  <1> HIDE DEF s
  <1>3. MembersOf' = IF evicts THEN MembersOf \ {s} ELSE MembersOf
    BY <1>1, <1>2 DEF MembersOf, GoInv, TypeOK
  <1>4. members' \in [Sender -> PubKey \union {NoKey}] /\ creator' \in Sender \union {NoOne}
    BY <1>1, <1>2, SuccessorFacts DEF GoInv, TypeOK
  <1>5. TypeOK'
    BY <1>1, <1>4 DEF GoInv, TypeOK, Info, cached
  <1>6. CreatorIsMember'
    <2>1. CASE evicts
      BY <1>1, <1>2, <1>3, <2>1, SuccessorFacts DEF CreatorIsMember
    <2>2. CASE ~evicts
      BY <1>1, <1>3, <2>2 DEF GoInv, CreatorIsMember
    <2> QED BY <2>1, <2>2
  <1>7. Routes'
    <2>1. ASSUME NEW m \in MembersOf', OneAddress(m)
          PROVE  clientMap[m] \in open' \cap groups' /\ peerIdentity[clientMap[m]] = m
      <3>1. m \in MembersOf /\ m \in Sender
        BY <1>3, <2>1 DEF MembersOf
      <3>2. clientMap[m] \in open \cap groups /\ peerIdentity[clientMap[m]] = m
        BY <2>1, <3>1 DEF GoInv, Routes
      <3>3. clientMap[m] # p
        BY <1>3, <2>1, <3>1, <3>2, GoAssumption DEF s
      <3> QED BY <1>1, <3>2, <3>3
    <2>2. \A m \in MembersOf' : m \in MembersOf
      BY <1>3
    <2> QED BY <1>1, <2>1, <2>2 DEF GoInv, Routes, OneAddress
  <1>8. Threads'
    BY <1>1 DEF GoInv, Threads, Sound, Known, TypeOK
  <1>9. LastWord'
    <2>1. CASE p \in groups
      BY <1>1, <1>7, <2>1 DEF LastWord, Routes, MembersOf, OneAddress, Info
    <2>2. CASE p \notin groups
      BY <1>1, <2>2 DEF GoInv, LastWord, At, MembersOf, OneAddress, Info
    <2> QED BY <2>1, <2>2
  <1> QED BY <1>5, <1>6, <1>7, <1>8, <1>9 DEF GoInv

-----------------------------------------------------------------------------
(* The theorems.                                                           *)

\* GoInv holds of every reachable state, for every number of goroutines.
THEOREM GoInvAlways == Spec => []GoInv
  <1>1. Init => GoInv
    BY GoAssumption DEF Init, GoInv, TypeOK, CreatorIsMember, Threads, Routes, LastWord,
       MembersOf, EmptyCache
  <1>2. GoInv /\ [Next]_vars => GoInv'
    <2> SUFFICES ASSUME GoInv, [Next]_vars
                 PROVE  GoInv'
      OBVIOUS
    <2>1. CASE UNCHANGED vars
      <3> USE <2>1 DEF vars, routing, roster, cached, GoInv
      <3>1. TypeOK'
        BY DEF TypeOK
      <3>2. CreatorIsMember' /\ Routes'
        BY DEF CreatorIsMember, Routes, MembersOf, OneAddress
      <3>3. Threads'
        BY DEF Threads, Sound, Known
      <3>4. LastWord'
        BY DEF LastWord, At, MembersOf, OneAddress, Info
      <3> QED BY <3>1, <3>2, <3>3, <3>4
    <2>2. ASSUME NEW t \in Thread, Handle(t)
          PROVE  GoInv'
      BY <2>2, JoinGroupKeeps, IdentifyKeeps, LookupKeeps, CacheKeeps, AdmitKeeps, NotifyKeeps
         DEF Handle
    <2> QED BY <2>1, <2>2, ReceiveKeeps, ConnectKeeps, RemovePeerKeeps DEF Next
  <1> QED BY <1>1, <1>2, PTL DEF Spec

\* The maps of the server keep their types.
THEOREM TypeCorrect == Spec => []TypeOK
  BY GoInvAlways, PTL DEF GoInv

\* Whenever no announcement is outstanding, every member with one address was
\* last sent the roster and the creator of now (notifyMembersLocked).
THEOREM LastWordAlways == Spec => []LastWord
  BY GoInvAlways, PTL DEF GoInv

\* The cache of a sender holds its newest packet and nothing from outside the
\* window, in whatever order goroutines handle the sender's packets.
THEOREM CacheStaysSound == Spec => []CacheSound
  <1>1. Init => CacheSound
    BY DEF Init, CacheSound, EmptyCache
  <1>2. GoInv /\ CacheSound /\ [Next]_vars => CacheSound'
    <2> SUFFICES ASSUME GoInv, CacheSound, [Next]_vars
                 PROVE  CacheSound'
      OBVIOUS
    <2>1. ASSUME NEW t \in Thread, cache(t)
          PROVE  CacheSound'
      <3> DEFINE s == thread[t].from
                 seq == thread[t].arg
                 new == CachePut(messageCache[s], highestSeq[s], seq, seq)
                 top == HighestPut(highestSeq[s], seq)
      <3>1. thread[t] \in Handler /\ Sound(thread[t]) /\ thread[t].at = "cache"
        BY <2>1 DEF cache, At, GoInv, TypeOK, Threads
      <3>2. s \in Sender /\ seq \in DataSeqs /\ seq \in Seq24
        BY <3>1, GoAssumption DEF Sound, Handler
      <3>3. /\ messageCache' = [messageCache EXCEPT ![s] = new]
            /\ highestSeq' = [highestSeq EXCEPT ![s] = top]
        BY <2>1 DEF cache
      <3> HIDE DEF s, seq
      <3>4. /\ messageCache[s] \in [Seq24 -> DataSeqs \union {NoBuf}]
            /\ highestSeq[s] \in Seq24 \union {NoSeq}
            /\ highestSeq[s] # NoSeq => messageCache[s][highestSeq[s]] # NoBuf
        BY <3>2, GoAssumption DEF GoInv, TypeOK, CacheSound
      <3>5. /\ top \in Seq24
            /\ new[top] # NoBuf
            /\ \A k \in Seq24 : new[k] # NoBuf => seqDelta(k, top) <= CACHE_WINDOW
        <4>1. messageCache[s] \in CacheOf(DataSeqs)
          BY <3>4 DEF CacheOf
        <4>2. Slides(messageCache[s], new, top)
          BY <3>2, <3>4, <4>1, CachePutFacts, GoAssumption
        <4> QED BY <4>2 DEF Slides
      <3>6. top # NoSeq
        BY <3>5, CacheAssumption DEF Seq24
      <3> HIDE DEF new, top
      <3> QED BY <3>2, <3>3, <3>5, <3>6 DEF CacheSound, GoInv, TypeOK
    <2>2. ASSUME NEW t \in Thread, Handle(t)
          PROVE  cache(t) \/ UNCHANGED cached
      BY <2>2 DEF Handle, joinGroup, identify, lookup, admit, notify
    <2>3. \A t \in Thread, p \in Peer, m \in Packet : Receive(t, p, m) => UNCHANGED cached
      BY DEF Receive
    <2>4. \A p \in Peer : Connect(p) \/ removePeer(p) => UNCHANGED cached
      BY DEF Connect, removePeer
    <2>5. (\E t \in Thread : cache(t)) \/ UNCHANGED cached
      BY <2>2, <2>3, <2>4 DEF Next, vars
    <2> QED BY <2>1, <2>5 DEF cached, CacheSound
  <1> QED BY <1>1, <1>2, GoInvAlways, PTL DEF Spec

\* Every locked part is a join, a departure, or leaves membership and
\* creatorship alone: the goroutines together implement Roster.
THEOREM GoImplementsRoster == Spec => RosterKept
  <1>1. Init => Promise!Empty
    BY DEF Init, Promise!Empty
  <1>2. GoInv /\ [Next]_vars => [Promise!Next]_(Promise!vars)
    <2> SUFFICES ASSUME GoInv, [Next]_vars
                 PROVE  Promise!Next \/ UNCHANGED <<members, creator>>
      BY DEF Promise!vars
    <2>1. Promise!MembersOf("room") = MembersOf
      BY DEF Promise!MembersOf, MembersOf
    <2>2. ASSUME NEW t \in Thread, admit(t)
          PROVE  Promise!Next
      <3> DEFINE s == Owner[thread[t].peer]
                 k == thread[t].arg
      <3>1. thread[t] \in Handler /\ Sound(thread[t]) /\ thread[t].at = "admit"
        BY <2>2 DEF admit, At, GoInv, TypeOK, Threads
      <3>2. s \in Sender /\ k \in PubKey /\ clientMap[s] # NoOne
        BY <3>1, GoAssumption DEF Sound, Known, Handler
      <3>3. CreatorOnKeyReq(s) = IF MembersOf = {} THEN s ELSE creator
        BY <3>2, GoAssumption DEF CreatorOnKeyReq, GoInv, CreatorIsMember, Routes, MembersOf
      <3>4. members' = [members EXCEPT ![s] = k] /\ creator' = CreatorOnKeyReq(s)
        BY <2>2 DEF admit
      <3> HIDE DEF s, k
      <3>5. Promise!Join("room", s, k)
        BY <2>1, <3>3, <3>4 DEF Promise!Join
      <3> QED BY <3>2, <3>5 DEF Promise!Next
    <2>3. ASSUME NEW p \in Peer, removePeer(p)
          PROVE  Promise!Next \/ UNCHANGED <<members, creator>>
      <3> DEFINE s == peerIdentity[p]
      <3>1. CASE p \in groups /\ s # NoOne
        <4>1. s \in Sender
          BY <3>1 DEF GoInv, TypeOK
        <4>2. members' = [members EXCEPT ![s] = NoKey] /\ creator' = Successor(s)
          BY <2>3, <3>1 DEF removePeer
        <4> HIDE DEF s
        <4>3. Promise!Successor("room", s) = Successor(s)
          BY <2>1 DEF Promise!Successor, Successor
        <4>4. Promise!Leave({"room"}, s)
          BY <4>2, <4>3 DEF Promise!Leave
        <4> QED BY <4>1, <4>4 DEF Promise!Next
      <3>2. CASE ~(p \in groups /\ s # NoOne)
        BY <2>3, <3>2 DEF removePeer
      <3> QED BY <3>1, <3>2
    <2>4. ASSUME NEW t \in Thread, Handle(t)
          PROVE  admit(t) \/ UNCHANGED roster
      BY <2>4 DEF Handle, joinGroup, identify, lookup, cache, notify
    <2>5. \A t \in Thread, p \in Peer, m \in Packet : Receive(t, p, m) => UNCHANGED roster
      BY DEF Receive
    <2>6. \A p \in Peer : Connect(p) => UNCHANGED roster
      BY DEF Connect
    <2>7. \/ \E t \in Thread : admit(t)
          \/ \E p \in Peer : removePeer(p)
          \/ UNCHANGED roster
      BY <2>4, <2>5, <2>6 DEF Next, vars
    <2> QED BY <2>2, <2>3, <2>7 DEF roster
  <1> QED BY <1>1, <1>2, GoInvAlways, PTL DEF Spec, RosterKept, Promise!Spec
=============================================================================
