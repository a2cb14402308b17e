------------------------------ MODULE GoRelay -------------------------------
(***************************************************************************)
(* The Go relay (type DartGroupServer of go/server/main.go).  It runs one  *)
(* goroutine per UDP datagram and one per stream connection, and a handler *)
(* takes the mutex anew for each of its parts: an action is one locked     *)
(* part, and the parts of different handlers interleave.                   *)
(*                                                                         *)
(* One conversation, a peer is its address.  The handlers of SHARE, ACK,   *)
(* NACK, SYNC and Dict-Reset packets only read the maps once they have     *)
(* joined and identified the peer, and send: a CONTROL packet.  A packet   *)
(* the rate limit drops is one that does not arrive.                       *)
(***************************************************************************)
EXTENDS RelayCache, FiniteSets

CONSTANTS Sender,       \* member ids, numbers
          Peer,         \* transport addresses
          StreamPeer,   \* the TCP and WebSocket ones
          Owner,        \* Peer -> Sender: the client that uses an address
          PubKey,
          DataSeqs,     \* sequence numbers of the data packets
          Thread,       \* goroutines that run handleMessage
          MaxPackets,   \* bound: packets the relay receives
          NoOne, NoKey,
          Idle          \* a goroutine that handles nothing

ASSUME GoAssumption ==
  /\ Sender \subseteq Nat
  /\ StreamPeer \subseteq Peer
  /\ Owner \in [Peer -> Sender]
  /\ NoOne \notin Sender /\ NoOne \notin Peer
  /\ NoKey \notin PubKey
  /\ DataSeqs \subseteq Seq24 /\ NoBuf \notin DataSeqs
  /\ MaxPackets \in Nat

VARIABLES open,          \* peers a send can reach
          groups,        \* peers data is fanned out to
          clientMap,     \* sender -> peer (NoOne: no entry)
          peerIdentity,  \* peer -> sender (NoOne: not learned)
          members,       \* sender -> public key (NoKey: not a member)
          creator,       \* sender (NoOne: no entry)
          messageCache, highestSeq,   \* per sender
          thread,        \* per goroutine, the packet and the next locked part
          told,          \* sender -> the last roster sent to it
          packets

routing == <<groups, clientMap, peerIdentity>>
roster == <<members, creator>>
cached == <<messageCache, highestSeq>>
vars == <<open, routing, roster, cached, thread, told, packets>>

MembersOf == {s \in Sender : members[s] # NoKey}

Init ==
  /\ open = Peer \ StreamPeer
  /\ groups = {}
  /\ clientMap = [s \in Sender |-> NoOne]
  /\ peerIdentity = [p \in Peer |-> NoOne]
  /\ members = [s \in Sender |-> NoKey]
  /\ creator = NoOne
  /\ messageCache = [s \in Sender |-> EmptyCache]
  /\ highestSeq = [s \in Sender |-> NoSeq]
  /\ thread = [t \in Thread |-> Idle]
  /\ told = [s \in Sender |-> Idle]
  /\ packets = 0

-----------------------------------------------------------------------------
(* Goroutines.  A datagram gets one of its own; the packets of a           *)
(* connection are handled one after the other by the connection's.         *)

Busy(p) == \E t \in Thread : thread[t] # Idle /\ thread[t].peer = p

Packet ==
  [type : {"DATA"}, arg : DataSeqs] \union [type : {"KEY_REQ"}, arg : PubKey]
    \union [type : {"CONTROL"}, arg : {NoKey}]

Handler ==
  [at : {"joinGroup", "identify", "lookup", "cache", "admit", "notify"}, peer : Peer,
   from : Sender \union {NoOne}, type : {"DATA", "KEY_REQ", "CONTROL"},
   arg : DataSeqs \union PubKey \union {NoKey}]

ASSUME IdleAssumption == Idle \notin Handler

Receive(t, p, m) ==
  /\ thread[t] = Idle
  /\ p \in open
  /\ p \in StreamPeer => ~Busy(p)
  /\ packets < MaxPackets
  /\ packets' = packets + 1
  /\ thread' = [thread EXCEPT ![t] = [at |-> "joinGroup", peer |-> p, from |-> NoOne,
                                      type |-> m.type, arg |-> m.arg]]
  /\ UNCHANGED <<open, routing, roster, cached, told>>

At(t, part) == thread[t] # Idle /\ thread[t].at = part
Goto(t, part) == thread' = [thread EXCEPT ![t].at = part]
Return(t) == thread' = [thread EXCEPT ![t] = Idle]

-----------------------------------------------------------------------------
(* The locked parts of handleMessage.                                      *)

joinGroup(t) ==
  /\ At(t, "joinGroup")
  /\ groups' = groups \union {thread[t].peer}
  /\ Goto(t, IF thread[t].type = "DATA" THEN "lookup" ELSE "identify")
  /\ UNCHANGED <<open, clientMap, peerIdentity, roster, cached, told, packets>>

identify(t) ==
  LET p == thread[t].peer
  IN  /\ At(t, "identify")
      /\ peerIdentity' = [peerIdentity EXCEPT ![p] = Owner[p]]
      /\ clientMap' = [clientMap EXCEPT ![Owner[p]] = p]
      /\ IF thread[t].type = "KEY_REQ" THEN Goto(t, "admit") ELSE Return(t)
      /\ UNCHANGED <<open, groups, roster, cached, told, packets>>

\* The sender of a data packet is looked up, and the packet dropped when no
\* control packet has come from its address.
lookup(t) ==
  LET s == peerIdentity[thread[t].peer]
  IN  /\ At(t, "lookup")
      /\ IF s = NoOne THEN Return(t)
         ELSE thread' = [thread EXCEPT ![t].at = "cache", ![t].from = s]
      /\ UNCHANGED <<open, routing, roster, cached, told, packets>>

cache(t) ==
  LET s == thread[t].from
      seq == thread[t].arg
  IN  /\ At(t, "cache")
      /\ messageCache' = [messageCache EXCEPT ![s] = CachePut(@, highestSeq[s], seq, seq)]
      /\ highestSeq' = [highestSeq EXCEPT ![s] = HighestPut(@, seq)]
      /\ Return(t)
      /\ UNCHANGED <<open, routing, roster, told, packets>>

\* The first to join is the creator (the map of a conversation exists exactly
\* while it has members), and whoever finds the creator without a clientMap
\* entry.  (Mutant: whoever joins.)
CreatorNewest(s) == s

CreatorOnKeyReq(s) ==
  IF MembersOf = {} \/ creator = NoOne \/ clientMap[creator] = NoOne THEN s ELSE creator

admit(t) ==
  LET s == Owner[thread[t].peer]
  IN  /\ At(t, "admit")
      /\ creator' = CreatorOnKeyReq(s)
      /\ members' = [members EXCEPT ![s] = thread[t].arg]
      /\ Goto(t, "notify")
      /\ UNCHANGED <<open, routing, cached, told, packets>>

\* notifyMembersLocked: each member with a live route is sent the roster.
\* (Mutant: those who have been sent one before are not sent another.)
Info(s, ms, cr) == [creator |-> (cr = s), members |-> ms]

notifyOnceLocked(ms, cr, up) ==
  told' = [s \in Sender |-> IF ms[s] # NoKey /\ clientMap[s] \in up /\ told[s] = Idle
                            THEN Info(s, ms, cr) ELSE told[s]]

notifyMembersLocked(ms, cr, up) ==
  told' = [s \in Sender |-> IF ms[s] # NoKey /\ clientMap[s] \in up
                            THEN Info(s, ms, cr) ELSE told[s]]

notify(t) ==
  /\ At(t, "notify")
  /\ notifyMembersLocked(members, creator, open)
  /\ Return(t)
  /\ UNCHANGED <<open, routing, roster, cached, packets>>

-----------------------------------------------------------------------------
(* Connections.                                                            *)

Connect(p) ==
  /\ p \in StreamPeer \ open
  /\ open' = open \union {p}
  /\ UNCHANGED <<routing, roster, cached, thread, told, packets>>

Successor(s) ==
  LET left == MembersOf \ {s}
  IN  CASE creator # s -> creator
        [] creator = s /\ left = {} -> NoOne
        [] OTHER -> CHOOSE m \in left : \A n \in left : m <= n

\* The connection's goroutine leaves its loop: eviction, election and the
\* announcement are one locked part.
removePeer(p) ==
  LET s == peerIdentity[p]
      evicts == p \in groups /\ s # NoOne
  IN  /\ p \in StreamPeer \cap open
      /\ ~Busy(p)
      /\ open' = open \ {p}
      /\ groups' = groups \ {p}
      /\ members' = IF evicts THEN [members EXCEPT ![s] = NoKey] ELSE members
      /\ creator' = IF evicts THEN Successor(s) ELSE creator
      /\ IF p \in groups THEN notifyMembersLocked(members', creator', open') ELSE UNCHANGED told
      /\ UNCHANGED <<clientMap, peerIdentity, cached, thread, packets>>

-----------------------------------------------------------------------------
Handle(t) ==
  \/ joinGroup(t)
  \/ identify(t)
  \/ lookup(t)
  \/ cache(t)
  \/ admit(t)
  \/ notify(t)

Next ==
  \/ \E t \in Thread, p \in Peer, m \in Packet : Receive(t, p, m)
  \/ \E t \in Thread : Handle(t)
  \/ \E p \in Peer : Connect(p) \/ removePeer(p)

Spec == Init /\ [][Next]_vars

-----------------------------------------------------------------------------
(* Properties.                                                             *)

\* The type invariant: the maps of the server and the packets its goroutines
\* are at work on.
TypeOK ==
  /\ open \subseteq Peer
  /\ groups \subseteq Peer
  /\ clientMap \in [Sender -> Peer \union {NoOne}]
  /\ peerIdentity \in [Peer -> Sender \union {NoOne}]
  /\ members \in [Sender -> PubKey \union {NoKey}]
  /\ creator \in Sender \union {NoOne}
  /\ messageCache \in [Sender -> [Seq24 -> DataSeqs \union {NoBuf}]]
  /\ highestSeq \in [Sender -> DataSeqs \union {NoSeq}]
  /\ thread \in [Thread -> Handler \union {Idle}]
  /\ told \in [Sender -> [creator : BOOLEAN, members : [Sender -> PubKey \union {NoKey}]] \union {Idle}]
  /\ packets \in Nat

\* Membership and creatorship change as Roster says, though the mutex is
\* released between the parts of a handler and a connection may close, and
\* its member be evicted, between any two parts of another handler.
Promise == INSTANCE Roster WITH
  Conv <- {"room"}, Sender <- Sender, PubKey <- PubKey, NoOne <- NoOne, NoKey <- NoKey,
  members <- [c \in {"room"} |-> members], creator <- [c \in {"room"} |-> creator]

RosterKept == Promise!Spec

\* notifyMembers tells "every member" the roster, in a locked part after the
\* one that changed it.  Whenever no announcement is outstanding, what was
\* last sent to a member is the roster and the creator of now: no goroutine
\* sends an older roster after a newer one, and none is skipped.  The members
\* with more than one address are left out: a connection of theirs that closes
\* between the identification and the admission of a KeyReq they sent from
\* another address leaves them on the roster with a route to a closed one.
OneAddress(s) == \A p, q \in Peer : Owner[p] = s /\ Owner[q] = s => p = q

LastWord ==
  (\A t \in Thread : ~At(t, "notify")) =>
    \A s \in MembersOf : OneAddress(s) => told[s] = Info(s, members, creator)

\* Data packets of one sender are handled by several goroutines, in any order:
\* the cache still holds the newest one, and nothing from outside the window.
CacheSound ==
  \A s \in Sender :
    /\ highestSeq[s] # NoSeq => messageCache[s][highestSeq[s]] # NoBuf
    /\ \A k \in Seq24 : messageCache[s][k] # NoBuf =>
         highestSeq[s] # NoSeq /\ seqDelta(k, highestSeq[s]) <= CACHE_WINDOW
=============================================================================
