---------------------------- MODULE RelayServer -----------------------------
(***************************************************************************)
(* The blind group relay (class DartGroupServer of src/server.ts): one     *)
(* event loop that runs one handler at a time, so one action per packet    *)
(* type plus the transport events.  Packets are abstracted to the fields   *)
(* the handler reads; `out` holds what the last handler sent.              *)
(*                                                                         *)
(* A peer is a transport address.  UDP peers are always reachable and have *)
(* no close event; stream peers (TCP, WebSocket) connect and close.  The   *)
(* rate limit never bites: its counters live in the Peer object, and every *)
(* packet is handed over with a new one.                                   *)
(***************************************************************************)
EXTENDS RelayCache, FiniteSets

CONSTANTS Conv,         \* conversation ids
          Sender,       \* member ids, numbers (the successor is the smallest)
          Peer,         \* transport addresses
          StreamPeer,   \* the TCP and WebSocket ones
          Owner,        \* Peer -> Sender: the client that uses an address
          PubKey,       \* ECDH public keys, a fresh one per client start
          Body,         \* data packet contents
          NackSets,     \* the gap lists a NACK may carry
          NoOne,        \* no sender / no peer
          NoKey

ASSUME ServerAssumption ==
  /\ Sender \subseteq Nat
  /\ StreamPeer \subseteq Peer
  /\ Owner \in [Peer -> Sender]
  /\ NoOne \notin Sender /\ NoOne \notin Peer
  /\ NoKey \notin PubKey
  /\ NoBuf \notin Body
  /\ NackSets \subseteq SUBSET Seq24

VARIABLES open,          \* peers a send can reach
          groups,        \* conv -> peers data is fanned out to
          clientMap,     \* conv -> sender -> peer (NoOne: no entry)
          rooms,         \* the convs `members` has a map for
          members,       \* conv -> sender -> public key (NoKey: not a member)
          creator,       \* conv -> sender (NoOne: no entry)
          peerIdentity,  \* peer -> sender (NoOne: not learned)
          messageCache,  \* conv -> sender -> seq -> packet
          highestSeq,    \* conv -> sender -> seq
          out            \* the packets the last handler sent

routing == <<groups, clientMap, peerIdentity>>
roster == <<rooms, members, creator>>
cached == <<messageCache, highestSeq>>
vars == <<open, routing, roster, cached, out>>

MembersOf(c) == {s \in Sender : members[c][s] # NoKey}

NoRoutes == [c \in Conv |-> [s \in Sender |-> NoOne]]
NoMembers == [c \in Conv |-> [s \in Sender |-> NoKey]]
NoCache == [c \in Conv |-> [s \in Sender |-> EmptyCache]]
NoBaseline == [c \in Conv |-> [s \in Sender |-> NoSeq]]

Init ==
  /\ open = Peer \ StreamPeer
  /\ groups = [c \in Conv |-> {}]
  /\ clientMap = NoRoutes
  /\ peerIdentity = [p \in Peer |-> NoOne]
  /\ rooms = {}
  /\ members = NoMembers
  /\ creator = [c \in Conv |-> NoOne]
  /\ messageCache = NoCache
  /\ highestSeq = NoBaseline
  /\ out = {}

-----------------------------------------------------------------------------
(* Sending.  A write to a closed stream is swallowed.                      *)

sendToPeer(P, msg) == {[to |-> p, msg |-> msg] : p \in P \cap open}

\* The fan-out of data, SYNC and Dict-Reset: the group but the sending peer.
FanOut(G, p, msg) == sendToPeer(G \ {p}, msg)

\* notifyMembers: each member of the new roster that has a route is told the
\* roster and whether it is the creator.
notifyNoOne(c, ms, cr, cm) == {}

notifyMembers(c, ms, cr, cm) ==
  LET info(s) == [type |-> "MEMBER_INFO", conv |-> c, creator |-> (cr = s), members |-> ms]
  IN  UNION {sendToPeer({cm[s]}, info(s)) : s \in {m \in Sender : ms[m] # NoKey}}

-----------------------------------------------------------------------------
(* The head of handleMessage: the peer joins the group, and every packet   *)
(* but a data packet teaches the server who uses the address.              *)

joinGroup(c, p) == groups' = [groups EXCEPT ![c] = @ \union {p}]

identify(c, p) ==
  /\ joinGroup(c, p)
  /\ peerIdentity' = [peerIdentity EXCEPT ![p] = Owner[p]]
  /\ clientMap' = [clientMap EXCEPT ![c][Owner[p]] = p]

-----------------------------------------------------------------------------
(* One action per packet type.                                             *)

\* A data packet from an address no control packet has come from is dropped,
\* after the address has joined the group.
DataUnknown(p, c) ==
  /\ p \in open
  /\ peerIdentity[p] = NoOne
  /\ joinGroup(c, p)
  /\ out' = {}
  /\ UNCHANGED <<open, clientMap, peerIdentity, roster, cached>>

Data(p, c, seq, b) ==
  LET s == peerIdentity[p]
      msg == [type |-> "DATA", conv |-> c, sender |-> s, seq |-> seq, body |-> b]
  IN  /\ p \in open
      /\ s # NoOne
      /\ joinGroup(c, p)
      /\ messageCache' = [messageCache EXCEPT
                            ![c][s] = CachePut(@, highestSeq[c][s], seq, b)]
      /\ highestSeq' = [highestSeq EXCEPT ![c][s] = HighestPut(@, seq)]
      /\ out' = FanOut(groups[c] \union {p}, p, msg)
      /\ UNCHANGED <<open, clientMap, peerIdentity, roster>>

\* The creator of a conversation that has none, or whose creator has no entry
\* in clientMap, is the member whose KeyReq is being handled.
\* (Mutant: always.)
CreatorNewest(c, s) == s

CreatorOnKeyReq(c, s) ==
  IF c \notin rooms \/ creator[c] = NoOne \/ clientMap'[c][creator[c]] = NoOne
  THEN s
  ELSE creator[c]

KeyReq(p, c, k) ==
  LET s == Owner[p]
  IN  /\ p \in open
      /\ identify(c, p)
      /\ rooms' = rooms \union {c}
      /\ creator' = [creator EXCEPT ![c] = CreatorOnKeyReq(c, s)]
      /\ members' = [members EXCEPT ![c][s] = k]
      /\ out' = notifyMembers(c, members'[c], creator'[c], clientMap'[c])
      /\ UNCHANGED <<open, cached>>

\* KEY_SHARE, CHAIN_SHARE and ACK go to the target's address, if there is one.
Targeted(p, c, type, t) ==
  /\ p \in open
  /\ identify(c, p)
  /\ out' = sendToPeer({clientMap'[c][t]}, [type |-> type, conv |-> c, sender |-> Owner[p], target |-> t])
  /\ UNCHANGED <<open, roster, cached>>

\* The cached packets among the missing ones go back to the NACKer.  The NACK
\* goes to the data sender; when that is unknown or is the NACKer's own
\* address and something is still missing, it goes to the whole group.
Repairs(p, c, t, missing) ==
  UNION {sendToPeer({p}, [type |-> "DATA", conv |-> c, sender |-> t, seq |-> k,
                          body |-> messageCache[c][t][k]])
           : k \in {m \in missing : messageCache[c][t][m] # NoBuf}}

NackRelay(p, c, t, missing) ==
  LET nack == [type |-> "NACK", conv |-> c, sender |-> Owner[p], target |-> t,
               missing |-> missing]
  IN  IF clientMap'[c][t] \notin {NoOne, p}
      THEN sendToPeer({clientMap'[c][t]}, nack)
      ELSE IF \E k \in missing : messageCache[c][t][k] = NoBuf
           THEN FanOut(groups'[c], p, nack)
           ELSE {}

Nack(p, c, t, missing) ==
  /\ p \in open
  /\ identify(c, p)
  /\ out' = Repairs(p, c, t, missing) \union NackRelay(p, c, t, missing)
  /\ UNCHANGED <<open, roster, cached>>

\* SYNC and Dict-Reset are relayed only when signed under the public key the
\* roster has for the sender; k is the key the client signs with.
Verified(p, c, type, k) ==
  /\ p \in open
  /\ identify(c, p)
  /\ out' = IF members[c][Owner[p]] = k
            THEN FanOut(groups'[c], p, [type |-> type, conv |-> c, sender |-> Owner[p]])
            ELSE {}
  /\ UNCHANGED <<open, roster, cached>>

-----------------------------------------------------------------------------
(* Transport events.                                                       *)

Connect(p) ==
  /\ p \in StreamPeer \ open
  /\ open' = open \union {p}
  /\ out' = {}
  /\ UNCHANGED <<routing, roster, cached>>

\* removePeer: the member behind the closed address leaves every conversation
\* whose group had the address; the smallest remaining id succeeds a creator.
LeftConvs(p) == {c \in Conv : p \in groups[c]}

WithoutNone(c, s) == members[c]

Without(c, s) == [members[c] EXCEPT ![s] = NoKey]

successorNone(c, s) == creator[c]

successor(c, s) ==
  LET left == MembersOf(c) \ {s}
  IN  CASE creator[c] # s -> creator[c]
        [] creator[c] = s /\ left = {} -> NoOne
        [] OTHER -> CHOOSE m \in left : \A n \in left : m <= n

removePeer(p) ==
  LET s == peerIdentity[p]
      left == IF s = NoOne THEN {} ELSE LeftConvs(p) \cap rooms
  IN  /\ p \in StreamPeer \cap open
      /\ open' = open \ {p}
      /\ groups' = [c \in Conv |-> groups[c] \ {p}]
      /\ members' = [c \in Conv |-> IF c \in left THEN Without(c, s) ELSE members[c]]
      /\ creator' = [c \in Conv |-> IF c \in left THEN successor(c, s) ELSE creator[c]]
      /\ rooms' = {c \in rooms : c \in left => MembersOf(c) \ {s} # {}}
      /\ out' = {o \in UNION {notifyMembers(c, members'[c], creator'[c], clientMap[c])
                                : c \in left \cap rooms'} : o.to # p}
      /\ UNCHANGED <<clientMap, peerIdentity, cached>>

\* The process stops and starts again: only the ECDH key file survives.
Restart ==
  /\ open' = Peer \ StreamPeer
  /\ groups' = [c \in Conv |-> {}]
  /\ clientMap' = NoRoutes
  /\ peerIdentity' = [p \in Peer |-> NoOne]
  /\ rooms' = {}
  /\ members' = NoMembers
  /\ creator' = [c \in Conv |-> NoOne]
  /\ messageCache' = NoCache
  /\ highestSeq' = NoBaseline
  /\ out' = {}

-----------------------------------------------------------------------------
FromPeer(p, c) ==
  \/ DataUnknown(p, c)
  \/ \E seq \in Seq24, b \in Body : Data(p, c, seq, b)
  \/ \E k \in PubKey : KeyReq(p, c, k)
  \/ \E t \in Sender : Targeted(p, c, "SHARE", t)
  \/ \E t \in Sender : Targeted(p, c, "ACK", t)
  \/ \E t \in Sender, missing \in NackSets : Nack(p, c, t, missing)
  \/ \E k \in PubKey : Verified(p, c, "SYNC", k)
  \/ \E k \in PubKey : Verified(p, c, "DICT_RESET", k)

Next ==
  \/ \E p \in Peer, c \in Conv : FromPeer(p, c)
  \/ \E p \in Peer : Connect(p) \/ removePeer(p)
  \/ Restart

Spec == Init /\ [][Next]_vars
-----------------------------------------------------------------------------
(* Properties.                                                             *)

\* The type invariant: the maps of DartGroupServer hold what their
\* declarations say.
TypeOK ==
  /\ open \subseteq Peer
  /\ groups \in [Conv -> SUBSET Peer]
  /\ clientMap \in [Conv -> [Sender -> Peer \union {NoOne}]]
  /\ rooms \subseteq Conv
  /\ members \in [Conv -> [Sender -> PubKey \union {NoKey}]]
  /\ creator \in [Conv -> Sender \union {NoOne}]
  /\ peerIdentity \in [Peer -> Sender \union {NoOne}]
  /\ messageCache \in [Conv -> [Sender -> [Seq24 -> Body \union {NoBuf}]]]
  /\ highestSeq \in [Conv -> [Sender -> Seq24 \union {NoSeq}]]

\* A conversation exists exactly while it has members, and its creator is one
\* of them: through every order of KeyReqs, closes and successor elections
\* there is a member who can rotate the key, and a dropped room leaves no
\* creator behind for the next one.
CreatorIsMember ==
  \A c \in Conv :
    /\ c \in rooms <=> MembersOf(c) # {}
    /\ c \in rooms => creator[c] \in MembersOf(c)
    /\ c \notin rooms => creator[c] = NoOne

\* Every member on the roster has a route that can still be written to:
\* clientMap is never cleaned, so this rests on removePeer evicting the member
\* whose address closes.  (It also shows that a recorded creator always has a
\* clientMap entry: the hand-over branch of KeyReq fires only for a new room.)
MembersReachable ==
  \A c \in Conv : \A s \in MembersOf(c) : clientMap[c][s] \in open

\* The cache holds nothing more than CACHE_WINDOW behind the highest packet,
\* whatever stale or duplicated packets arrive and across a wrap.
CacheInWindow ==
  \A c \in Conv, s \in Sender, k \in Seq24 :
    messageCache[c][s][k] # NoBuf =>
      highestSeq[c][s] # NoSeq /\ seqDelta(k, highestSeq[c][s]) <= CACHE_WINDOW

\* The newest packet of a sender can always be repaired from the cache.
NewestCached ==
  \A c \in Conv, s \in Sender :
    highestSeq[c][s] # NoSeq => messageCache[c][s][highestSeq[c][s]] # NoBuf

\* A cached packet is dropped only when it falls out of the window behind the
\* highest packet (or with the process): a late or duplicated packet never
\* empties the cache that NACKs are repaired from.
KeepsCache ==
  \A c \in Conv, s \in Sender, k \in Seq24 :
    messageCache[c][s][k] # NoBuf /\ messageCache'[c][s][k] = NoBuf =>
      Restart \/ seqDelta(k, highestSeq'[c][s]) > CACHE_WINDOW

CacheRetained == [][KeepsCache]_vars

\* Whenever a step changes a conversation's roster or creator, the same step
\* tells every remaining member the new roster, and tells exactly the creator
\* that it is the creator: no member is left on an old roster by the server.
AnnouncesRoster ==
  \A c \in Conv :
    <<members[c], creator[c]>>' # <<members[c], creator[c]>> =>
      \A s \in MembersOf(c)' :
        [to |-> clientMap'[c][s],
         msg |-> [type |-> "MEMBER_INFO", conv |-> c, creator |-> (creator'[c] = s),
                  members |-> members'[c]]] \in out'

RosterAnnounced == [][AnnouncesRoster]_vars

\* removePeer is to remove "the departed member": a member leaves the roster
\* only when the address it is reached at closes (or the process stops).
EvictsOnlyDeparted ==
  [][\A c \in Conv, s \in Sender :
       members[c][s] # NoKey /\ members'[c][s] = NoKey =>
         clientMap[c][s] \notin open' \/ Restart]_vars

\* The relay keeps the promise of Roster: the first to join is the creator,
\* a reconnect changes a key and nothing else, creatorship passes only from a
\* creator who leaves and to the smallest remaining id, and the hand-over to a
\* joining member that KeyReq also has never takes it from a living creator.
Promise == INSTANCE Roster WITH
  Conv <- Conv, Sender <- Sender, PubKey <- PubKey, NoOne <- NoOne, NoKey <- NoKey,
  members <- members, creator <- creator

RosterKept == Promise!Spec
=============================================================================
