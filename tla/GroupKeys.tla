----------------------------- MODULE GroupKeys ------------------------------
(***************************************************************************)
(* The key plane of the reference client (class DartClient of              *)
(* src/client.ts) with the relay's roster: joining, the creator's group    *)
(* keys and their rotation, member-to-member key shares and ratchet-chain  *)
(* shares with their timed repeats, successor elections, and clients that  *)
(* leave or restart, over a network that loses and reorders packets.       *)
(*                                                                         *)
(* A client's ECDH key is the number of its incarnation: each start makes  *)
(* a new one.  A share can be read when the target still has the key it    *)
(* was encrypted to and knows the sharer under the key it was encrypted    *)
(* with.  A group key is named by who made it, when and for which epoch; a *)
(* chain by its seed, since every state of a chain leads to the same keys. *)
(***************************************************************************)
EXTENDS Integers, FiniteSets

CONSTANTS Member,         \* member ids, numbers (the successor is the smallest)
          SHARE_RETRIES,  \* timed repeats of a share: 2 in the code
          JOIN_RETRIES,   \* timed repeats of a KeyReq: 3 in the code
          KEEP_EPOCHS,    \* old epochs whose keys are kept: 4 in the code
          InfoInOrder,    \* the relay's rosters do not overtake each other
          MaxEpoch,       \* bound: epochs
          MaxInits,       \* bound: chains a process makes
          MaxStarts,      \* bound: starts of a client
          MaxLeaves,      \* bound: closed connections
          Lossy,          \* the types of packets the network may lose
          MaxLosses,      \* bound: packets the network loses
          MaxInFlight,    \* bound: no timer fires and nobody joins beyond it
          NoKey, NoOne

ASSUME KeysAssumption ==
  /\ Member \subseteq Nat \ {0} /\ NoOne \notin Member
  /\ NoKey \notin [by : Member, inc : Nat, epoch : Nat]
  /\ InfoInOrder \in BOOLEAN
  /\ {SHARE_RETRIES, JOIN_RETRIES, KEEP_EPOCHS, MaxEpoch, MaxInits, MaxStarts, MaxLeaves, MaxLosses,
      MaxInFlight} \subseteq Nat

VARIABLES client,    \* the clients' state, see Fresh
          members,   \* the relay: id -> public key, 0 when not a member
          creator,   \* the relay: the creator's id
          infoNo,    \* the relay: notifications so far
          net, losses, leaves

vars == <<client, members, creator, infoNo, net, losses, leaves>>

Epoch == 1 .. MaxEpoch
NoRoster == [m \in Member |-> 0]

\* A started client: nothing adopted, KeyReq about to be sent.  `out` collects
\* what the handler at hand sends; `linked` (a history variable) says that no
\* connection of it has closed.
Fresh(inc) ==
  [inc |-> inc, up |-> TRUE, linked |-> TRUE, roster |-> NoRoster, isCreator |-> FALSE, epoch |-> 0,
   roomKeys |-> [e \in Epoch |-> NoKey], sharedWith |-> {}, chainSharedWith |-> {},
   senderChains |-> [e \in Epoch |-> [m \in Member |-> 0]], inits |-> 0, retries |-> {},
   rekeyTimer |-> FALSE, joins |-> JOIN_RETRIES, out |-> {}]

Down(inc) == [Fresh(inc) EXCEPT !.up = FALSE, !.linked = FALSE, !.joins = 0]

Init ==
  /\ client = [c \in Member |-> Down(0)]
  /\ members = NoRoster
  /\ creator = NoOne
  /\ infoNo = 0
  /\ net = {}
  /\ losses = 0
  /\ leaves = 0

-----------------------------------------------------------------------------
(* What the handlers are made of.  st is the state of client c.            *)

Others(c, st) == {m \in Member \ {c} : st.roster[m] # 0}

\* One round of a share.  A key share is encrypted to the roster it was made
\* under, a chain share to the roster of the moment.
Round(c, st, job) ==
  CASE job.kind = "KEY" ->
         {[type |-> "KEY_SHARE", to |-> t, from |-> c, fromPub |-> st.inc, toPub |-> job.pubs[t],
           epoch |-> job.epoch, key |-> job.key] : t \in job.targets}
    [] job.kind = "CHAIN" ->
         {[type |-> "CHAIN_SHARE", to |-> t, from |-> c, fromPub |-> st.inc, toPub |-> st.roster[t],
           epoch |-> job.epoch, seed |-> job.seed] : t \in job.targets \cap Others(c, st)}


doShare(c, st, job) ==
  [st EXCEPT !.out = @ \union Round(c, st, job),
             !.retries = IF SHARE_RETRIES = 0 THEN @ ELSE @ \union {job}]

shareWithNewMembers(c, st) ==
  LET targets == Others(c, st) \ st.sharedWith
      job == [kind |-> "KEY", targets |-> targets, pubs |-> st.roster, epoch |-> st.epoch,
              key |-> st.roomKeys[st.epoch], left |-> SHARE_RETRIES]
  IN  IF st.epoch = 0 \/ targets = {} THEN st
      ELSE doShare(c, [st EXCEPT !.sharedWith = @ \union targets], job)

shareChainWithMembers(c, st) ==
  LET targets == Others(c, st) \ st.chainSharedWith
      job == [kind |-> "CHAIN", targets |-> targets, epoch |-> st.epoch,
              seed |-> st.senderChains[st.epoch][c], left |-> SHARE_RETRIES]
  IN  IF st.epoch = 0 \/ targets = {} THEN st
      ELSE doShare(c, [st EXCEPT !.chainSharedWith = @ \union targets], job)

\* A new seed: the incarnation's next number.
initOwnChain(c, st) ==
  shareChainWithMembers(c, [st EXCEPT !.senderChains[st.epoch][c] = (st.inc - 1) * MaxInits + st.inits + 1,
                                      !.inits = @ + 1, !.chainSharedWith = {}])

adoptKey(c, st, epoch, key) ==
  initOwnChain(c, shareWithNewMembers(c,
    [st EXCEPT !.roomKeys[epoch] = key, !.epoch = epoch, !.sharedWith = {}, !.rekeyTimer = TRUE]))

NewKey(c, st, epoch) == [by |-> c, inc |-> st.inc, epoch |-> epoch]

\* (Mutant: the current epoch goes too.)
pruneOldEpochsEarly(st) ==
  [st EXCEPT !.roomKeys = [e \in Epoch |-> IF e + KEEP_EPOCHS <= st.epoch THEN NoKey ELSE @[e]]]

pruneOldEpochs(st) ==
  [st EXCEPT !.roomKeys = [e \in Epoch |-> IF e + KEEP_EPOCHS < st.epoch THEN NoKey ELSE @[e]]]

rekey(c, st) ==
  IF st.isCreator
  THEN pruneOldEpochs(adoptKey(c, st, st.epoch + 1, NewKey(c, st, st.epoch + 1)))
  ELSE st

\* The bounds leave room for another epoch and another chain.
MayAdopt(st) == st.epoch < MaxEpoch /\ st.inits < MaxInits

-----------------------------------------------------------------------------
(* Steps.                                                                  *)

\* c's handler has run to st; `used` are the packets it consumed.
Becomes(c, st, used) ==
  /\ client' = [client EXCEPT ![c] = [st EXCEPT !.out = {}]]
  /\ net' = (net \ used) \union st.out

Quiet == Cardinality(net) < MaxInFlight

KeyReqPkt(c, st) == [type |-> "KEY_REQ", to |-> NoOne, from |-> c, pub |-> st.inc, retry |-> st.joins]

\* A process starts, for the first time, after leaving, or after a crash its
\* UDP peers do not notice, and joins.
joinConversation(c) ==
  LET st == Fresh(client[c].inc + 1)
  IN  /\ st.inc <= MaxStarts
      /\ Quiet
      /\ Becomes(c, [st EXCEPT !.out = {KeyReqPkt(c, st)}], {})
      /\ UNCHANGED <<members, creator, infoNo, losses, leaves>>

RetryJoin(c) ==
  LET st == [client[c] EXCEPT !.joins = @ - 1]
  IN  /\ client[c].joins > 0
      /\ Quiet
      /\ Becomes(c, [st EXCEPT !.out = {KeyReqPkt(c, st)}], {})
      /\ UNCHANGED <<members, creator, infoNo, losses, leaves>>

RetryShare(c, job) ==
  LET rest == client[c].retries \ {job}
      again == IF job.left > 1 THEN {[job EXCEPT !.left = @ - 1]} ELSE {}
  IN  /\ Quiet
      /\ Becomes(c, [client[c] EXCEPT !.retries = rest \union again, !.out = Round(c, client[c], job)], {})
      /\ UNCHANGED <<members, creator, infoNo, losses, leaves>>

\* scheduleRekey's timer: it rotates the creator's key, and is armed again by
\* the rotation only.
RekeyTimer(c) ==
  /\ client[c].up /\ client[c].rekeyTimer
  /\ MayAdopt(client[c])
  /\ Quiet
  /\ Becomes(c, rekey(c, [client[c] EXCEPT !.rekeyTimer = FALSE]), {})
  /\ UNCHANGED <<members, creator, infoNo, losses, leaves>>

\* The relay (see RelayServer): the roster, its creator, and the news of it.
successor(left) == IF left = {} THEN NoOne ELSE CHOOSE m \in left : \A n \in left : m <= n

notifyMembers(ms, cr) ==
  {[type |-> "MEMBER_INFO", to |-> m, toPub |-> ms[m], creator |-> (cr = m), roster |-> ms, no |-> infoNo']
     : m \in {x \in Member : ms[x] # 0}}

\* (Mutant: whoever asks becomes the creator.)
CreatorAlwaysNew(s) == s

CreatorOnKeyReq(s) == IF creator = NoOne THEN s ELSE creator

RelayKeyReq(m) ==
  /\ m.type = "KEY_REQ"
  /\ members' = [members EXCEPT ![m.from] = m.pub]
  /\ creator' = CreatorOnKeyReq(m.from)
  /\ infoNo' = infoNo + 1
  /\ net' = (net \ {m}) \union notifyMembers(members', creator')
  /\ UNCHANGED <<client, losses, leaves>>

\* removePeer: a connection of c closes, after what was sent on it was read.
removePeer(c, st) ==
  LET left == {m \in Member \ {c} : members[m] # 0}
  IN  /\ client[c].up /\ members[c] # 0
      /\ \A m \in net : m.type = "KEY_REQ" => m.from # c
      /\ leaves < MaxLeaves
      /\ leaves' = leaves + 1
      /\ client' = [client EXCEPT ![c] = st]
      /\ members' = [members EXCEPT ![c] = 0]
      /\ creator' = IF creator = c THEN successor(left) ELSE creator
      /\ infoNo' = infoNo + 1
      /\ net' = net \union notifyMembers(members', creator')
      /\ UNCHANGED losses

\* The client ends.
Leave(c) == removePeer(c, Down(client[c].inc))

\* The client goes on over UDP.  The relay does not tell it that it is evicted.
disableFallback(c) == removePeer(c, [client[c] EXCEPT !.linked = FALSE])

Overtakes(m) == InfoInOrder /\ \E n \in net : n.type = "MEMBER_INFO" /\ n.to = m.to /\ n.no < m.no

AfterMemberInfo(c, m) ==
  LET st == client[c]
      changed == {x \in Member : st.roster[x] # 0 /\ m.roster[x] # 0 /\ st.roster[x] # m.roster[x]}
      a == [st EXCEPT !.roster = m.roster, !.isCreator = m.creator, !.sharedWith = @ \ changed,
                      !.chainSharedWith = @ \ changed]
      b == IF m.creator /\ st.epoch = 0 THEN adoptKey(c, a, 1, NewKey(c, a, 1)) ELSE shareWithNewMembers(c, a)
      d == IF m.creator /\ ~st.isCreator /\ st.epoch # 0 THEN rekey(c, b) ELSE b
  IN  [shareChainWithMembers(c, d) EXCEPT !.rekeyTimer = TRUE]

handleMemberInfo(c, m) ==
  /\ m.type = "MEMBER_INFO" /\ m.to = c /\ client[c].up
  /\ ~Overtakes(m)
  /\ m.creator /\ ~client[c].isCreator => MayAdopt(client[c])
  /\ Becomes(c, IF m.toPub = client[c].inc THEN AfterMemberInfo(c, m) ELSE client[c], {m})
  /\ UNCHANGED <<members, creator, infoNo, losses, leaves>>

Readable(c, m) == m.toPub = client[c].inc /\ m.fromPub = client[c].roster[m.from]

\* A share of a newer epoch is adopted, and one of the same epoch with another
\* key.  (Mutants: every share; every other key.)
AdoptsAny(st, m) == TRUE

AdoptsOther(st, m) == st.epoch = 0 \/ m.key # st.roomKeys[st.epoch]

Adopts(st, m) ==
  \/ m.epoch > st.epoch
  \/ m.epoch = st.epoch /\ m.key # st.roomKeys[st.epoch]

handleKeyShare(c, m) ==
  LET st == client[c]
  IN  /\ m.type = "KEY_SHARE" /\ m.to = c /\ st.up
      /\ st.inits < MaxInits
      /\ Becomes(c, IF Readable(c, m) /\ Adopts(st, m) THEN adoptKey(c, st, m.epoch, m.key) ELSE st, {m})
      /\ UNCHANGED <<members, creator, infoNo, losses, leaves>>

handleChainShare(c, m) ==
  LET st == client[c]
  IN  /\ m.type = "CHAIN_SHARE" /\ m.to = c /\ st.up
      /\ Becomes(c, IF Readable(c, m) THEN [st EXCEPT !.senderChains[m.epoch][m.from] = m.seed] ELSE st, {m})
      /\ UNCHANGED <<members, creator, infoNo, losses, leaves>>

Lose(m) ==
  /\ m.type \in Lossy
  /\ losses < MaxLosses
  /\ losses' = losses + 1
  /\ net' = net \ {m}
  /\ UNCHANGED <<client, members, creator, infoNo, leaves>>

Handle(c, m) == handleMemberInfo(c, m) \/ handleKeyShare(c, m) \/ handleChainShare(c, m)

Next ==
  \/ \E c \in Member : joinConversation(c) \/ RetryJoin(c) \/ RekeyTimer(c) \/ Leave(c) \/ disableFallback(c)
  \/ \E c \in Member : \E job \in client[c].retries : RetryShare(c, job)
  \/ \E m \in net : RelayKeyReq(m) \/ Lose(m) \/ \E c \in Member : Handle(c, m)

Spec == Init /\ [][Next]_vars

-----------------------------------------------------------------------------
(* Properties.                                                             *)

Key == [by : Member, inc : 1 .. MaxStarts, epoch : Epoch]
Seed == 0 .. MaxStarts * MaxInits

\* The clients' maps hold what their declarations say: rosters of public keys,
\* one key or none per epoch, chain seeds per epoch and sender.
TypeOK ==
  /\ \A c \in Member :
       LET st == client[c]
       IN  /\ st.inc \in 0 .. MaxStarts /\ {st.up, st.linked, st.isCreator, st.rekeyTimer} \subseteq BOOLEAN
           /\ st.roster \in [Member -> 0 .. MaxStarts]
           /\ st.epoch \in 0 .. MaxEpoch /\ st.inits \in 0 .. MaxInits
           /\ st.roomKeys \in [Epoch -> Key \union {NoKey}]
           /\ st.epoch # 0 => st.roomKeys[st.epoch] # NoKey
           /\ st.sharedWith \union st.chainSharedWith \subseteq Member \ {c}
           /\ st.senderChains \in [Epoch -> [Member -> Seed]]
           /\ st.joins \in 0 .. JOIN_RETRIES /\ st.out = {}
  /\ members \in [Member -> 0 .. MaxStarts]
  /\ creator \in Member \union {NoOne}

Up == {c \in Member : client[c].up}

\* Two running clients never both take themselves for the creator, whoever
\* leaves, restarts or hears of it late (isCreator, set by handleMemberInfo only).
\* The exception is a client whose fallback connection closed: removePeer evicts
\* it, it does not hear of it, and may be a creator beside the successor.
OneCreator ==
  \A c, d \in Up :
     client[c].linked /\ client[d].linked /\ client[c].isCreator /\ client[d].isCreator => c = d

\* A running client never goes back to an earlier epoch (the guard of
\* handleKeyShare against shares that timers repeat or the network delays).
KeepsEpochs ==
  \A c \in Member : client'[c].inc = client[c].inc /\ client'[c].up => client'[c].epoch >= client[c].epoch

EpochsAdvance == [][KeepsEpochs]_vars

\* As long as nobody leaves or restarts, an epoch has one group key: any two
\* clients that hold a key of an epoch hold the same one.
OneKeyPerEpoch ==
  \A c, d \in Up : \A e \in Epoch :
     NoKey \notin {client[c].roomKeys[e], client[d].roomKeys[e]} => client[c].roomKeys[e] = client[d].roomKeys[e]

\* ... and a chain a client stores for a sender is the one that sender ratchets:
\* "storing the shared state is always safe" (handleChainShare), with repeated and
\* overtaken shares.
ChainsAgree ==
  \A c, s \in Up : \A e \in Epoch : client[c].senderChains[e][s] \in {0, client[s].senderChains[e][s]}

Settled == net = {} /\ \A c \in Member : client[c].retries = {} /\ client[c].joins = 0


\* A member that has the key of a restarted creator never goes back to the dead
\* key of the process before ("members must switch", handleKeyShare).
KeepsLiveKey ==
  [][\A c \in Member, e \in Epoch :
       LET old == client[c].roomKeys[e]
           new == client'[c].roomKeys[e]
       IN  client'[c].inc = client[c].inc /\ NoKey \notin {old, new} /\ old.by = new.by /\ c # new.by
             => old.inc <= new.inc]_vars
=============================================================================
