------------------------------ MODULE Fallback ------------------------------
(***************************************************************************)
(* The TCP fallback of the reference client (enableFallback, broadcast and *)
(* disableFallback of src/client.ts, the TCP server and sendToPeer of      *)
(* src/server.ts), with what its frames carry: the codec (Frames), the     *)
(* ratchet chain they are encrypted with, and every place that reads a     *)
(* frame at fixed offsets.                                                 *)
(*                                                                         *)
(* TCP delivers the bytes in order, in chunks of any size; closing the     *)
(* connection loses those under way.  Member 1 is the client, member 2 the *)
(* addressee of what it sends; the relay passes a frame on as it is.  What *)
(* handlers go on to do with a dart is in RelayServer, DataStream and      *)
(* GroupKeys; here it is what each reads in it, the relay's peerIdentity   *)
(* and the chains, which decide whether a message can be read at all.      *)
(***************************************************************************)
EXTENDS Frames, TLC

CONSTANTS UpDarts,     \* control darts the client may send
          DownDarts,   \* darts the relay may send to it
          DataSeqs,    \* sequence numbers of its data darts
          MaxSent,     \* bound: frames per connection
          MaxConns,    \* bound: connections
          Slow,        \* bound: bytes of a frame that may arrive one by one
          Nil

VARIABLES useFallback, conns,
          identity,  \* the relay's peerIdentity for this connection
          pipe,      \* per direction, the bytes under way
          buffer,    \* per direction, the reader's incomplete frame
          sent,      \* per direction, the darts written to this connection
          got,       \* per direction, what the readers of each frame read
          own,       \* the client's ratchet chain
          peer       \* member 2's state of that chain

vars == <<useFallback, conns, identity, pipe, buffer, sent, got, own, peer>>

Dir == {"up", "down"}
Me == 1
Other == 2
Relay == 0

TYPE_DATA == 1
TYPE_NACK == 2
TYPE_SYNC == 3
TYPE_KEY_REQ == 4
TYPE_DICT_RESET == 6
TYPE_ACK == 7
TYPE_KEY_SHARE == 8
TYPE_MEMBER_INFO == 9
TYPE_CHAIN_SHARE == 10

-----------------------------------------------------------------------------
(* The ratchet.  HMAC (external) is a one-way step: of one seed, a chain   *)
(* key is the number of steps taken from it.                               *)

chainNextKey(key) == [key EXCEPT !.steps = @ + 1]
chainMessageKey(key, index) == [chain |-> key, index |-> Mask32(index)]

\* (Mutant: the new state keeps the key of the message.)
advanceChainKept(state, targetIndex) ==
  LET key[i \in Nat] == IF i = 0 THEN state.key ELSE chainNextKey(key[i - 1])
      at == key[targetIndex - state.index]
  IN  [messageKey |-> chainMessageKey(at, targetIndex), state |-> [key |-> at, index |-> targetIndex + 1]]

advanceChain(state, targetIndex) ==
  LET key[i \in Nat] == IF i = 0 THEN state.key ELSE chainNextKey(key[i - 1])
      at == key[targetIndex - state.index]
  IN  [messageKey |-> chainMessageKey(at, targetIndex),
       state |-> [key |-> chainNextKey(at), index |-> targetIndex + 1]]

Seed == [key |-> [steps |-> 0], index |-> 0]
KEY_LEN == 32

-----------------------------------------------------------------------------
(* Writers.                                                                *)

Signed(frame, key) == IF frame = RangeError THEN RangeError ELSE signControlFrame(frame, key)

Encode(d) ==
  CASE d.type = TYPE_DATA -> encodeDataHelper(d, advanceChain(own, own.index).messageKey)
    [] d.type = TYPE_NACK -> Signed(encodeNack(d, GroupKey), pairwiseKey(d.senderId, d.targetId))
    [] d.type = TYPE_SYNC -> Signed(encodeSync(d, GroupKey), pairwiseKey(d.senderId, Relay))
    [] d.type = TYPE_KEY_REQ -> encodeKeyReq(d)
    [] d.type = TYPE_DICT_RESET -> Signed(encodeDictReset(d, GroupKey), pairwiseKey(d.senderId, Relay))
    [] d.type = TYPE_ACK -> Signed(encodeAck(d, GroupKey), pairwiseKey(d.senderId, d.targetId))
    [] d.type = TYPE_KEY_SHARE -> encodeKeyShare(d, pairwiseKey(d.senderId, d.targetId))
    [] d.type = TYPE_MEMBER_INFO -> encodeMemberInfo(d, pairwiseKey(Relay, Me))
    [] d.type = TYPE_CHAIN_SHARE -> encodeChainShare(d, pairwiseKey(d.senderId, d.targetId))

\* The two-byte length in front of a frame on the stream.
Framed(frame) == Written(2 + Len(frame), << <<0, UInt(Len(frame), 2)>>, <<2, frame>> >>)

\* A dart that cannot be encoded, or a frame too long for its prefix, throws
\* before anything is written.
Write(dir, d) ==
  \E frame \in {Encode(d)} :
    /\ useFallback
    /\ Len(sent["up"]) + Len(sent["down"]) < MaxSent
    /\ frame # RangeError /\ Fits16({Len(frame)})
    /\ pipe' = [pipe EXCEPT ![dir] = @ \o Framed(frame)]
    /\ sent' = [sent EXCEPT ![dir] = Append(@, d)]
    /\ UNCHANGED <<useFallback, conns, identity, buffer, got, peer>>

sendControl(d) == Write("up", d) /\ UNCHANGED own

\* sendData: the chain moves on with the message.
sendData(seq) ==
  /\ Write("up", [type |-> TYPE_DATA, convId |-> 5, senderId |-> Me, seq |-> seq, epoch |-> 1,
                  dictFp |-> Bytes("fp", 4), idx |-> own.index, compressed |-> <<"text">>])
  /\ own' = advanceChain(own, own.index).state

\* sendChainShare: a new member gets the current state, a NACKer the seed.
sendChainShare(state) ==
  /\ Write("up", [type |-> TYPE_CHAIN_SHARE, convId |-> 5, senderId |-> Me, targetId |-> Other,
                  epoch |-> 1, chainKey |-> Bytes(state.key, KEY_LEN), chainIndex |-> state.index])
  /\ UNCHANGED own

\* The relay finds the connection once it knows who is at its other end.
sendToPeer(d) == identity # Nil /\ Write("down", d) /\ UNCHANGED own

-----------------------------------------------------------------------------
(* Readers.                                                                *)

\* The relay's handleMessage: a control frame says who the peer is, and data
\* from a peer that has sent none is dropped.
Identified(known, buf) == IF read(buf, 0, 1) # TYPE_DATA /\ Len(buf) >= 5 THEN read(buf, 3, 2) ELSE known

RelayReads(known, buf) ==
  LET type == read(buf, 0, 1)
  IN  CASE type = TYPE_DATA ->
             IF known = Nil THEN Nil
             ELSE [type |-> type, convId |-> read(buf, 1, 2), senderId |-> known, seq |-> read(buf, 3, 3)]
        [] type \in {TYPE_KEY_SHARE, TYPE_CHAIN_SHARE, TYPE_ACK} -> ReadDirected(buf)
        [] type = TYPE_NACK -> parseNack(stripControlFrame(buf))
        [] type \in {TYPE_SYNC, TYPE_DICT_RESET} ->
             IF verifyControlFrame(buf, pairwiseKey(Relay, read(buf, 3, 2))) = BadFrame
             THEN BadFrame ELSE ReadCommon(buf)
        [] type = TYPE_KEY_REQ -> decodeKeyReq(buf)

\* A frame decoded after its signature, by member `me`.
Verified(buf, me) == verifyControlFrame(buf, pairwiseKey(me, read(buf, 3, 2)))

\* decryptDataInOrder: the chain is looked up by the sender and moved on to the
\* frame's index; it is kept when the message decrypts.
decryptDataInOrder(chain, buf) ==
  LET idx == read(buf, 27, 4)
      step == advanceChain(chain, idx)
      dec == decryptData(buf, step.messageKey)
  IN  IF chain = Nil THEN [chain |-> chain, dart |-> Nil]
      ELSE IF idx < chain.index THEN [chain |-> chain, dart |-> Nil]
      ELSE [chain |-> IF dec = BadFrame THEN chain ELSE step.state, dart |-> dec]

handleChainShare(chain, buf, me) ==
  LET share == decodeChainShare(buf, pairwiseKey(me, read(buf, 3, 2)))
  IN  [chain |-> IF share = BadFrame THEN chain
                 ELSE [key |-> share.chainKey[1][1], index |-> share.chainIndex],
       dart |-> share]

\* The client's handleMessage, at member `me` with the chain it has stored.
MemberReads(chain, buf, me) ==
  LET type == read(buf, 0, 1)
      Keeps(dart) == [chain |-> chain, dart |-> dart]
  IN  CASE type = TYPE_DATA -> decryptDataInOrder(chain, buf)
        [] type = TYPE_CHAIN_SHARE -> handleChainShare(chain, buf, me)
        [] type = TYPE_NACK -> Keeps(decodeNack(Verified(buf, me), GroupKey))
        [] type = TYPE_ACK -> Keeps(decodeAck(Verified(buf, me), GroupKey))
        [] type = TYPE_SYNC -> Keeps(decodeSync(stripControlFrame(buf), GroupKey))
        [] type = TYPE_DICT_RESET -> Keeps(decodeDictReset(stripControlFrame(buf), GroupKey))
        [] type = TYPE_KEY_SHARE -> Keeps(decodeKeyShare(buf, pairwiseKey(me, read(buf, 3, 2))))
        [] type = TYPE_MEMBER_INFO ->
             Keeps(IF memberInfoServerKey(buf) = BadFrame THEN BadFrame
                   ELSE decodeMemberInfo(buf, pairwiseKey(me, Relay)))
        [] OTHER -> Keeps(Nil)                       \* a KeyReq stops at the relay

\* The loop of the 'data' listeners: the complete frames of the buffer, and what
\* is left.  (Mutant: one frame per event.)
Complete(buf) == Len(buf) >= 2 /\ Len(buf) >= 2 + read(buf, 0, 2)

deframeOne(buf) ==
  IF Complete(buf)
  THEN [payloads |-> <<subarray(buf, 2, 2 + read(buf, 0, 2))>>, rest |-> from(buf, 2 + read(buf, 0, 2))]
  ELSE [payloads |-> <<>>, rest |-> buf]

RECURSIVE deframe(_)
deframe(buf) ==
  LET one == deframeOne(buf)
      more == deframe(one.rest)
  IN  IF one.payloads = <<>> THEN one
      ELSE [payloads |-> one.payloads \o more.payloads, rest |-> more.rest]

\* Up, the relay reads the frame and passes it to member 2; down, the client is
\* the only reader.
ReadUp(st, buf) ==
  LET relay == RelayReads(st.identity, buf)
      member == IF relay = Nil THEN [chain |-> st.peer, dart |-> Nil] ELSE MemberReads(st.peer, buf, Other)
  IN  [identity |-> Identified(st.identity, buf), peer |-> member.chain,
       reads |-> Append(st.reads, [relay |-> relay, dart |-> member.dart, held |-> st.peer # Nil])]

ReadDown(st, buf) ==
  [st EXCEPT !.reads = Append(@, [relay |-> Nil, dart |-> MemberReads(Nil, buf, Me).dart, held |-> FALSE])]

onData(dir, n) ==
  \E all \in {deframe(buffer[dir] \o SubSeq(pipe[dir], 1, n))} :
    LET after[k \in 0 .. Len(all.payloads)] ==
          IF k = 0 THEN [identity |-> identity, peer |-> peer, reads |-> <<>>]
          ELSE IF dir = "up" THEN ReadUp(after[k - 1], all.payloads[k]) ELSE ReadDown(after[k - 1], all.payloads[k])
    IN  \E done \in {after[Len(all.payloads)]} :
          /\ pipe' = [pipe EXCEPT ![dir] = SubSeq(@, n + 1, Len(@))]
          /\ buffer' = [buffer EXCEPT ![dir] = all.rest]
          /\ got' = [got EXCEPT ![dir] = @ \o done.reads]
          /\ identity' = done.identity /\ peer' = done.peer
          /\ UNCHANGED <<useFallback, conns, sent, own>>

-----------------------------------------------------------------------------
(* The connection.                                                         *)

Nothing == [dir \in Dir |-> <<>>]

Init ==
  /\ useFallback = FALSE /\ conns = 0 /\ identity = Nil
  /\ pipe = Nothing /\ buffer = Nothing /\ sent = Nothing /\ got = Nothing
  /\ own = Seed /\ peer = Nil

enableFallback ==
  /\ ~useFallback /\ conns < MaxConns
  /\ useFallback' = TRUE /\ conns' = conns + 1
  /\ UNCHANGED <<identity, pipe, buffer, sent, got, own, peer>>

\* The socket is destroyed at the client, and closes at the relay.
disableFallback ==
  /\ useFallback
  /\ useFallback' = FALSE /\ identity' = Nil
  /\ pipe' = Nothing /\ buffer' = Nothing /\ sent' = Nothing /\ got' = Nothing
  /\ UNCHANGED <<conns, own, peer>>

\* Where TCP may cut the stream: within the first bytes of a frame, before the
\* last byte, or not at all.
Cuts(dir) ==
  LET all == Len(pipe[dir])
  IN  ({all, all - 1} \union (IF Len(buffer[dir]) < Slow THEN {1} ELSE {})) \intersect 1 .. all

Next ==
  \/ enableFallback \/ disableFallback
  \/ \E d \in UpDarts : sendControl(d)
  \/ \E seq \in DataSeqs : sendData(seq)
  \/ \E state \in {own, Seed} : sendChainShare(state)
  \/ \E d \in DownDarts : sendToPeer(d)
  \/ \E dir \in Dir : \E n \in Cuts(dir) : onData(dir, n)

Spec == Init /\ [][Next]_vars

-----------------------------------------------------------------------------
(* Properties.                                                             *)

Agrees(reading, d) == reading # BadFrame /\ \A f \in DOMAIN reading : reading[f] = d[f]


\* The framing loops (server.ts, client.ts) leave no complete frame behind: when
\* the last byte written has arrived, every frame has been handed up and the
\* reader waits at a frame boundary.
NothingStuck ==
  \A dir \in Dir : pipe[dir] = <<>> => buffer[dir] = <<>> /\ Len(got[dir]) = Len(sent[dir])

\* advanceChain and handleChainShare (client.ts: "any valid state (at any index)
\* advances to the same keys"): wherever sends, lost frames, repeated and rewound
\* shares have taken the two ends of a chain, each holds the key of its index.
ChainInStep ==
  \A state \in {own, peer} \ {Nil} : state.key.steps = state.index
=============================================================================
