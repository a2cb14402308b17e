------------------------------- MODULE Frames -------------------------------
(***************************************************************************)
(* The wire format (class Codec and the control-frame functions of         *)
(* src/core.ts).  A frame is the sequence of its bytes; the offsets are    *)
(* the code's, counted from 0.  A byte of an integer field is a number     *)
(* below BYTE (256 in the code); a byte of a key, a fingerprint or a       *)
(* nonce is a value no integer field can be mistaken for.                  *)
(*                                                                         *)
(* AES-GCM (crypto, external) is modelled by what it promises: `Open'      *)
(* gives the plaintext back exactly under the key, nonce and associated    *)
(* data it was sealed with.  A pairwise key is the set of its two owners,  *)
(* since both derive the same secret.                                      *)
(***************************************************************************)
EXTENDS Integers, Sequences

CONSTANTS BYTE, GroupKey, BadFrame, RangeError

ASSUME FramesAssumption == BYTE \in Nat /\ BYTE > 24     \* extLen is one byte

-----------------------------------------------------------------------------
(* Buffers.                                                                *)

UInt(v, width) == [i \in 1 .. width |-> (v \div BYTE ^ (width - i)) % BYTE]

read(buf, offset, width) ==
  LET value[i \in 0 .. width] == IF i = 0 THEN 0 ELSE value[i - 1] * BYTE + buf[offset + i]
  IN  value[width]

\* writeUInt16BE throws when the value does not fit; the wider fields are
\* masked (& 0xFFFFFF, >>> 0).
Fits16(values) == \A v \in values : v < BYTE ^ 2
Mask24(v) == v % BYTE ^ 3
Mask32(v) == v % BYTE ^ 4

subarray(buf, from, to) == SubSeq(buf, from + 1, to)
from(buf, start) == subarray(buf, start, Len(buf))

\* Buffer.alloc(len) and the writes to it: pairs of an offset and bytes.
Written(len, writes) ==
  [i \in 1 .. len |->
     LET hits == {w \in DOMAIN writes : i - writes[w][1] \in 1 .. Len(writes[w][2])}
         last == CHOOSE w \in hits : \A v \in hits : v <= w
     IN  IF hits = {} THEN 0 ELSE writes[last][2][i - writes[last][1]]]

\* n opaque bytes that stand for x.
Bytes(x, n) == [i \in 1 .. n |-> <<x, i>>]
Nonce == Bytes("nonce", 12)

TAG_LEN == 16
Seal(key, nonce, aad, plain) ==
  [i \in 1 .. Len(plain) |-> <<"cipher", plain[i]>>]
    \o [i \in 1 .. TAG_LEN |-> <<"tag", <<key, nonce, aad, plain>>, i>>]

Open(key, nonce, aad, cipher) ==
  LET n == Len(cipher) - TAG_LEN
      plain == [i \in 1 .. n |-> cipher[i][2]]
  IN  IF n >= 0 /\ cipher = Seal(key, nonce, aad, plain) THEN plain ELSE BadFrame

\* The fields every frame but Data starts with, and those of a directed one.
Common(d) == << <<0, UInt(d.type, 1)>>, <<1, UInt(d.convId, 2)>>, <<3, UInt(d.senderId, 2)>> >>
Directed(d) == Common(d) \o << <<5, UInt(d.targetId, 2)>> >>

ReadCommon(buf) == [type |-> read(buf, 0, 1), convId |-> read(buf, 1, 2), senderId |-> read(buf, 3, 2)]
ReadDirected(buf) ==
  [type |-> read(buf, 0, 1), convId |-> read(buf, 1, 2), senderId |-> read(buf, 3, 2),
   targetId |-> read(buf, 5, 2)]

-----------------------------------------------------------------------------
(* Per-sender authentication of control frames.                            *)

CTRL_MAC_LEN == 32
pairwiseKey(me, peer) == {me, peer}
Mac(frame, key) == [i \in 1 .. CTRL_MAC_LEN |-> <<"mac", <<key, frame>>, i>>]

signControlFrame(frame, key) == frame \o Mac(frame, key)

stripControlFrame(frame) ==
  IF Len(frame) < CTRL_MAC_LEN THEN BadFrame ELSE subarray(frame, 0, Len(frame) - CTRL_MAC_LEN)

verifyControlFrame(frame, key) ==
  LET payload == stripControlFrame(frame)
  IN  IF payload # BadFrame /\ from(frame, Len(payload)) = Mac(payload, key) THEN payload ELSE BadFrame

-----------------------------------------------------------------------------
(* Data.                                                                   *)

encodeDataHelper(d, messageKey) ==
  LET prefix == Written(31, << <<0, UInt(d.type, 1)>>, <<1, UInt(d.convId, 2)>>,
                               <<3, UInt(Mask24(d.seq), 3)>>, <<6, UInt(24, 1)>>,
                               <<7, UInt(d.senderId, 2)>>, <<9, Nonce>>, <<21, UInt(d.epoch, 2)>>,
                               <<23, d.dictFp>>, <<27, UInt(Mask32(d.idx), 4)>> >>)
  IN  IF Fits16({d.convId, d.senderId, d.epoch})
      THEN prefix \o Seal(messageKey, Nonce, prefix, d.compressed)
      ELSE RangeError

decryptData(buf, messageKey) ==
  LET extLen == read(buf, 6, 1)
      prefix == subarray(buf, 0, 7 + extLen)
      plain == Open(messageKey, subarray(prefix, 9, 21), prefix, from(buf, 7 + extLen))
  IN  IF plain = BadFrame THEN BadFrame
      ELSE [type |-> read(buf, 0, 1), convId |-> read(buf, 1, 2), senderId |-> read(prefix, 7, 2),
            seq |-> read(buf, 3, 3), compressed |-> plain, dictFp |-> subarray(prefix, 23, 27),
            idx |-> read(prefix, 27, 4)]

-----------------------------------------------------------------------------
(* NACK: the gap list is in the clear.                                     *)

nackPrefixLen(missingCount) == 21 + missingCount * 3

encodeNack(d, key) ==
  LET count == Len(d.missingSeq)
      header == Written(nackPrefixLen(count),
                        Directed(d) \o << <<7, Nonce>>, <<19, UInt(count, 2)>> >>
                          \o [i \in 1 .. count |-> <<21 + (i - 1) * 3, UInt(Mask24(d.missingSeq[i]), 3)>>])
  IN  IF Fits16({d.convId, d.senderId, d.targetId, count})
      THEN header \o Seal(key, Nonce, header, <<>>)
      ELSE RangeError

parseNack(buf) ==
  LET count == read(buf, 19, 2)
  IN  IF Len(buf) < 21 THEN BadFrame
      ELSE IF Len(buf) < nackPrefixLen(count) THEN BadFrame
      ELSE [type |-> read(buf, 0, 1), convId |-> read(buf, 1, 2), senderId |-> read(buf, 3, 2),
            targetId |-> read(buf, 5, 2),
            missingSeq |-> [i \in 1 .. count |-> read(buf, 21 + (i - 1) * 3, 3)]]

decodeNack(buf, key) ==
  LET nack == parseNack(buf)
      headerLen == nackPrefixLen(Len(nack.missingSeq))
      header == subarray(buf, 0, headerLen)
  IN  IF nack = BadFrame \/ Len(buf) < headerLen + TAG_LEN THEN BadFrame
      ELSE IF Open(key, subarray(header, 7, 19), header, subarray(buf, headerLen, headerLen + TAG_LEN)) = BadFrame
      THEN BadFrame
      ELSE nack

-----------------------------------------------------------------------------
(* SYNC, Dict-Reset and ACK.                                               *)

encodeSync(d, key) ==
  LET header == Written(17, Common(d) \o << <<5, Nonce>> >>)
  IN  IF Fits16({d.convId, d.senderId})
      THEN header \o Seal(key, Nonce, header, UInt(Mask24(d.highestSeq), 3))
      ELSE RangeError

decodeSync(buf, key) ==
  LET header == subarray(buf, 0, 17)
      payload == Open(key, from(header, 5), header, from(buf, 17))
  IN  IF payload = BadFrame THEN BadFrame
      ELSE [type |-> read(buf, 0, 1), convId |-> read(buf, 1, 2), senderId |-> read(buf, 3, 2),
            highestSeq |-> read(payload, 0, 3)]

encodeDictReset(d, key) ==
  LET header == Written(19, Directed(d) \o << <<7, Nonce>> >>)
  IN  IF Fits16({d.convId, d.senderId, d.targetId})
      THEN header \o Seal(key, Nonce, header, <<>>)
      ELSE RangeError

decodeDictReset(buf, key) ==
  LET header == subarray(buf, 0, 19)
  IN  IF Len(buf) < 19 \/ Open(key, from(header, 7), header, from(buf, 19)) = BadFrame THEN BadFrame
      ELSE ReadDirected(buf)


encodeAck(d, key) ==
  LET header == Written(22, Directed(d) \o << <<7, UInt(Mask24(d.seq), 3)>>, <<10, Nonce>> >>)
  IN  IF Fits16({d.convId, d.senderId, d.targetId})
      THEN header \o Seal(key, Nonce, header, <<>>)
      ELSE RangeError

decodeAck(buf, key) ==
  LET header == subarray(buf, 0, 22)
  IN  IF Len(buf) < 22 \/ Open(key, from(header, 10), header, from(buf, 22)) = BadFrame THEN BadFrame
      ELSE [type |-> read(buf, 0, 1), convId |-> read(buf, 1, 2), senderId |-> read(buf, 3, 2),
            targetId |-> read(buf, 5, 2), seq |-> read(buf, 7, 3)]

-----------------------------------------------------------------------------
(* KeyReq and MEMBER_INFO: client and relay.                               *)

encodeKeyReq(d) ==
  IF Fits16({d.convId, d.senderId})
  THEN Written(5, Common(d)) \o d.reqNonce \o d.clientPubKey
  ELSE RangeError

decodeKeyReq(buf) ==
  [type |-> read(buf, 0, 1), convId |-> read(buf, 1, 2), senderId |-> read(buf, 3, 2),
   reqNonce |-> subarray(buf, 5, 21), clientPubKey |-> from(buf, 21)]

\* members is a sequence of records of an id and a public key.
encodeMemberInfo(d, transportKey) ==
  LET header == Written(5, Common(d))
      count == Len(d.members)
      payload == Written(1 + 2 + count * 67,
                         << <<0, UInt(IF d.creator THEN 1 ELSE 0, 1)>>, <<1, UInt(count, 2)>> >>
                           \o [i \in 1 .. count |-> <<3 + (i - 1) * 67, UInt(d.members[i].senderId, 2)>>]
                           \o [i \in 1 .. count |-> <<3 + (i - 1) * 67 + 2, d.members[i].pubKey>>])
  IN  IF Fits16({d.convId, d.senderId, count} \union {d.members[i].senderId : i \in 1 .. count})
      THEN header \o d.serverPubKey \o Nonce
             \o Seal(transportKey, Nonce, header \o d.serverPubKey \o Nonce, payload)
      ELSE RangeError

memberInfoServerKey(buf) == IF Len(buf) < 70 THEN BadFrame ELSE subarray(buf, 5, 70)

decodeMemberInfo(buf, transportKey) ==
  LET serverPubKey == subarray(buf, 5, 70)
      nonce == subarray(buf, 70, 82)
      payload == Open(transportKey, nonce, subarray(buf, 0, 5) \o serverPubKey \o nonce, from(buf, 82))
      Member(offset) == [senderId |-> read(payload, offset, 2),
                         pubKey |-> subarray(payload, offset + 2, offset + 67)]
  IN  IF Len(buf) < 5 + 65 + 12 + 16 \/ payload = BadFrame THEN BadFrame
      ELSE [type |-> read(buf, 0, 1), convId |-> read(buf, 1, 2), senderId |-> read(buf, 3, 2),
            serverPubKey |-> serverPubKey, creator |-> (read(payload, 0, 1) = 1),
            members |-> [i \in 1 .. read(payload, 1, 2) |-> Member(3 + (i - 1) * 67)]]

-----------------------------------------------------------------------------
(* Key and chain shares: member to member.                                 *)

SealedShare(d, transportKey, payload) ==
  LET header == Written(21, Directed(d) \o << <<7, UInt(d.epoch, 2)>>, <<9, Nonce>> >>)
  IN  IF Fits16({d.convId, d.senderId, d.targetId, d.epoch})
      THEN header \o Seal(transportKey, Nonce, header, payload)
      ELSE RangeError

OpenedShare(buf, transportKey) ==
  LET header == subarray(buf, 0, 21)
  IN  Open(transportKey, from(header, 9), header, from(buf, 21))

encodeKeyShare(d, transportKey) == SealedShare(d, transportKey, d.groupKey)

decodeKeyShare(buf, transportKey) ==
  LET groupKey == OpenedShare(buf, transportKey)
  IN  IF Len(buf) < 21 + 48 \/ groupKey = BadFrame THEN BadFrame
      ELSE [epoch |-> read(buf, 7, 2), groupKey |-> groupKey]

encodeChainShare(d, transportKey) ==
  SealedShare(d, transportKey, Written(36, << <<0, d.chainKey>>, <<32, UInt(Mask32(d.chainIndex), 4)>> >>))

decodeChainShare(buf, transportKey) ==
  LET payload == OpenedShare(buf, transportKey)
  IN  IF Len(buf) < 21 + 36 + 16 \/ payload = BadFrame THEN BadFrame
      ELSE [type |-> read(buf, 0, 1), convId |-> read(buf, 1, 2), senderId |-> read(buf, 3, 2),
            targetId |-> read(buf, 5, 2), epoch |-> read(buf, 7, 2),
            chainKey |-> subarray(payload, 0, 32), chainIndex |-> read(payload, 32, 4)]
=============================================================================
