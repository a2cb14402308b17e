----------------------------- MODULE MCFallback -----------------------------
(* Fallback for TLC: one dart of each type, with ids and counters at the   *)
(* ends of their ranges, and a key share whose epoch does not fit.         *)
EXTENDS Fallback

TopId == BYTE ^ 2 - 1
TopSeq == BYTE ^ 3 - 1

Header(type, convId) == [type |-> type, convId |-> convId, senderId |-> Me]
To(d, target) == [targetId |-> target] @@ d

MCUpDarts ==
  { [missingSeq |-> seqs] @@ To(Header(TYPE_NACK, 5), Other) : seqs \in {<<1>>, <<TopSeq, 0, 1>>} }
  \union
  { [highestSeq |-> TopSeq] @@ Header(TYPE_SYNC, TopId),
    [reqNonce |-> Bytes("req", 16), clientPubKey |-> Bytes("pub", 65)] @@ Header(TYPE_KEY_REQ, 0),
    To(Header(TYPE_DICT_RESET, 5), Other),
    [seq |-> TopSeq] @@ To(Header(TYPE_ACK, TopId), Other),
    [epoch |-> TopId, groupKey |-> Bytes("key", 32)] @@ To(Header(TYPE_KEY_SHARE, 5), Other),
    [epoch |-> TopId + 1, groupKey |-> Bytes("key", 32)] @@ To(Header(TYPE_KEY_SHARE, 5), Other) }

MCDownDarts ==
  { [serverPubKey |-> Bytes("server", 65), creator |-> TRUE,
     members |-> << [senderId |-> Me, pubKey |-> Bytes("pub", 65)],
                    [senderId |-> TopId, pubKey |-> Bytes("pub2", 65)] >>] @@ Header(TYPE_MEMBER_INFO, 5),
    [type |-> TYPE_ACK, convId |-> 5, senderId |-> TopId, targetId |-> Me, seq |-> 1] }

MCDataSeqs == {0, TopSeq}
=============================================================================
