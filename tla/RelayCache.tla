----------------------------- MODULE RelayCache -----------------------------
(***************************************************************************)
(* What the relay does with one sender's data packets: the cache of recent *)
(* packets it repairs NACKs from, and the highest sequence number it has   *)
(* relayed (the TYPE_DATA branch of handleMessage in src/server.ts).       *)
(* A cache is a function from sequence numbers to packets, NoBuf where     *)
(* nothing is cached; `highest` is NoSeq before the sender's first packet. *)
(***************************************************************************)
EXTENDS SeqArith

CONSTANTS CACHE_WINDOW,   \* packets kept behind the highest one (200)
          NoBuf,          \* the absent cache entry
          NoSeq           \* the absent baseline

ASSUME CacheAssumption == CACHE_WINDOW \in Nat /\ NoSeq \notin Int

EmptyCache == [k \in Seq24 |-> NoBuf]

\* The first packet a server sees is its baseline, as if it were exactly next.
CacheAhead(highest, seq) == IF highest = NoSeq THEN 1 ELSE seqDelta(highest, seq)

\* The modularly newer of the two: the point the window is measured from.
GcRefAlwaysSeq(highest, seq) == seq

GcRef(highest, seq) == IF IsStale(CacheAhead(highest, seq)) THEN highest ELSE seq

\* cacheMap.set(seq, buf), then the sliding-window collection.
CachePutNoGc(cache, highest, seq, buf) == [cache EXCEPT ![seq] = buf]

CachePut(cache, highest, seq, buf) ==
  LET ref == GcRef(highest, seq)
      all == [cache EXCEPT ![seq] = buf]
  IN  [k \in Seq24 |-> IF seqDelta(k, ref) > CACHE_WINDOW THEN NoBuf ELSE all[k]]

HighestPutUnmasked(highest, seq) ==
  IF IsAhead(CacheAhead(highest, seq)) THEN CacheAhead(highest, seq) + seq ELSE highest

HighestPut(highest, seq) ==
  IF IsAhead(CacheAhead(highest, seq)) THEN seq ELSE highest
=============================================================================
