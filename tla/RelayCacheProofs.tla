-------------------------- MODULE RelayCacheProofs --------------------------
(***************************************************************************)
(* Facts about the modular sequence-number arithmetic of src/core.ts, and  *)
(* what one data packet does to a relay's cache, for every modulus and     *)
(* every window.                                                           *)
(***************************************************************************)
EXTENDS RelayCache, TLAPS, WellFoundedInduction

\* The remainder on the two ranges a difference of sequence numbers falls in.
LEMMA ModLow ==
  ASSUME NEW x \in 0 .. SEQ_MOD - 1
  PROVE  x % SEQ_MOD = x
  BY SeqModAssumption, Z3

LEMMA ModNeg ==
  ASSUME NEW x \in Int, -SEQ_MOD <= x, x < 0
  PROVE  x % SEQ_MOD = x + SEQ_MOD
  BY SeqModAssumption, Z3

LEMMA ModHigh ==
  ASSUME NEW x \in Int, SEQ_MOD <= x, x < 2 * SEQ_MOD
  PROVE  x % SEQ_MOD = x - SEQ_MOD
  BY SeqModAssumption, Z3

\* seqDelta on two sequence numbers, without the remainder.
LEMMA DeltaCases ==
  ASSUME NEW a \in Seq24, NEW b \in Seq24
  PROVE  seqDelta(a, b) = IF a <= b THEN b - a ELSE b - a + SEQ_MOD
  <1>1. CASE a <= b
    BY <1>1, ModLow, SeqModAssumption DEF seqDelta, Seq24
  <1>2. CASE ~(a <= b)
    BY <1>2, ModNeg, SeqModAssumption DEF seqDelta, Seq24
  <1> QED BY <1>1, <1>2

\* A delta of sequence numbers is a sequence number, and is zero exactly for
\* equal ones: "0 is a duplicate" is sound.
THEOREM DeltaType ==
  ASSUME NEW a \in Seq24, NEW b \in Seq24
  PROVE  /\ seqDelta(a, b) \in Seq24
         /\ seqDelta(a, b) = 0 <=> a = b
  BY DeltaCases, SeqModAssumption DEF Seq24

\* The two deltas of different sequence numbers add up to the modulus.
LEMMA DeltaInverse ==
  ASSUME NEW a \in Seq24, NEW b \in Seq24, a # b
  PROVE  seqDelta(a, b) + seqDelta(b, a) = SEQ_MOD
  BY DeltaCases, SeqModAssumption DEF Seq24

\* "Stale" and "ahead" cannot both be claimed: when b is ahead of a, then a is
\* stale as seen from b.  This is what lets highestSeq only move forward.
THEOREM AheadIsAntisymmetric ==
  ASSUME NEW a \in Seq24, NEW b \in Seq24, IsAhead(seqDelta(a, b))
  PROVE  IsStale(seqDelta(b, a)) /\ ~IsAhead(seqDelta(b, a))
  BY DeltaCases, SeqModAssumption DEF Seq24, IsAhead, IsStale

\* The successor is exactly one ahead, across the wrap too.
THEOREM NextIsOneAhead ==
  ASSUME NEW a \in Seq24
  PROVE  /\ seqNext(a) \in Seq24
         /\ seqDelta(a, seqNext(a)) = 1
         /\ IsAhead(seqDelta(a, seqNext(a)))
  <1>1. CASE a + 1 < SEQ_MOD
    <2>1. seqNext(a) = a + 1
      BY <1>1, ModLow, SeqModAssumption DEF seqNext, Seq24
    <2> QED BY <1>1, <2>1, DeltaCases, SeqModAssumption DEF Seq24, IsAhead, IsStale
  <1>2. CASE a + 1 = SEQ_MOD
    <2>1. seqNext(a) = 0
      BY <1>2, ModHigh, SeqModAssumption DEF seqNext, Seq24
    <2> QED BY <1>2, <2>1, DeltaCases, SeqModAssumption DEF Seq24, IsAhead, IsStale
  <1> QED BY <1>1, <1>2, SeqModAssumption DEF Seq24

\* Deltas compose modularly: the distance over a middle point is the sum of
\* the parts, or the sum less one turn.
LEMMA DeltaCompose ==
  ASSUME NEW a \in Seq24, NEW b \in Seq24, NEW c \in Seq24
  PROVE  LET sum == seqDelta(a, b) + seqDelta(b, c)
         IN  seqDelta(a, c) = IF sum < SEQ_MOD THEN sum ELSE sum - SEQ_MOD
  BY DeltaCases, SeqModAssumption DEF Seq24

\* Division with remainder.
LEMMA ModSplit ==
  ASSUME NEW M \in Nat, M > 0, NEW x \in Int
  PROVE  x = M * (x \div M) + (x % M) /\ x \div M \in Int /\ x % M \in 0 .. M - 1
  BY Z3

LEMMA ModUnique ==
  ASSUME NEW M \in Nat, M > 0, NEW x \in Int, NEW q \in Int, NEW r \in 0 .. M - 1, x = M * q + r
  PROVE  x % M = r
  BY Z3

LEMMA ModSum ==
  ASSUME NEW M \in Nat, M > 0, NEW x \in Int, NEW k \in Int
  PROVE  ((x % M) + k) % M = (x + k) % M
  <1> DEFINE y == (x % M) + k
             p == x \div M
             q == y \div M
             r == y % M
  <1>1. x = M * p + (x % M) /\ p \in Int /\ x % M \in Int
    BY ModSplit
  <1>2. y \in Int
    BY <1>1
  <1>3. y = M * q + r /\ q \in Int /\ r \in 0 .. M - 1
    BY <1>2, ModSplit
  <1> HIDE DEF p, q, r
  <1>4. x + k = M * (p + q) + r /\ p + q \in Int
    BY <1>1, <1>3, Z3
  <1>5. (x + k) % M = r
    BY <1>3, <1>4, ModUnique
  <1> QED BY <1>5 DEF r

\* The numbers two messages travel under are as far apart as the messages.
LEMMA DeltaOf ==
  ASSUME NEW a \in Int, NEW b \in Int
  PROVE  seqDelta(a % SEQ_MOD, b % SEQ_MOD) = (b - a) % SEQ_MOD
  <1> DEFINE M == SEQ_MOD
  <1>1. M \in Nat /\ M > 0
    BY SeqModAssumption
  <1> HIDE DEF M
  <1> DEFINE p == a \div M
             ra == a % M
             q == b \div M
             rb == b % M
             x == rb - ra
             n == x \div M
             r == x % M
  <1>2. a = M * p + ra /\ p \in Int /\ ra \in Int
    BY <1>1, ModSplit
  <1>3. b = M * q + rb /\ q \in Int /\ rb \in Int
    BY <1>1, ModSplit
  <1> HIDE DEF p, ra, q, rb
  <1>4. x \in Int
    BY <1>2, <1>3
  <1>5. x = M * n + r /\ n \in Int /\ r \in 0 .. M - 1
    BY <1>1, <1>4, ModSplit
  <1> HIDE DEF n, r
  <1>6. b - a = M * (q - p + n) + r
    BY <1>1, <1>2, <1>3, <1>5, Z3
  <1>7. b - a \in Int /\ q - p + n \in Int
    BY <1>2, <1>3, <1>5
  <1>8. (b - a) % M = r
    BY <1>1, <1>5, <1>6, <1>7, ModUnique
  <1> QED BY <1>8 DEF seqDelta, M, ra, rb, r

\* Within half a turn the verdicts on the numbers are those on the messages.
LEMMA Verdicts ==
  ASSUME NEW a \in Int, NEW b \in Int, 2 * (b - a) < SEQ_MOD, 2 * (a - b) < SEQ_MOD
  PROVE  LET delta == seqDelta(a % SEQ_MOD, b % SEQ_MOD)
         IN  /\ delta \in Nat
             /\ b >= a => delta = b - a
             /\ IsAhead(delta) <=> b > a
             /\ IsStale(delta) <=> b < a
             /\ a % SEQ_MOD = b % SEQ_MOD <=> a = b
  <1> DEFINE delta == seqDelta(a % SEQ_MOD, b % SEQ_MOD)
  <1>0. SEQ_MOD \in Nat /\ SEQ_MOD > 0
    BY SeqModAssumption
  <1>1. delta = (b - a) % SEQ_MOD
    BY DeltaOf
  <1>2. a % SEQ_MOD \in Seq24 /\ b % SEQ_MOD \in Seq24
    BY <1>0, ModSplit DEF Seq24
  <1>3. delta = 0 <=> a % SEQ_MOD = b % SEQ_MOD
    BY <1>2, DeltaType
  <1> HIDE DEF delta
  <1>4. CASE b >= a
    <2>1. delta = b - a
      BY <1>0, <1>1, <1>4, ModLow
    <2>2. delta = 0 <=> a = b
      BY <2>1
    <2>3. delta \in Nat /\ (IsAhead(delta) <=> b > a) /\ (IsStale(delta) <=> b < a)
      BY <1>0, <1>4, <2>1 DEF IsAhead, IsStale
    <2> QED BY <1>3, <2>1, <2>2, <2>3 DEF delta
  <1>5. CASE b < a
    <2>1. delta = b - a + SEQ_MOD
      BY <1>0, <1>1, <1>5, ModNeg
    <2>2. delta # 0 /\ a # b
      BY <1>0, <1>5, <2>1
    <2>3. delta \in Nat /\ (IsAhead(delta) <=> b > a) /\ (IsStale(delta) <=> b < a)
      BY <1>0, <1>5, <2>1 DEF IsAhead, IsStale
    <2>4. ~(b >= a)
      BY <1>5
    <2> QED BY <1>3, <2>2, <2>3, <2>4 DEF delta
  <1> QED BY <1>4, <1>5

\* The election of a successor always has a smallest id to choose.
LEMMA SmallestExists ==
  ASSUME NEW S \in SUBSET Nat, S # {}
  PROVE  \E m \in S : \A n \in S : m <= n
  <1>1. PICK m \in S : \A n \in S : ~(<<n, m>> \in OpToRel(<, Nat))
    BY NatLessThanWellFounded, WFMin
  <1>2. \A n \in S : ~(n < m)
    BY <1>1 DEF OpToRel
  <1> QED BY <1>2

-----------------------------------------------------------------------------
(* The relay's cache.                                                      *)

\* The collection's reference point is the highest packet after the update.
LEMMA RefIsHighest ==
  ASSUME NEW h \in Seq24 \union {NoSeq}, NEW q \in Seq24
  PROVE  /\ HighestPut(h, q) \in Seq24
         /\ GcRef(h, q) = HighestPut(h, q)
  <1>1. CASE h = NoSeq
    BY <1>1, SeqModAssumption DEF HighestPut, GcRef, CacheAhead, IsAhead, IsStale
  <1>2. CASE h # NoSeq
    <2>1. h \in Seq24
      BY <1>2
    <2>2. seqDelta(h, q) \in Seq24 /\ (seqDelta(h, q) = 0 <=> h = q)
      BY <2>1, DeltaType
    <2> QED BY <1>2, <2>1, <2>2, SeqModAssumption
            DEF HighestPut, GcRef, CacheAhead, IsAhead, IsStale, Seq24
  <1> QED BY <1>1, <1>2

\* What one data packet does to a cache: its entries stay in the window, the
\* newest packet is in it, and what leaves it is out of the window.
CacheOf(Packets) == [Seq24 -> Packets \union {NoBuf}]

Slides(old, new, top) ==
  /\ top \in Seq24
  /\ new[top] # NoBuf
  /\ \A k \in Seq24 : new[k] # NoBuf => seqDelta(k, top) <= CACHE_WINDOW
  /\ \A k \in Seq24 : old[k] # NoBuf /\ new[k] = NoBuf => seqDelta(k, top) > CACHE_WINDOW

LEMMA CachePutFacts ==
  ASSUME NEW Packets, NoBuf \notin Packets, NEW old \in CacheOf(Packets),
         NEW h \in Seq24 \union {NoSeq}, NEW q \in Seq24, NEW b \in Packets,
         h # NoSeq => old[h] # NoBuf
  PROVE  Slides(old, CachePut(old, h, q, b), HighestPut(h, q))
  <1> DEFINE all == [old EXCEPT ![q] = b]
             new == CachePut(old, h, q, b)
             nh == HighestPut(h, q)
  <1>1. nh \in Seq24 /\ GcRef(h, q) = nh
    BY RefIsHighest
  <1>2. new = [k \in Seq24 |-> IF seqDelta(k, nh) > CACHE_WINDOW THEN NoBuf ELSE all[k]]
    BY <1>1 DEF CachePut
  <1>3. all \in [Seq24 -> Packets \union {NoBuf}] /\ all[q] = b /\ b # NoBuf
    BY DEF CacheOf
  <1>4. \A k \in Seq24 : seqDelta(k, nh) \in Int
    BY <1>1, DeltaType DEF Seq24
  <1>5. seqDelta(nh, nh) = 0
    BY <1>1, DeltaType
  <1>6. all[nh] # NoBuf
    <2>1. nh = q \/ (nh = h /\ h # NoSeq)
      BY <1>1, CacheAssumption DEF HighestPut, Seq24
    <2> QED BY <2>1, <1>1, <1>3
  <1>7. \A k \in Seq24 : old[k] # NoBuf => all[k] # NoBuf
    BY <1>3 DEF CacheOf
  <1> HIDE DEF all, new, nh
  <1>8. Slides(old, new, nh)
    BY <1>1, <1>2, <1>3, <1>4, <1>5, <1>6, <1>7, CacheAssumption DEF Slides
  <1> QED BY <1>8 DEF new, nh
=============================================================================
