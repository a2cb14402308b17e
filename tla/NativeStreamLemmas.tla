------------------------- MODULE NativeStreamLemmas -------------------------
(***************************************************************************)
(* The command-line client's stream, for every set of receivers and every  *)
(* window, modulus and bound of NativeAssumption.  First the receiver in   *)
(* the middle of a handler: standing at message p of a stream of T, it     *)
(* moves forward, and is handed what it passes in order.  Then the         *)
(* inductive invariant, and that the sender's and the relay's actions keep *)
(* it.                                                                     *)
(***************************************************************************)
EXTENDS NativeStream, RelayCacheProofs, FiniteSetTheorems

-----------------------------------------------------------------------------
(* Numbers.  T stands for the number of messages on the wire.  Every       *)
(* packet under way, kept or buffered is of a message not older than the   *)
(* windows reach back from the first new one; so two of them are less than *)
(* half a turn of the sequence numbers apart.                               *)

Near(T) == T \in Nat /\ Prior <= T /\ T <= Prior + MaxTyped + 1

Known(n, T) ==
  /\ n \in Nat /\ n >= 1 /\ n <= T
  /\ Prior <= n + CACHE_WINDOW \/ Prior <= n + DICT_WINDOW + SLACK

Bounds ==
  /\ Prior \in Nat /\ MaxTyped \in Nat /\ DICT_WINDOW \in Nat /\ SLACK \in Nat /\ CACHE_WINDOW \in Nat
  /\ SEQ_MOD \in Nat /\ SEQ_MOD > 3
  /\ 2 * (DICT_WINDOW + SLACK + MaxTyped + 1) < SEQ_MOD
  /\ 2 * (CACHE_WINDOW + MaxTyped + 1) < SEQ_MOD

LEMMA BoundsHold == Bounds
  BY NativeAssumption, CacheAssumption, SeqModAssumption DEF Bounds

LEMMA KnownClose ==
  ASSUME NEW T, Near(T), NEW p \in Prior .. T, NEW n, Known(n, T)
  PROVE  2 * (n - p) < SEQ_MOD /\ 2 * (p - n) < SEQ_MOD /\ n \in Int /\ p \in Int
  <1>1. Bounds /\ p \in Nat
    BY BoundsHold DEF Bounds
  <1>2. n - p <= MaxTyped + 1
    BY <1>1 DEF Bounds, Near, Known
  <1>3. p - n <= CACHE_WINDOW + MaxTyped + 1 \/ p - n <= DICT_WINDOW + SLACK + MaxTyped + 1
    BY <1>1 DEF Bounds, Near, Known
  <1>4. n \in Nat
    BY DEF Known
  <1> QED BY <1>1, <1>2, <1>3, <1>4 DEF Bounds

LEMMA PositionsClose ==
  ASSUME NEW T, Near(T), NEW p \in Prior .. T, NEW q \in Prior .. T
  PROVE  2 * (q - p) < SEQ_MOD /\ 2 * (p - q) < SEQ_MOD /\ q \in Int /\ p \in Int
  BY BoundsHold DEF Bounds, Near

LEMMA SeqOfType ==
  ASSUME NEW n \in Int
  PROVE  SeqOf(n) \in Seq24 /\ SeqOf(n) # NoSeq
  <1>1. SeqOf(n) \in 0 .. SEQ_MOD - 1
    BY ModSplit, SeqModAssumption DEF SeqOf
  <1> QED BY <1>1, CacheAssumption, SeqModAssumption DEF Seq24

LEMMA SeqOfZero == SeqOf(0) = 0
  BY ModLow, SeqModAssumption DEF SeqOf

\* Messages less than a turn apart travel under different numbers.
LEMMA SeqOfDiffers ==
  ASSUME NEW a \in Int, NEW b \in Int, a < b, b - a < SEQ_MOD
  PROVE  SeqOf(a) # SeqOf(b)
  <1>1. seqDelta(SeqOf(a), SeqOf(b)) = (b - a) % SEQ_MOD
    BY DeltaOf DEF SeqOf
  <1>2. (b - a) % SEQ_MOD = b - a
    BY ModLow, SeqModAssumption
  <1>3. SeqOf(a) \in Seq24 /\ SeqOf(b) \in Seq24
    BY SeqOfType
  <1> QED BY <1>1, <1>2, <1>3, DeltaType

-----------------------------------------------------------------------------
(* A receiver in the middle of a handler: st stands at message p.          *)

DataField == {"type", "to", "seq", "id", "idx", "dict"}

Datum(m, T) ==
  /\ m = [f \in DataField |-> m[f]] /\ m.type = "DATA" /\ Known(m.id, T) /\ m.seq = SeqOf(m.id)

Stands(st, p, T) == p \in Prior .. T /\ IF st.hi = NoSeq THEN p = 0 ELSE st.hi = SeqOf(p)

\* What was handed up is in order and not beyond p.
Handed(up, p) ==
  /\ up \in Seq(Nat)
  /\ \A i \in 1 .. Len(up) : Prior < up[i] /\ up[i] <= p
  /\ \A i, j \in 1 .. Len(up) : i < j => up[i] < up[j]

\* The pending ACK is for a message handed up.
AckDue(st) == st.ack # NoSeq => \E i \in 1 .. Len(st.up) : st.ack = SeqOf(st.up[i])

RxField == {"hi", "hist", "buffer", "overdue", "waiting", "chain", "ack", "up", "nack", "reset"}
RxRec(st) == st = [f \in RxField |-> st[f]]

Buffered(st, T) == IsFiniteSet(st.buffer) /\ \A m \in st.buffer : Datum(m, T)

\* The history is of messages sent, and what is asked for is a number.
Sorted(st, T) ==
  /\ st.hist \subseteq 1 .. T /\ st.overdue \subseteq Seq24 /\ st.waiting \in Seq(SUBSET Seq24)
  /\ st.nack \subseteq Seq24

RxOk(st, p, T) ==
  /\ RxRec(st) /\ Stands(st, p, T) /\ Buffered(st, T) /\ Handed(st.up, p) /\ AckDue(st) /\ Sorted(st, T)

\* From st, at p, to t, at q.
Moves(st, t, p, q, T) == RxOk(t, q, T) /\ p <= q /\ Abstract!Continues(st.up, t.up, p + 1, q)

LEMMA StandsInt ==
  ASSUME NEW T, Near(T), NEW st, NEW p, Stands(st, p, T)
  PROVE  p \in Nat /\ p \in Prior .. T /\ T \in Nat /\ Prior \in Nat
  BY BoundsHold DEF Bounds, Near, Stands

LEMMA MovesStill ==
  ASSUME NEW T, Near(T), NEW st, NEW t, NEW p, RxOk(t, p, T), t.up = st.up
  PROVE  Moves(st, t, p, p, T)
  <1>1. p \in Nat /\ t.up \in Seq(Nat)
    BY StandsInt DEF RxOk, Handed
  <1>2. Len(st.up) \in Nat /\ Len(t.up) = Len(st.up)
    BY <1>1
  <1>3. Abstract!Continues(st.up, t.up, p + 1, p)
    BY <1>1, <1>2 DEF Abstract!Continues
  <1> QED BY <1>1, <1>3 DEF Moves

LEMMA MovesOn ==
  ASSUME NEW T, Near(T), NEW st, NEW t, NEW u, NEW p, NEW q, NEW n, RxOk(st, p, T), Moves(st, t, p, q, T),
         Moves(t, u, q, n, T)
  PROVE  Moves(st, u, p, n, T)
  <1>1. p \in Nat /\ q \in Nat /\ n \in Nat /\ p <= q /\ q <= n
    BY StandsInt DEF RxOk, Moves
  <1>2. Len(st.up) \in Nat /\ Len(t.up) \in Nat /\ Len(u.up) \in Nat /\ t.up \in Seq(Nat) /\ u.up \in Seq(Nat)
    BY DEF RxOk, Moves, Handed
  <1>3. Handed(u.up, n) /\ Handed(t.up, q)
    BY DEF RxOk, Moves
  <1>4. Abstract!Continues(st.up, t.up, p + 1, q) /\ Abstract!Continues(t.up, u.up, q + 1, n)
    BY DEF Moves
  <1>5. /\ Len(st.up) <= Len(u.up)
        /\ \A i \in 1 .. Len(st.up) : u.up[i] = st.up[i]
    BY <1>2, <1>4 DEF Abstract!Continues
  <1>6. ASSUME NEW i \in Len(st.up) + 1 .. Len(u.up)
        PROVE  p + 1 <= u.up[i] /\ u.up[i] <= n
    <2>1. CASE i <= Len(t.up)
      <3>1. i \in Len(st.up) + 1 .. Len(t.up) /\ i \in 1 .. Len(t.up)
        BY <1>2, <2>1
      <3>2. p + 1 <= t.up[i] /\ t.up[i] <= q
        BY <1>4, <3>1 DEF Abstract!Continues
      <3>3. u.up[i] = t.up[i]
        BY <1>4, <3>1 DEF Abstract!Continues
      <3>4. t.up[i] \in Nat
        <4>1. \A s \in Seq(Nat) : \A j \in 1 .. Len(s) : s[j] \in Nat
          OBVIOUS
        <4> QED BY <1>2, <3>1, <4>1, Zenon
      <3> QED BY <1>1, <3>2, <3>3, <3>4
    <2>2. CASE i > Len(t.up)
      <3>1. q + 1 <= u.up[i] /\ u.up[i] <= n /\ u.up[i] \in Nat
        BY <1>2, <1>4, <2>2 DEF Abstract!Continues
      <3> QED BY <1>1, <3>1
    <2> QED BY <1>2, <2>1, <2>2
  <1>7. \A i, j \in Len(st.up) + 1 .. Len(u.up) : i < j => u.up[i] < u.up[j]
    BY <1>2, <1>3 DEF Handed
  <1>8. Abstract!Continues(st.up, u.up, p + 1, n)
    BY <1>5, <1>6, <1>7 DEF Abstract!Continues
  <1>9. p <= n
    BY <1>1
  <1> QED BY <1>8, <1>9 DEF Moves

\* The numbers that follow st's are those of the messages that follow p.
LEMMA FollowingIs ==
  ASSUME NEW T, Near(T), NEW st, NEW p, Stands(st, p, T), NEW k \in Int
  PROVE  Following(st, k) = SeqOf(p + k) /\ OrZero(st.hi) = SeqOf(p)
  <1>1. OrZero(st.hi) = SeqOf(p) /\ p \in Nat
    BY SeqOfZero, StandsInt DEF Stands, OrZero
  <1>2. SEQ_MOD \in Nat /\ SEQ_MOD > 0 /\ p \in Int
    BY <1>1, SeqModAssumption
  <1>3. ((p % SEQ_MOD) + k) % SEQ_MOD = (p + k) % SEQ_MOD
    BY <1>2, ModSum
  <1> QED BY <1>1, <1>3 DEF Following, SeqOf

\* processDataPacket takes a message beyond p.
LEMMA AcceptMoves ==
  ASSUME NEW T, Near(T), NEW st, NEW p, RxOk(st, p, T), NEW m, Datum(m, T), m.id > p,
         getDictionary(st.hist, m.seq) = m.dict
  PROVE  Moves(st, Accept(st, m), p, m.id, T) /\ Accept(st, m).buffer = st.buffer
  <1> DEFINE hi == IF st.hi = NoSeq \/ IsAhead(seqDelta(st.hi, m.seq)) THEN m.seq ELSE st.hi
             a == [st EXCEPT !.hi = hi, !.hist = KeptHistory(@ \union {m.id}, hi), !.ack = m.seq,
                             !.up = Append(@, inflateData(m, getDictionary(st.hist, m.seq)))]
             t == PrunedStamps(a)
  <1>1. Accept(st, m) = t
    BY DEF Accept
  <1>2. p \in Nat /\ p \in Prior .. T /\ m.id \in Nat /\ m.seq = SeqOf(m.id) /\ m.id \in Prior .. T /\ T \in Nat
    BY StandsInt, BoundsHold DEF RxOk, Datum, Known, Bounds
  <1>3. hi = SeqOf(m.id)
    <2>1. CASE st.hi = NoSeq
      BY <1>2, <2>1
    <2>2. CASE st.hi # NoSeq
      <3>1. st.hi = SeqOf(p)
        BY <2>2 DEF RxOk, Stands
      <3>2. IsAhead(seqDelta(SeqOf(p), SeqOf(m.id)))
        BY <1>2, PositionsClose, Verdicts DEF SeqOf
      <3> QED BY <1>2, <3>1, <3>2
    <2> QED BY <2>1, <2>2
  <1> HIDE DEF hi
  <1>4. inflateData(m, getDictionary(st.hist, m.seq)) = m.id
    BY DEF inflateData
  <1>5. RxRec(st)
    BY DEF RxOk
  <1>6. /\ RxRec(t) /\ t.hi = hi /\ t.buffer = st.buffer /\ t.ack = m.seq /\ t.up = Append(st.up, m.id)
        /\ t.nack = st.nack /\ t.hist = KeptHistory(st.hist \union {m.id}, hi)
        /\ t.overdue = {i \in st.overdue : Recent(i, hi)}
        /\ t.waiting = [b \in 1 .. Len(st.waiting) |-> {i \in st.waiting[b] : Recent(i, hi)}]
    <2>1. /\ RxRec(a) /\ a.hi = hi /\ a.buffer = st.buffer /\ a.ack = m.seq /\ a.up = Append(st.up, m.id)
          /\ a.nack = st.nack /\ a.hist = KeptHistory(st.hist \union {m.id}, hi)
          /\ a.overdue = st.overdue /\ a.waiting = st.waiting
      BY <1>4, <1>5 DEF RxRec, RxField
    <2> HIDE DEF a
    <2> QED BY <2>1 DEF PrunedStamps, RxRec, RxField
  <1> HIDE DEF t
  <1>7. st.up \in Seq(Nat) /\ Len(st.up) \in Nat /\ Handed(st.up, p)
    BY DEF RxOk, Handed
  <1>8. /\ t.up \in Seq(Nat) /\ Len(t.up) = Len(st.up) + 1 /\ t.up[Len(t.up)] = m.id
        /\ \A i \in 1 .. Len(st.up) : t.up[i] = st.up[i]
    BY <1>2, <1>6, <1>7
  <1>9. Handed(t.up, m.id)
    <2>1. ASSUME NEW i \in 1 .. Len(t.up)
          PROVE  Prior < t.up[i] /\ t.up[i] <= m.id /\ (i # Len(t.up) => t.up[i] < m.id)
      <3>1. CASE i = Len(t.up)
        <4>1. Prior \in Nat
          BY BoundsHold DEF Bounds
        <4> QED BY <1>2, <1>8, <3>1, <4>1
      <3>2. CASE i # Len(t.up)
        <4>1. i \in 1 .. Len(st.up)
          BY <1>7, <1>8, <3>2
        <4>2. Prior < st.up[i] /\ st.up[i] <= p /\ st.up[i] \in Nat
          BY <1>7, <4>1 DEF Handed
        <4>3. t.up[i] = st.up[i]
          BY <1>8, <4>1
        <4> QED BY <1>2, <4>2, <4>3
      <3> QED BY <3>1, <3>2
    <2>2. ASSUME NEW i \in 1 .. Len(t.up), NEW j \in 1 .. Len(t.up), i < j
          PROVE  t.up[i] < t.up[j]
      <3> DEFINE k == Len(st.up)
      <3>0. k \in Nat /\ Len(t.up) = k + 1
        BY <1>7, <1>8
      <3> HIDE DEF k
      <3>4. i \in 1 .. k /\ i # k + 1
        BY <2>2, <3>0
      <3>1. i \in 1 .. Len(st.up) /\ i # Len(t.up)
        BY <3>0, <3>4 DEF k
      <3>2. CASE j = Len(t.up)
        BY <1>8, <2>1, <3>1, <3>2
      <3>3. CASE j # Len(t.up)
        <4>1. j \in 1 .. Len(st.up)
          BY <1>7, <1>8, <3>3
        <4> QED BY <1>7, <1>8, <2>2, <3>1, <4>1 DEF Handed
      <3> QED BY <3>2, <3>3
    <2> QED BY <1>8, <2>1, <2>2 DEF Handed
  <1>10. Stands(t, m.id, T)
    BY <1>2, <1>3, <1>6, SeqOfType DEF Stands
  <1>11. AckDue(t)
    BY <1>2, <1>6, <1>7, <1>8 DEF AckDue
  <1>12. RxOk(t, m.id, T)
    <2>1. Sorted(st, T)
      BY DEF RxOk
    <2>2. t.hist \subseteq 1 .. T
      <3>1. m.id \in 1 .. T
        BY DEF Datum, Known
      <3> QED BY <1>6, <2>1, <3>1 DEF Sorted, KeptHistory
    <2>3. t.waiting \in Seq(SUBSET Seq24)
      BY <1>6, <2>1 DEF Sorted
    <2>4. Sorted(t, T)
      BY <1>6, <2>1, <2>2, <2>3 DEF Sorted
    <2> QED BY <1>6, <1>9, <1>10, <1>11, <2>4 DEF RxOk, Buffered
  <1>13. Abstract!Continues(st.up, t.up, p + 1, m.id)
    <2>1. \A i \in Len(st.up) + 1 .. Len(t.up) : i = Len(t.up)
      BY <1>7, <1>8
    <2>2. p + 1 <= m.id /\ Len(st.up) <= Len(t.up)
      BY <1>2, <1>7, <1>8
    <2> QED BY <1>2, <1>7, <1>8, <2>1, <2>2 DEF Abstract!Continues
  <1>14. p <= m.id
    BY <1>2
  <1> QED BY <1>1, <1>6, <1>12, <1>13, <1>14 DEF Moves

-----------------------------------------------------------------------------
(* The receiver's steps.                                                   *)

\* decryptDataInOrder and processDataPacket on a message beyond p.
LEMMA ProcessMoves ==
  ASSUME NEW T, Near(T), NEW st, NEW p, RxOk(st, p, T), NEW m, Datum(m, T), m.id > p
  PROVE  \E q \in p .. m.id : /\ Moves(st, DecryptAndProcess(st, m), p, q, T)
                              /\ DecryptAndProcess(st, m).buffer = st.buffer
  <1> DEFINE s == [st EXCEPT !.chain = m.idx + 1]
  <1>1. p \in Nat /\ m.id \in Nat /\ RxRec(st) /\ p \in p .. m.id /\ m.id \in p .. m.id
    <2>1. p \in Nat /\ m.id \in Nat /\ RxRec(st)
      BY StandsInt DEF RxOk, Datum, Known
    <2> QED BY <2>1
  <1>2. RxOk(s, p, T) /\ s.up = st.up /\ s.buffer = st.buffer
    <2>1. /\ RxRec(s) /\ s.hi = st.hi /\ s.buffer = st.buffer /\ s.up = st.up /\ s.ack = st.ack
          /\ s.nack = st.nack /\ s.hist = st.hist /\ s.overdue = st.overdue /\ s.waiting = st.waiting
      BY <1>1 DEF RxRec, RxField
    <2> HIDE DEF s
    <2> QED BY <2>1 DEF RxOk, Stands, Buffered, AckDue, Sorted
  <1>3. CASE ~Decrypts(st, m)
    BY <1>1, <1>3, MovesStill DEF DecryptAndProcess
  <1>4. CASE Decrypts(st, m)
    <2>1. DecryptAndProcess(st, m) = processDataPacket(s, m)
      BY <1>4 DEF DecryptAndProcess
    <2> HIDE DEF s
    <2>2. CASE getDictionary(s.hist, m.seq) # m.dict
      <3> DEFINE t == [s EXCEPT !.hist = {}, !.reset = TRUE]
      <3>1. processDataPacket(s, m) = t
        BY <2>2 DEF processDataPacket
      <3>2. RxRec(s)
        BY <1>2 DEF RxOk
      <3>3. /\ RxRec(t) /\ t.hi = s.hi /\ t.buffer = s.buffer /\ t.up = s.up /\ t.ack = s.ack
            /\ t.nack = s.nack /\ t.hist = {} /\ t.overdue = s.overdue /\ t.waiting = s.waiting
        BY <3>2 DEF RxRec, RxField
      <3> HIDE DEF t
      <3>4. RxOk(t, p, T)
        BY <1>2, <3>3 DEF RxOk, Stands, Buffered, AckDue, Sorted
      <3> QED BY <1>1, <1>2, <2>1, <3>1, <3>3, <3>4, MovesStill
    <2>3. CASE getDictionary(s.hist, m.seq) = m.dict /\ HasSeq(s.hist, m.seq)
      <3>1. processDataPacket(s, m) = s
        BY <2>3 DEF processDataPacket
      <3> QED BY <1>1, <1>2, <2>1, <3>1, MovesStill
    <2>4. CASE getDictionary(s.hist, m.seq) = m.dict /\ ~HasSeq(s.hist, m.seq)
      <3>1. processDataPacket(s, m) = Accept(s, m)
        BY <2>4 DEF processDataPacket
      <3>2. Moves(s, Accept(s, m), p, m.id, T) /\ Accept(s, m).buffer = s.buffer
        BY <1>2, <2>4, AcceptMoves
      <3>3. Moves(st, Accept(s, m), p, m.id, T)
        BY <1>2, <3>2 DEF Moves
      <3> QED BY <1>1, <1>2, <2>1, <3>1, <3>2, <3>3
    <2> QED BY <2>2, <2>3, <2>4
  <1> QED BY <1>3, <1>4

\* A set of numbers closed downwards is an interval.
LEMMA InitialSegment ==
  ASSUME NEW N \in Nat, NEW S \in SUBSET (1 .. N), \A k \in S : \A j \in 1 .. k : j \in S
  PROVE  S = 1 .. Cardinality(S) /\ Cardinality(S) \in Nat
  <1> DEFINE Out == {k \in Nat : k >= 1 /\ k \notin S}
  <1>1. N + 1 \in Out
    OBVIOUS
  <1>2. PICK k \in Out : \A n \in Out : k <= n
    <2>1. Out \in SUBSET Nat /\ Out # {}
      BY <1>1
    <2> QED BY <2>1, SmallestExists
  <1>3. S = 1 .. k - 1
    <2>1. ASSUME NEW j \in 1 .. k - 1
          PROVE  j \in S
      <3>1. j \in Nat /\ j >= 1 /\ ~(k <= j)
        OBVIOUS
      <3> QED BY <1>2, <3>1
    <2>2. ASSUME NEW j \in S
          PROVE  j \in 1 .. k - 1
      <3>1. j \in Nat /\ j >= 1 /\ k \in Nat /\ k >= 1 /\ k \notin S
        OBVIOUS
      <3>2. ~(k <= j)
        BY <3>1
      <3> QED BY <3>1, <3>2
    <2> QED BY <2>1, <2>2
  <1>4. Cardinality(1 .. k - 1) = k - 1
    <2>1. k \in Nat /\ k >= 1
      OBVIOUS
    <2> QED BY <2>1, FS_Interval
  <1> QED BY <1>3, <1>4

\* The packet processBufferedPackets takes for the k-th number.
Taken(st, k) == CHOOSE m \in st.buffer : m.seq = Following(st, k)

LEMMA RunTaken ==
  ASSUME NEW T, Near(T), NEW st, NEW p, RxOk(st, p, T)
  PROVE  /\ BufferedRun(st) = 1 .. Cardinality(BufferedRun(st)) /\ Cardinality(BufferedRun(st)) \in Nat
         /\ \A k \in BufferedRun(st) :
              /\ p + k <= T /\ Taken(st, k) \in st.buffer /\ Datum(Taken(st, k), T)
              /\ Taken(st, k).id = p + k
  <1>1. IsFiniteSet(st.buffer) /\ Cardinality(st.buffer) \in Nat /\ \A m \in st.buffer : Datum(m, T)
    BY FS_CardinalityType DEF RxOk, Buffered
  <1>2. p \in Nat /\ p \in Prior .. T /\ T \in Nat /\ Prior \in Nat /\ Stands(st, p, T)
    BY StandsInt DEF RxOk
  <1>3. \A k \in BufferedRun(st) : k \in Nat /\ k >= 1 /\ \A j \in 1 .. k : j \in BufferedRun(st)
    BY <1>1 DEF BufferedRun
  <1>4. BufferedRun(st) \in SUBSET (1 .. Cardinality(st.buffer))
    BY DEF BufferedRun
  <1>5. ASSUME NEW k \in BufferedRun(st)
        PROVE  \E m \in st.buffer : m.seq = SeqOf(p + k)
    <2>1. Holds(st, Following(st, k)) /\ k \in Int
      BY <1>3 DEF BufferedRun
    <2> QED BY <1>2, <2>1, FollowingIs DEF Holds
  <1>6. ASSUME NEW k \in BufferedRun(st)
        PROVE  p + k <= T
    <2>1. SUFFICES ASSUME p + k > T
                   PROVE  FALSE
      BY <1>2, <1>3
    <2> DEFINE j == T + 1 - p
    <2>2. j \in BufferedRun(st) /\ p + j = T + 1
      BY <1>2, <1>3, <2>1
    <2>3. PICK m \in st.buffer : m.seq = SeqOf(p + j)
      BY <1>5, <2>2
    <2>4. Known(m.id, T) /\ m.seq = SeqOf(m.id)
      BY <1>1 DEF Datum
    <2>5. 2 * (T - m.id) < SEQ_MOD /\ m.id \in Int /\ m.id <= T
      <3>1. T \in Prior .. T
        BY <1>2
      <3> QED BY <2>4, <3>1, KnownClose DEF Known
    <2>6. T + 1 - m.id < SEQ_MOD /\ m.id < T + 1
      BY <1>2, <2>5, SeqModAssumption
    <2>7. SeqOf(m.id) # SeqOf(T + 1)
      BY <1>2, <2>5, <2>6, SeqOfDiffers
    <2> QED BY <2>2, <2>3, <2>4, <2>7
  <1>7. ASSUME NEW k \in BufferedRun(st)
        PROVE  Taken(st, k) \in st.buffer /\ Datum(Taken(st, k), T) /\ Taken(st, k).id = p + k
    <2>1. Following(st, k) = SeqOf(p + k)
      BY <1>2, <1>3, FollowingIs
    <2>2. Taken(st, k) \in st.buffer /\ Taken(st, k).seq = SeqOf(p + k)
      BY <1>5, <2>1 DEF Taken
    <2>3. Datum(Taken(st, k), T)
      BY <1>1, <2>2
    <2>4. p + k \in Prior .. T
      BY <1>2, <1>3, <1>6
    <2>5. Known(Taken(st, k).id, T) /\ SeqOf(Taken(st, k).id) = SeqOf(p + k)
      BY <2>2, <2>3 DEF Datum
    <2>6. Taken(st, k).id = p + k
      <3> HIDE DEF Taken
      <3> DEFINE b == Taken(st, k).id
      <3>1. 2 * (b - (p + k)) < SEQ_MOD /\ 2 * ((p + k) - b) < SEQ_MOD /\ b \in Int /\ p + k \in Int
        BY <2>4, <2>5, KnownClose
      <3> QED BY <2>5, <3>1, Verdicts DEF SeqOf
    <2> QED BY <2>2, <2>3, <2>6
  <1> QED BY <1>1, <1>3, <1>4, <1>6, <1>7, InitialSegment

\* processBufferedPackets's loop from s, as a function of the number of packets
\* tried.
Loop(g, st, s, n) ==
  g = [k \in 0 .. n |-> IF k = 0 THEN s ELSE DecryptAndProcess(g[k - 1], Taken(st, k))]

LEMMA LoopDefined ==
  ASSUME NEW st, NEW s, NEW n \in Nat
  PROVE  \E g : Loop(g, st, s, n)
  <1> USE DEF Loop
  <1> DEFINE Has(i) == \E g : Loop(g, st, s, i)
             Bad == {i \in Nat : ~Has(i)}
  <1>1. SUFFICES ASSUME Bad # {}
                 PROVE  FALSE
    BY Zenon
  <1>2. PICK i \in Bad : \A j \in Bad : i <= j
    <2>1. Bad \in SUBSET Nat
      BY Zenon
    <2> QED BY <1>1, <2>1, SmallestExists, Zenon
  <1>3. Has(0)
    <2> DEFINE g == [k \in 0 .. 0 |-> s]
    <2>1. g = [k \in 0 .. 0 |-> IF k = 0 THEN s ELSE DecryptAndProcess(g[k - 1], Taken(st, k))]
      OBVIOUS
    <2> QED BY <2>1, Zenon
  <1>4. i \in Nat /\ i # 0 /\ i - 1 \in Nat /\ ~(i <= i - 1)
    <2>1. i \in Nat /\ i # 0
      BY <1>3, Zenon
    <2> QED BY <2>1
  <1>5. Has(i - 1)
    BY <1>2, <1>4, Zenon
  <1>6. PICK g : g = [k \in 0 .. i - 1 |-> IF k = 0 THEN s ELSE DecryptAndProcess(g[k - 1], Taken(st, k))]
    BY <1>5, Zenon
  <1> DEFINE h == [k \in 0 .. i |-> IF k = i THEN DecryptAndProcess(g[i - 1], Taken(st, i)) ELSE g[k]]
             w == [k \in 0 .. i |-> IF k = 0 THEN s ELSE DecryptAndProcess(h[k - 1], Taken(st, k))]
  <1>7. ASSUME NEW k \in 0 .. i
        PROVE  h[k] = w[k]
    <2>1. CASE k = 0
      <3>1. g[0] = s
        BY <1>4, <1>6
      <3> QED BY <1>4, <2>1, <3>1
    <2>2. CASE k # 0
      <3>1. k - 1 \in 0 .. i /\ k - 1 # i /\ h[k - 1] = g[k - 1]
        BY <1>4, <2>2
      <3>2. w[k] = DecryptAndProcess(g[k - 1], Taken(st, k))
        BY <2>2, <3>1
      <3>3. CASE k = i
        BY <3>2, <3>3
      <3>4. CASE k # i
        <4>1. k \in 0 .. i - 1
          BY <1>4, <3>4
        <4> HIDE DEF w
        <4>2. g[k] = DecryptAndProcess(g[k - 1], Taken(st, k))
          BY <1>6, <2>2, <4>1
        <4>3. h[k] = g[k]
          BY <3>4
        <4> QED BY <3>2, <4>2, <4>3
      <3> QED BY <3>3, <3>4
    <2> QED BY <2>1, <2>2
  <1>8. h = w
    BY <1>7
  <1>9. Has(i)
    <2> HIDE DEF h
    <2> QED BY <1>8, Zenon
  <1> QED BY <1>9, Zenon

\* g is the course of processBufferedPackets(st), a run of n packets.
Course(g, st, n) ==
  /\ processBufferedPackets(st) = g[n]
  /\ g[0] = [st EXCEPT !.buffer = TakenOut(st.buffer, {Following(st, j) : j \in BufferedRun(st)})]
  /\ \A k \in 1 .. n : g[k] = DecryptAndProcess(g[k - 1], Taken(st, k))

LEMMA LoopIs ==
  ASSUME NEW st, NEW n \in Nat, n = Cardinality(BufferedRun(st))
  PROVE  \E g : Course(g, st, n)
  <1> DEFINE s == [st EXCEPT !.buffer = TakenOut(@, {Following(st, j) : j \in BufferedRun(st)})]
             D(x, k) == DecryptAndProcess(x, CHOOSE m \in st.buffer : m.seq = Following(st, k))
             after[k \in 0 .. Cardinality(BufferedRun(st))] == IF k = 0 THEN s ELSE D(after[k - 1], k)
  <1>1. processBufferedPackets(st) = after[n]
    BY Zenon DEF processBufferedPackets
  <1>2. after = CHOOSE f : f = [k \in 0 .. n |-> IF k = 0 THEN s ELSE D(f[k - 1], k)]
    BY Zenon DEF after
  <1> HIDE DEF after
  <1> HIDE DEF s
  <1>3. PICK g : g = [k \in 0 .. n |-> IF k = 0 THEN s ELSE D(g[k - 1], k)]
    <2>1. \E g : Loop(g, st, s, n)
      BY LoopDefined
    <2> QED BY <2>1, Zenon DEF Loop, Taken
  <1>4. after = [k \in 0 .. n |-> IF k = 0 THEN s ELSE D(after[k - 1], k)]
    BY <1>2, <1>3, Zenon
  <1>5. after[0] = s
    BY <1>4
  <1>6. \A k \in 1 .. n : after[k] = DecryptAndProcess(after[k - 1], Taken(st, k))
    BY <1>4 DEF Taken
  <1>7. s = [st EXCEPT !.buffer = TakenOut(st.buffer, {Following(st, j) : j \in BufferedRun(st)})]
    BY DEF s
  <1>8. Course(after, st, n)
    BY <1>1, <1>5, <1>6, <1>7, Zenon DEF Course
  <1> QED BY <1>8, Zenon

\* What the run leaves in the buffer is beyond the number that follows it.
LEMMA RunComplete ==
  ASSUME NEW T, Near(T), NEW st, NEW p, RxOk(st, p, T), NEW n \in Nat, n = Cardinality(BufferedRun(st)),
         NEW b \in TakenOut(st.buffer, {Following(st, j) : j \in BufferedRun(st)}), b.id > p
  PROVE  b.id >= p + n + 2
  <1>1. /\ BufferedRun(st) = 1 .. n
        /\ \A k \in 1 .. n : Taken(st, k) \in st.buffer /\ Taken(st, k).id = p + k
    BY RunTaken
  <1>2. p \in Nat /\ Stands(st, p, T)
    BY StandsInt DEF RxOk
  <1>3. b \in st.buffer /\ b.id \in Nat /\ b.seq = SeqOf(b.id)
    BY DEF TakenOut, RxOk, Buffered, Datum, Known
  <1>4. IsFiniteSet(st.buffer) /\ Cardinality(st.buffer) \in Nat
    BY FS_CardinalityType DEF RxOk, Buffered
  <1>5. b.id > p + n
    <2>1. SUFFICES ASSUME b.id <= p + n
                   PROVE  FALSE
      BY <1>2, <1>3
    <2> DEFINE k == b.id - p
    <2>2. k \in 1 .. n /\ k \in Int /\ p + k = b.id
      BY <1>2, <1>3, <2>1
    <2>3. Following(st, k) = b.seq
      BY <1>2, <1>3, <2>2, FollowingIs
    <2> HIDE DEF k
    <2> QED BY <1>1, <2>2, <2>3 DEF TakenOut
  <1>6. b.id # p + n + 1
    <2>1. SUFFICES ASSUME b.id = p + n + 1
                   PROVE  FALSE
      OBVIOUS
    <2>2. Following(st, n + 1) = b.seq
      <3>1. n + 1 \in Int /\ p + (n + 1) = b.id
        BY <1>2, <2>1
      <3> QED BY <1>2, <1>3, <3>1, FollowingIs
    <2>3. \A j \in 1 .. n + 1 : Holds(st, Following(st, j))
      <3>1. Holds(st, Following(st, n + 1))
        BY <1>3, <2>2 DEF Holds
      <3>2. \A j \in 1 .. n : Holds(st, Following(st, j))
        BY <1>1 DEF BufferedRun
      <3> QED BY <3>1, <3>2
    <2>4. n + 1 > Cardinality(st.buffer)
      <3>1. SUFFICES ASSUME n + 1 <= Cardinality(st.buffer)
                     PROVE  FALSE
        BY <1>4
      <3>2. n + 1 \in 1 .. Cardinality(st.buffer)
        BY <1>4, <3>1
      <3>3. n + 1 \in BufferedRun(st)
        BY <2>3, <3>2 DEF BufferedRun
      <3>4. n + 1 \notin 1 .. n
        OBVIOUS
      <3> QED BY <1>1, <3>3, <3>4
    <2> DEFINE f == [k \in 1 .. n + 1 |-> IF k = n + 1 THEN b ELSE Taken(st, k)]
    <2>5. ASSUME NEW k \in 1 .. n + 1
          PROVE  f[k] \in st.buffer /\ f[k].id = p + k
      <3>1. CASE k = n + 1
        BY <1>2, <1>3, <2>1, <3>1
      <3>2. CASE k # n + 1
        <4>1. k \in 1 .. n /\ f[k] = Taken(st, k)
          BY <3>2
        <4> QED BY <1>1, <4>1
      <3> QED BY <3>1, <3>2
    <2>6. f \in [1 .. n + 1 -> st.buffer]
      BY <2>5
    <2> HIDE DEF f
    <2>7. IsFiniteSet(1 .. n + 1) /\ Cardinality(1 .. n + 1) = n + 1
      <3>1. 1 \in Int /\ n + 1 \in Int /\ ~(1 > n + 1) /\ (n + 1) - 1 + 1 = n + 1
        OBVIOUS
      <3> QED BY <3>1, FS_Interval
    <2>8. PICK x \in 1 .. n + 1, y \in 1 .. n + 1 : x # y /\ f[x] = f[y]
      BY <1>4, <2>4, <2>6, <2>7, FS_PigeonHole
    <2>9. p + x = p + y
      BY <2>5, <2>8
    <2> QED BY <1>2, <2>8, <2>9
  <1> QED BY <1>2, <1>3, <1>5, <1>6

\* processBufferedPackets moves the receiver forward.
LEMMA DrainMoves ==
  ASSUME NEW T, Near(T), NEW st, NEW p, RxOk(st, p, T)
  PROVE  \E q : /\ Moves(st, processBufferedPackets(st), p, q, T)
                /\ \A b \in processBufferedPackets(st).buffer : b \in st.buffer /\ (b.id > p => b.id >= q + 2)
  <1> DEFINE n == Cardinality(BufferedRun(st))
             left == TakenOut(st.buffer, {Following(st, j) : j \in BufferedRun(st)})
             s == [st EXCEPT !.buffer = left]
  <1>1. n \in Nat /\ BufferedRun(st) = 1 .. n
    BY RunTaken
  <1>2. p \in Nat
    BY StandsInt DEF RxOk
  <1>3. PICK g : /\ processBufferedPackets(st) = g[n] /\ g[0] = s
                 /\ \A k \in 1 .. n : g[k] = DecryptAndProcess(g[k - 1], Taken(st, k))
    <2>1. \E g : Course(g, st, n)
      BY <1>1, LoopIs
    <2> QED BY <2>1, Zenon DEF Course
  <1>4. ASSUME NEW k \in 1 .. n
        PROVE  Datum(Taken(st, k), T) /\ Taken(st, k).id = p + k
    BY <1>1, RunTaken
  <1>5. left \subseteq st.buffer /\ \A b \in left : b.id > p => b.id >= p + n + 2
    BY <1>1, RunComplete DEF TakenOut
  <1> HIDE DEF n, left
  <1>6. RxOk(s, p, T) /\ s.up = st.up /\ s.buffer = left
    <2>1. RxRec(st)
      BY DEF RxOk
    <2>2. /\ RxRec(s) /\ s.hi = st.hi /\ s.buffer = left /\ s.up = st.up /\ s.ack = st.ack
          /\ s.nack = st.nack /\ s.hist = st.hist /\ s.overdue = st.overdue /\ s.waiting = st.waiting
      BY <2>1 DEF RxRec, RxField
    <2> HIDE DEF s
    <2>3. IsFiniteSet(left) /\ \A m \in left : Datum(m, T)
      BY <1>5, FS_Subset DEF RxOk, Buffered
    <2> QED BY <2>2, <2>3 DEF RxOk, Stands, Buffered, AckDue, Sorted
  <1> HIDE DEF s
  <1> DEFINE Good(k) == \E q \in p .. p + k : Moves(st, g[k], p, q, T) /\ g[k].buffer = left
             Bad == {k \in 0 .. n : ~Good(k)}
  <1>7. Good(0)
    <2>1. Moves(st, s, p, p, T) /\ p \in p .. p + 0
      BY <1>2, <1>6, MovesStill
    <2> QED BY <1>3, <1>6, <2>1
  <1>8. ASSUME NEW k \in 1 .. n, Good(k - 1)
        PROVE  Good(k)
    <2>1. PICK q \in p .. p + (k - 1) : Moves(st, g[k - 1], p, q, T) /\ g[k - 1].buffer = left
      BY <1>8
    <2>2. q \in Nat /\ p + k > q /\ p <= q /\ k \in Nat
      BY <1>2
    <2>3. RxOk(g[k - 1], q, T)
      BY <2>1 DEF Moves
    <2>4. Datum(Taken(st, k), T) /\ Taken(st, k).id = p + k
      BY <1>4
    <2>5. PICK u \in q .. p + k : /\ Moves(g[k - 1], DecryptAndProcess(g[k - 1], Taken(st, k)), q, u, T)
                                  /\ DecryptAndProcess(g[k - 1], Taken(st, k)).buffer = g[k - 1].buffer
      <3>1. \E u \in q .. Taken(st, k).id :
              /\ Moves(g[k - 1], DecryptAndProcess(g[k - 1], Taken(st, k)), q, u, T)
              /\ DecryptAndProcess(g[k - 1], Taken(st, k)).buffer = g[k - 1].buffer
        BY <2>2, <2>3, <2>4, ProcessMoves
      <3> QED BY <2>4, <3>1
    <2>6. Moves(g[k - 1], g[k], q, u, T) /\ g[k].buffer = left
      BY <1>3, <2>1, <2>5
    <2>7. Moves(st, g[k], p, u, T)
      BY <2>1, <2>6, MovesOn
    <2>8. u \in p .. p + k
      BY <1>2, <2>2
    <2> QED BY <2>6, <2>7, <2>8
  <1>9. Good(n)
    <2>1. SUFFICES ASSUME Bad # {}
                   PROVE  FALSE
      <3>1. n \in 0 .. n
        BY <1>1
      <3> QED BY <3>1, Zenon
    <2>2. PICK k \in Bad : \A j \in Bad : k <= j
      <3>1. Bad \in SUBSET Nat
        OBVIOUS
      <3> HIDE DEF Bad
      <3> QED BY <2>1, <3>1, SmallestExists
    <2>3. k \in 0 .. n /\ ~Good(k)
      BY Zenon
    <2>4. k # 0
      BY <1>7, <2>3, Zenon
    <2>5. k \in 1 .. n /\ k - 1 \in 0 .. n /\ ~(k <= k - 1)
      BY <1>1, <2>3, <2>4
    <2>6. Good(k - 1)
      BY <2>2, <2>5, Zenon
    <2> QED BY <1>8, <2>3, <2>5, <2>6, Zenon
  <1>10. PICK q \in p .. p + n : Moves(st, g[n], p, q, T) /\ g[n].buffer = left
    BY <1>9
  <1>11. \A b \in left : b.id > p => b.id >= q + 2
    <2>1. SUFFICES ASSUME NEW b \in left, b.id > p
                   PROVE  b.id >= q + 2
      OBVIOUS
    <2>2. b.id >= p + n + 2 /\ b.id \in Nat
      BY <1>5, <2>1 DEF RxOk, Buffered, Datum, Known
    <2> QED BY <1>1, <1>2, <2>2
  <1> QED BY <1>3, <1>5, <1>10, <1>11

LEMMA LargestExists ==
  ASSUME NEW n \in Nat, NEW S \in SUBSET (1 .. n), S # {}
  PROVE  \E k \in S : \A j \in S : j <= k
  <1> DEFINE R == {i \in Nat : \E k \in S : i = n - k}
  <1>1. R \in SUBSET Nat /\ R # {}
    <2>1. PICK k \in S : TRUE
      OBVIOUS
    <2>2. n - k \in R
      OBVIOUS
    <2> QED BY <2>2
  <1>2. PICK i \in R : \A j \in R : i <= j
    <2> HIDE DEF R
    <2> QED BY <1>1, SmallestExists
  <1>3. PICK k \in S : i = n - k
    OBVIOUS
  <1>4. ASSUME NEW j \in S
        PROVE  j <= k
    <2>1. n - j \in R
      OBVIOUS
    <2>2. i <= n - j
      BY <1>2, <2>1
    <2> QED BY <1>3, <2>2
  <1> QED BY <1>4

LEMMA AskMoves ==
  ASSUME NEW T, Near(T), NEW st, NEW p, RxOk(st, p, T), NEW seqs \in SUBSET Seq24
  PROVE  RxOk(Ask(st, seqs), p, T) /\ Ask(st, seqs).up = st.up /\ Ask(st, seqs).buffer = st.buffer
  <1> DEFINE t == Ask(st, seqs)
  <1>1. RxRec(st)
    BY DEF RxOk
  <1>2. /\ RxRec(t) /\ t.hi = st.hi /\ t.buffer = st.buffer /\ t.up = st.up /\ t.ack = st.ack
        /\ t.nack = seqs /\ t.hist = st.hist /\ t.overdue = st.overdue
        /\ t.waiting = st.waiting \/ t.waiting = Append(st.waiting, seqs \ Stamped(st))
    BY <1>1 DEF RxRec, RxField, Ask
  <1> HIDE DEF t
  <1>3. RxOk(t, p, T)
    <2>1. Sorted(st, T)
      BY DEF RxOk
    <2>2. t.waiting \in Seq(SUBSET Seq24)
      <3>1. seqs \ Stamped(st) \in SUBSET Seq24
        OBVIOUS
      <3>2. st.waiting \in Seq(SUBSET Seq24)
        BY <2>1 DEF Sorted
      <3>3. Append(st.waiting, seqs \ Stamped(st)) \in Seq(SUBSET Seq24)
        BY <3>1, <3>2
      <3> QED BY <1>2, <3>2, <3>3, Zenon
    <2>3. Sorted(t, T)
      BY <1>2, <2>1, <2>2 DEF Sorted
    <2> QED BY <1>2, <2>3 DEF RxOk, Stands, Buffered, AckDue
  <1> QED BY <1>2, <1>3 DEF t

\* declarePermanentLoss moves the receiver to the lost message.
LEMMA LossMoves ==
  ASSUME NEW T, Near(T), NEW st, NEW p, RxOk(st, p, T), NEW q \in Nat, p < q, q <= T
  PROVE  /\ RxOk(declarePermanentLoss(st, SeqOf(q)), q, T)
         /\ declarePermanentLoss(st, SeqOf(q)).up = st.up
         /\ declarePermanentLoss(st, SeqOf(q)).buffer = {}
  <1> DEFINE t == declarePermanentLoss(st, SeqOf(q))
  <1>1. RxRec(st) /\ p \in Prior .. T /\ p \in Nat /\ q \in Prior .. T /\ T \in Nat /\ Stands(st, p, T)
    <2>1. RxRec(st) /\ p \in Prior .. T /\ p \in Nat /\ T \in Nat /\ Prior \in Nat /\ Stands(st, p, T)
      BY StandsInt DEF RxOk
    <2> QED BY <2>1
  <1>2. IsAhead(seqDelta(OrZero(st.hi), SeqOf(q)))
    <2>1. OrZero(st.hi) = SeqOf(p)
      <3>1. 0 \in Int
        OBVIOUS
      <3> QED BY <1>1, <3>1, FollowingIs
    <2> QED BY <1>1, <2>1, PositionsClose, Verdicts DEF SeqOf
  <1>3. /\ RxRec(t) /\ t.hi = SeqOf(q) /\ t.buffer = {} /\ t.up = st.up /\ t.ack = st.ack
        /\ t.nack = st.nack /\ t.hist = {} /\ t.overdue = st.overdue /\ t.waiting = st.waiting
    BY <1>1, <1>2 DEF RxRec, RxField, declarePermanentLoss
  <1> HIDE DEF t
  <1>4. Handed(t.up, q)
    <2>1. Handed(st.up, p)
      BY DEF RxOk
    <2>2. \A i \in 1 .. Len(st.up) : Prior < st.up[i] /\ st.up[i] <= q
      <3>1. SUFFICES ASSUME NEW i \in 1 .. Len(st.up)
                     PROVE  Prior < st.up[i] /\ st.up[i] <= q
        OBVIOUS
      <3>2. Prior < st.up[i] /\ st.up[i] <= p /\ st.up[i] \in Nat
        BY <2>1 DEF Handed
      <3> QED BY <1>1, <3>2
    <2> QED BY <1>3, <2>1, <2>2 DEF Handed
  <1>5. Stands(t, q, T)
    BY <1>1, <1>3, SeqOfType DEF Stands
  <1>6. RxOk(t, q, T)
    BY <1>3, <1>4, <1>5, FS_EmptySet DEF RxOk, Buffered, AckDue, Sorted
  <1> QED BY <1>3, <1>6 DEF t

\* The loop over the n numbers of a gap.
LEMMA GapMoves ==
  ASSUME NEW T, Near(T), NEW st, NEW p, RxOk(st, p, T), NEW n \in Nat, p + n <= T
  PROVE  \E q : /\ Moves(st, CheckGap(st, n), p, q, T)
                /\ CheckGap(st, n).buffer = {} \/ (q = p /\ CheckGap(st, n).buffer = st.buffer)
  <1> DEFINE At(k) == Following(st, k)
             open == {k \in 1 .. n : Missing(st, At(k))}
             first == {k \in open : At(k) \in st.overdue /\ \A j \in open : At(j) \in st.overdue => k <= j}
             after == {k \in 1 .. n : \E f \in first : k >= f}
             lost == {k \in after : At(k) \in st.overdue}
             asked == {At(k) : k \in (open \union after) \ lost}
             last == CHOOSE k \in lost : \A j \in lost : j <= k
  <1>1. CheckGap(st, n) = IF lost = {} THEN Ask(st, asked) ELSE Ask(declarePermanentLoss(st, At(last)), asked)
    BY Zenon DEF CheckGap
  <1>2. p \in Nat /\ Stands(st, p, T)
    BY StandsInt DEF RxOk
  <1>3. \A k \in 1 .. n : At(k) \in Seq24 /\ At(k) = SeqOf(p + k)
    <2>1. SUFFICES ASSUME NEW k \in 1 .. n
                   PROVE  At(k) \in Seq24 /\ At(k) = SeqOf(p + k)
      BY Zenon
    <2>2. k \in Int /\ p + k \in Int
      BY <1>2
    <2> QED BY <1>2, <2>2, FollowingIs, SeqOfType
  <1>4. lost \in SUBSET (1 .. n) /\ open \in SUBSET (1 .. n) /\ after \in SUBSET (1 .. n)
    BY Zenon
  <1> HIDE DEF At, open, first, after
  <1>5. asked \in SUBSET Seq24
    BY <1>3, <1>4
  <1> HIDE DEF lost, asked
  <1>6. CASE lost = {}
    <2> DEFINE t == Ask(st, asked)
    <2>1. RxOk(t, p, T) /\ t.up = st.up /\ t.buffer = st.buffer
      BY <1>5, AskMoves
    <2> HIDE DEF t
    <2>2. Moves(st, t, p, p, T)
      BY <2>1, MovesStill
    <2>3. CheckGap(st, n) = t
      BY <1>1, <1>6 DEF t
    <2> QED BY <2>1, <2>2, <2>3
  <1>7. CASE lost # {}
    <2>1. last \in lost
      BY <1>4, <1>7, LargestExists
    <2> HIDE DEF last
    <2> DEFINE q == p + last
               s == declarePermanentLoss(st, SeqOf(q))
               t == Ask(s, asked)
    <2>2. q \in Nat /\ p < q /\ q <= T /\ At(last) = SeqOf(q)
      <3>1. last \in 1 .. n
        BY <1>4, <2>1
      <3>2. T \in Nat
        BY DEF Near
      <3> QED BY <1>2, <1>3, <3>1, <3>2
    <2> HIDE DEF q
    <2>3. RxOk(s, q, T) /\ s.up = st.up /\ s.buffer = {}
      BY <2>2, LossMoves
    <2> HIDE DEF s
    <2>4. RxOk(t, q, T) /\ t.up = st.up /\ t.buffer = {}
      BY <1>5, <2>3, AskMoves
    <2>5. CheckGap(st, n) = t
      BY <1>1, <1>7, <2>2 DEF s
    <2> HIDE DEF t
    <2>6. Abstract!Continues(st.up, t.up, p + 1, q)
      <3>1. st.up \in Seq(Nat)
        BY DEF RxOk, Handed
      <3>2. Len(st.up) \in Nat /\ Len(t.up) = Len(st.up)
        BY <2>4, <3>1
      <3> QED BY <2>4, <3>2 DEF Abstract!Continues
    <2>7. p <= q
      BY <1>2, <2>2
    <2> QED BY <2>4, <2>5, <2>6, <2>7 DEF Moves
  <1> QED BY <1>6, <1>7

-----------------------------------------------------------------------------
(* The inductive invariant.                                                *)

TxField == {"recent", "queue", "wire", "nextSeq", "highest", "hist", "chain", "acked", "probe", "retries"}
TxRec(t) == t = [f \in TxField |-> t[f]]

\* The newest message of the sender t.
Wire(t) == Prior + Len(t.wire)

\* The sender numbers its messages in order, from a chain, and keeps only
\* messages it has sent.
TxOk(t) ==
  /\ TxRec(t) /\ t.recent \in BOOLEAN /\ t.wire \in Seq(Nat) /\ t.queue \in Seq(Nat)
  /\ t.chain \in Nat \union {NoSeq}
  /\ t.chain = NoSeq => t.wire = <<>> /\ Prior = 0
  /\ t.nextSeq = SeqOf(Wire(t) + 1) /\ t.highest = SeqOf(Wire(t))
  /\ \A d \in t.hist : Known(d.id, Wire(t))

\* One of the receivers R was handed message n.
HeardBy(R, n) == \E r \in Receiver : \E i \in 1 .. Len(R[r].up) : R[r].up[i] = n

\* What the sender holds for acknowledged was handed to someone; without a
\* probe to come it is the newest message.
AckedOk(t, R) ==
  \E a \in Prior .. Wire(t) : /\ t.acked = SeqOf(a)
                              /\ a > Prior => HeardBy(R, a)
                              /\ t.wire # <<>> /\ ~t.probe => a = Wire(t)

AcksOk(N, R, T) ==
  \A m \in N : m.type = "ACK" => \E n \in Prior + 1 .. T : m.seq = SeqOf(n) /\ HeardBy(R, n)

\* Packets are of messages that were sent.
Packet(m, T) ==
  /\ m.type = "DATA" => Datum(m, T)
  /\ m.type = "SYNC" => \E t \in Prior .. T : m.highest = SeqOf(t)
  /\ m.type = "NACK" => m.missing \subseteq Seq24

NetOk(N, T) == \A m \in N : Packet(m, T)

CacheOk(c, T) == c = [k \in Seq24 |-> c[k]] /\ \A k \in Seq24 : c[k] # NoBuf => Datum(c[k], T)

\* Between two handlers.  With a baseline from the start, nothing is buffered
\* that the receiver has passed or could process.
AtRest(st, p, T) ==
  /\ RxOk(st, p, T) /\ st.nack = {} /\ st.reset = FALSE
  /\ Prior > 0 => \A m \in st.buffer : m.id >= p + 2

ReceiversOk(R, T) == R = [r \in Receiver |-> R[r]] /\ \A r \in Receiver : \E p : AtRest(R[r], p, T)

Inv ==
  /\ typed \in 0 .. MaxTyped /\ Len(tx.wire) <= typed + 1
  /\ TxOk(tx) /\ AckedOk(tx, rx) /\ AcksOk(net, rx, Total)
  /\ NetOk(net, Total) /\ CacheOk(messageCache, Total) /\ ReceiversOk(rx, Total)

LEMMA InvNear ==
  ASSUME Inv
  PROVE  /\ Near(Total) /\ Total = Wire(tx) /\ Total \in Nat /\ Prior \in Nat /\ Prior <= Total
         /\ typed \in Nat /\ Len(tx.wire) \in Nat
  <1>1. Bounds
    BY BoundsHold
  <1>2. Len(tx.wire) \in Nat
    BY DEF Inv, TxOk
  <1> QED BY <1>1, <1>2 DEF Inv, Near, Bounds, Total, Wire

-----------------------------------------------------------------------------
(* The invariant survives new messages.                                    *)

LEMMA KnownLater ==
  ASSUME NEW T \in Nat, NEW U \in Nat, T <= U, NEW n, Known(n, T)
  PROVE  Known(n, U)
  BY DEF Known

LEMMA DatumLater ==
  ASSUME NEW T \in Nat, NEW U \in Nat, T <= U, NEW m, Datum(m, T)
  PROVE  Datum(m, U)
  BY KnownLater DEF Datum

LEMMA NetLater ==
  ASSUME NEW T \in Nat, NEW U \in Nat, T <= U, NEW N, NetOk(N, T)
  PROVE  NetOk(N, U)
  <1>1. ASSUME NEW m \in N
        PROVE  Packet(m, U)
    <2>1. Packet(m, T)
      BY DEF NetOk
    <2>2. Prior \in Nat /\ \A t \in Prior .. T : t \in Prior .. U
      BY BoundsHold DEF Bounds
    <2> QED BY <2>1, <2>2, DatumLater DEF Packet
  <1> QED BY <1>1 DEF NetOk

LEMMA CacheLater ==
  ASSUME NEW T \in Nat, NEW U \in Nat, T <= U, NEW c, CacheOk(c, T)
  PROVE  CacheOk(c, U)
  BY DatumLater DEF CacheOk

LEMMA RestLater ==
  ASSUME NEW T \in Nat, NEW U \in Nat, T <= U, NEW st, NEW p, AtRest(st, p, T)
  PROVE  AtRest(st, p, U)
  <1>1. Stands(st, p, T) /\ Buffered(st, T)
    BY DEF AtRest, RxOk
  <1>2. Stands(st, p, U)
    <2>1. Prior \in Nat /\ p \in Prior .. U
      BY <1>1, BoundsHold DEF Bounds, Stands
    <2> QED BY <1>1, <2>1 DEF Stands
  <1>3. Buffered(st, U)
    BY <1>1, DatumLater DEF Buffered
  <1>4. Sorted(st, U)
    <2>1. Sorted(st, T)
      BY DEF AtRest, RxOk
    <2>2. \A n \in 1 .. T : n \in 1 .. U
      OBVIOUS
    <2> QED BY <2>1, <2>2 DEF Sorted
  <1> QED BY <1>2, <1>3, <1>4 DEF AtRest, RxOk

LEMMA ReceiversLater ==
  ASSUME NEW T \in Nat, NEW U \in Nat, T <= U, NEW R, ReceiversOk(R, T)
  PROVE  ReceiversOk(R, U)
  BY RestLater DEF ReceiversOk

LEMMA AcksLater ==
  ASSUME NEW T \in Nat, NEW U \in Nat, T <= U, NEW N, NEW R, AcksOk(N, R, T)
  PROVE  AcksOk(N, R, U)
  <1>1. Prior \in Nat /\ \A n \in Prior + 1 .. T : n \in Prior + 1 .. U
    BY BoundsHold DEF Bounds
  <1> QED BY <1>1 DEF AcksOk

-----------------------------------------------------------------------------
(* The sender's steps.                                                     *)

LEMMA PktIsDatum ==
  ASSUME NEW T, NEW to, NEW d, NEW M, Known(d.id, T)
  PROVE  Datum(DataPkt(to, d, M), T)
  BY DEF Datum, DataField, DataPkt

LEMMA Readdressed ==
  ASSUME NEW T, NEW m, Datum(m, T), NEW to
  PROVE  Datum([m EXCEPT !.to = to], T)
  BY DEF Datum, DataField

\* sendData sends at most one message, the next one, and arms the probe then.
Sends(t, s) ==
  /\ TxOk(s.tx) /\ s.tx.acked = t.acked /\ NetOk(s.out, Wire(s.tx)) /\ AcksOk(s.out, rx, Wire(s.tx))
  /\ \/ s.tx.wire = t.wire /\ s.tx.probe = t.probe
     \/ Len(s.tx.wire) = Len(t.wire) + 1 /\ s.tx.probe = TRUE

LEMMA SendNowSends ==
  ASSUME NEW t, NEW line \in Nat, TxOk(t), t.chain # NoSeq
  PROVE  Sends(t, SendNow(t, line)) /\ SendNow(t, line).tx.recent = TRUE
  <1> DEFINE dart == [id |-> Prior + Len(t.wire) + 1, idx |-> t.chain]
             all == t.hist \union {dart}
             hist == {d \in all : d.id \in KeptHistory(Ids(all), t.nextSeq)}
             u == [t EXCEPT !.recent = TRUE, !.wire = Append(@, line), !.nextSeq = seqNext(@),
                            !.highest = t.nextSeq, !.hist = hist, !.chain = @ + 1, !.probe = TRUE]
             out == {DataPkt("relay", dart, Ids(hist))}
  <1>1. SendNow(t, line) = [tx |-> u, out |-> out]
    BY Zenon DEF SendNow
  <1>2. /\ TxRec(t) /\ Len(t.wire) \in Nat /\ t.wire \in Seq(Nat) /\ Wire(t) \in Nat /\ Prior \in Nat
        /\ Prior <= Wire(t)
    <2>1. TxRec(t) /\ t.wire \in Seq(Nat)
      BY DEF TxOk
    <2>2. Prior \in Nat
      BY BoundsHold DEF Bounds
    <2> QED BY <2>1, <2>2 DEF Wire
  <1>3. \A d \in hist : d \in t.hist \/ d = dart
    BY Zenon
  <1>4. dart.id = Wire(t) + 1
    BY <1>2 DEF Wire
  <1> HIDE DEF hist, dart
  <1>5. /\ TxRec(u) /\ u.recent = TRUE /\ u.wire = Append(t.wire, line) /\ u.nextSeq = seqNext(t.nextSeq)
        /\ u.highest = t.nextSeq /\ u.hist = hist /\ u.chain = t.chain + 1 /\ u.probe = TRUE
        /\ u.acked = t.acked /\ u.queue = t.queue
    BY <1>2 DEF TxRec, TxField
  <1> HIDE DEF u
  <1>6. Wire(u) = Wire(t) + 1 /\ Len(u.wire) = Len(t.wire) + 1 /\ u.wire \in Seq(Nat)
    BY <1>2, <1>5 DEF Wire
  <1>7. u.chain \in Nat /\ u.chain # NoSeq
    BY <1>5, CacheAssumption DEF TxOk
  <1>8. u.nextSeq = SeqOf(Wire(u) + 1)
    <2>1. t.nextSeq = SeqOf(Wire(t) + 1)
      BY DEF TxOk
    <2>2. SEQ_MOD \in Nat /\ SEQ_MOD > 0 /\ Wire(t) + 1 \in Int /\ 1 \in Int
      BY <1>2, SeqModAssumption
    <2>3. (((Wire(t) + 1) % SEQ_MOD) + 1) % SEQ_MOD = (Wire(t) + 1 + 1) % SEQ_MOD
      BY <2>2, ModSum
    <2> QED BY <1>5, <1>6, <2>1, <2>3 DEF seqNext, SeqOf
  <1>9. Known(dart.id, Wire(u))
    BY <1>2, <1>4, <1>6, BoundsHold DEF Known, Bounds
  <1>10. \A d \in u.hist : Known(d.id, Wire(u))
    <2>1. SUFFICES ASSUME NEW d \in hist
                   PROVE  Known(d.id, Wire(u))
      BY <1>5
    <2>2. CASE d \in t.hist
      <3>1. Known(d.id, Wire(t)) /\ Wire(t) <= Wire(u) /\ Wire(u) \in Nat
        BY <1>2, <1>6, <2>2 DEF TxOk
      <3> QED BY <1>2, <3>1, KnownLater
    <2>3. CASE d = dart
      BY <1>9, <2>3
    <2> QED BY <1>3, <2>2, <2>3
  <1>11. TxOk(u)
    BY <1>5, <1>6, <1>7, <1>8, <1>10 DEF TxOk
  <1>12. NetOk(out, Wire(u)) /\ AcksOk(out, rx, Wire(u))
    <2>1. ASSUME NEW m \in out
          PROVE  Datum(m, Wire(u)) /\ m.type = "DATA"
      <3>1. Datum(m, Wire(u))
        BY <1>9, PktIsDatum
      <3> QED BY <3>1 DEF Datum
    <2> QED BY <2>1 DEF NetOk, Packet, AcksOk
  <1> HIDE DEF out
  <1>13. Sends(t, [tx |-> u, out |-> out])
    BY <1>5, <1>6, <1>11, <1>12 DEF Sends
  <1>14. Sends(t, SendNow(t, line))
    BY <1>1, <1>13, Zenon
  <1>15. SendNow(t, line).tx = u
    BY <1>1
  <1> QED BY <1>5, <1>14, <1>15

LEMMA NothingSent ==
  ASSUME NEW T
  PROVE  NetOk({}, T) /\ AcksOk({}, rx, T)
  BY DEF NetOk, AcksOk

LEMMA SendDataSends ==
  ASSUME NEW t, NEW line, line \in Nat \/ t.recent, TxOk(t)
  PROVE  /\ Sends(t, sendData(t, line)) /\ sendData(t, line).tx.recent = TRUE
         /\ t.recent => sendData(t, line) = [tx |-> t, out |-> {}]
         /\ sendData(t, line) = [tx |-> sendData(t, line).tx, out |-> sendData(t, line).out]
  <1>1. CASE t.recent
    <2>1. sendData(t, line) = [tx |-> t, out |-> {}]
      BY <1>1 DEF sendData
    <2>2. Sends(t, [tx |-> t, out |-> {}])
      BY NothingSent DEF Sends
    <2>3. t.recent = TRUE
      BY <1>1 DEF TxOk
    <2> QED BY <2>1, <2>2, <2>3
  <1>2. CASE ~t.recent /\ t.chain = NoSeq
    <2> DEFINE u == [t EXCEPT !.recent = TRUE, !.queue = Append(@, line)]
    <2>1. sendData(t, line) = [tx |-> u, out |-> {}]
      BY <1>2 DEF sendData
    <2>2. /\ TxRec(u) /\ u.recent = TRUE /\ u.wire = t.wire /\ u.nextSeq = t.nextSeq
          /\ u.highest = t.highest /\ u.hist = t.hist /\ u.chain = t.chain /\ u.probe = t.probe
          /\ u.acked = t.acked /\ u.queue = Append(t.queue, line)
      BY DEF TxOk, TxRec, TxField
    <2> HIDE DEF u
    <2>3. u.queue \in Seq(Nat)
      BY <1>2, <2>2 DEF TxOk
    <2>4. TxOk(u)
      BY <2>2, <2>3 DEF TxOk, Wire
    <2>5. Sends(t, [tx |-> u, out |-> {}])
      BY <2>2, <2>4, NothingSent DEF Sends
    <2> QED BY <1>2, <2>1, <2>2, <2>5
  <1>3. CASE ~t.recent /\ t.chain # NoSeq
    <2>1. sendData(t, line) = SendNow(t, line)
      BY <1>3 DEF sendData
    <2>2. SendNow(t, line) = [tx |-> SendNow(t, line).tx, out |-> SendNow(t, line).out]
      BY DEF SendNow
    <2>3. Sends(t, SendNow(t, line)) /\ SendNow(t, line).tx.recent = TRUE
      BY <1>3, SendNowSends
    <2> QED BY <1>3, <2>1, <2>2, <2>3
  <1> QED BY <1>1, <1>2, <1>3

\* The flush of adoptKey comes within the rate window the announcement opens:
\* at most the announcement is sent.
LEMMA FlushIsAnnouncement ==
  ASSUME NEW t, TxOk(t), TxOk([t EXCEPT !.chain = 0])
  PROVE  flushPending(t) = sendData([t EXCEPT !.chain = 0], Announcement)
  <1> DEFINE n == Len(t.queue)
             s == sendData([t EXCEPT !.chain = 0], Announcement)
             D(x, k) == [tx |-> sendData(x.tx, t.queue[k]).tx, out |-> x.out \union sendData(x.tx, t.queue[k]).out]
             flush[k \in 0 .. n] == IF k = 0 THEN s ELSE D(flush[k - 1], k)
  <1>1. flushPending(t) = flush[n]
    BY Zenon DEF flushPending
  <1>2. flush = CHOOSE f : f = [k \in 0 .. n |-> IF k = 0 THEN s ELSE D(f[k - 1], k)]
    BY Zenon DEF flush
  <1>3. n \in Nat
    BY DEF TxOk
  <1>4. TxOk(s.tx) /\ s.tx.recent = TRUE /\ s = [tx |-> s.tx, out |-> s.out]
    <2>1. Announcement \in Nat
      BY DEF Announcement
    <2> QED BY <2>1, SendDataSends DEF Sends
  <1> HIDE DEF flush, n, s
  <1>5. \A k : D(s, k) = s
    <2>1. SUFFICES ASSUME NEW k
                   PROVE  D(s, k) = s
      BY Zenon
    <2>2. sendData(s.tx, t.queue[k]) = [tx |-> s.tx, out |-> {}]
      BY <1>4, SendDataSends
    <2> QED BY <1>4, <2>2
  <1> HIDE DEF D
  <1> DEFINE g == [k \in 0 .. n |-> s]
  <1>6. g = [k \in 0 .. n |-> IF k = 0 THEN s ELSE D(g[k - 1], k)]
    <2>1. \A k \in 0 .. n : k # 0 => k - 1 \in 0 .. n
      BY <1>3
    <2> QED BY <1>5, <2>1
  <1>7. flush = [k \in 0 .. n |-> IF k = 0 THEN s ELSE D(flush[k - 1], k)]
    <2> HIDE DEF g
    <2> QED BY <1>2, <1>6, Zenon
  <1> DEFINE Bad == {k \in 0 .. n : flush[k] # s}
  <1>8. SUFFICES ASSUME Bad # {}
                 PROVE  FALSE
    <2>1. n \in 0 .. n
      BY <1>3
    <2> QED BY <1>1, <2>1 DEF s
  <1>9. PICK k \in Bad : \A j \in Bad : k <= j
    <2>1. Bad \in SUBSET Nat
      OBVIOUS
    <2> HIDE DEF Bad
    <2> QED BY <1>8, <2>1, SmallestExists
  <1>10. k \in 0 .. n /\ flush[k] # s
    OBVIOUS
  <1>11. k # 0
    BY <1>7, <1>10
  <1>12. k - 1 \in 0 .. n /\ ~(k <= k - 1)
    BY <1>3, <1>10, <1>11
  <1>13. flush[k - 1] = s
    BY <1>9, <1>12
  <1> QED BY <1>5, <1>7, <1>10, <1>11, <1>13

-----------------------------------------------------------------------------
(* Actions of the sender preserve the invariant.                           *)

\* The receivers do nothing, and the wire does not shrink.
Onward == rx' = rx /\ Total <= Total'

LEMMA SenderKeepsInv ==
  ASSUME Inv, TxOk(tx'), AckedOk(tx', rx), typed' \in 0 .. MaxTyped, Len(tx'.wire) <= typed' + 1,
         Wire(tx) <= Wire(tx'), rx' = rx, messageCache' = messageCache,
         NEW out, net' \subseteq net \union out, NetOk(out, Wire(tx')), AcksOk(out, rx, Wire(tx'))
  PROVE  Inv' /\ Onward
  <1>1. Total = Wire(tx) /\ Total' = Wire(tx') /\ Total \in Nat /\ Total' \in Nat /\ Total <= Total'
    <2>1. Total = Wire(tx) /\ Total \in Nat /\ Prior \in Nat
      BY InvNear
    <2>2. Len(tx'.wire) \in Nat
      BY DEF TxOk
    <2> QED BY <2>1, <2>2 DEF Total, Wire
  <1>2. NetOk(net', Total') /\ AcksOk(net', rx', Total')
    <2>1. NetOk(net, Total') /\ AcksOk(net, rx, Total')
      BY <1>1, NetLater, AcksLater DEF Inv
    <2> QED BY <1>1, <2>1 DEF NetOk, AcksOk
  <1>3. CacheOk(messageCache', Total') /\ ReceiversOk(rx', Total')
    BY <1>1, CacheLater, ReceiversLater DEF Inv
  <1>4. AckedOk(tx', rx')
    OBVIOUS
  <1>5. Onward
    BY <1>1 DEF Onward
  <1> QED BY <1>2, <1>3, <1>4, <1>5 DEF Inv

LEMMA SharesOk ==
  ASSUME NEW T, NEW A, NEW i
  PROVE  NetOk({SharePkt(r, i) : r \in A}, T) /\ AcksOk({SharePkt(r, i) : r \in A}, rx, T)
  BY DEF NetOk, AcksOk, Packet, SharePkt

\* After sendData.
LEMMA SendKeepsAcked ==
  ASSUME NEW t, NEW u, TxOk(t), TxOk(u), AckedOk(t, rx), u.acked = t.acked,
         \/ u.wire = t.wire /\ u.probe = t.probe
         \/ Len(u.wire) = Len(t.wire) + 1 /\ u.probe = TRUE
  PROVE  AckedOk(u, rx) /\ Wire(t) <= Wire(u) /\ Wire(t) \in Nat /\ Wire(u) \in Nat
  <1>1. Len(t.wire) \in Nat /\ Len(u.wire) \in Nat /\ Prior \in Nat
    BY BoundsHold DEF TxOk, Bounds
  <1>2. Wire(t) <= Wire(u) /\ Wire(t) \in Nat /\ Wire(u) \in Nat
    BY <1>1 DEF Wire
  <1>3. PICK a \in Prior .. Wire(t) :
          /\ t.acked = SeqOf(a)
          /\ a > Prior => HeardBy(rx, a)
          /\ t.wire # <<>> /\ ~t.probe => a = Wire(t)
    BY DEF AckedOk
  <1>4. a \in Prior .. Wire(u)
    BY <1>1, <1>2
  <1>5. u.wire # <<>> /\ ~u.probe => a = Wire(u)
    BY <1>3 DEF Wire
  <1> QED BY <1>2, <1>3, <1>4, <1>5 DEF AckedOk

LEMMA TypeKeepsInv ==
  ASSUME Inv, Type
  PROVE  Inv' /\ Onward
  <1> DEFINE s == sendData(tx, typed + 1)
  <1>1. typed < MaxTyped /\ typed' = typed + 1 /\ tx' = s.tx /\ rx' = rx /\ messageCache' = messageCache
    BY DEF Type, SenderBecomes, relayVars
  <1>2. net' = net \union s.out
    BY DEF Type, SenderBecomes, Sent
  <1>3. typed \in Nat /\ typed + 1 \in Nat /\ MaxTyped \in Nat /\ Len(tx.wire) <= typed + 1 /\ Len(tx.wire) \in Nat
    BY InvNear, BoundsHold DEF Bounds, Inv
  <1>4. Sends(tx, s)
    BY <1>3, SendDataSends DEF Inv
  <1> HIDE DEF s
  <1>5. TxOk(tx') /\ NetOk(s.out, Wire(tx')) /\ AcksOk(s.out, rx, Wire(tx'))
    BY <1>1, <1>4 DEF Sends
  <1>6. AckedOk(tx', rx) /\ Wire(tx) <= Wire(tx')
    <2>1. TxOk(tx) /\ AckedOk(tx, rx)
      BY DEF Inv
    <2>2. /\ tx'.acked = tx.acked
          /\ \/ tx'.wire = tx.wire /\ tx'.probe = tx.probe
             \/ Len(tx'.wire) = Len(tx.wire) + 1 /\ tx'.probe = TRUE
      BY <1>1, <1>4 DEF Sends
    <2> QED BY <1>5, <2>1, <2>2, SendKeepsAcked
  <1>7. Len(tx'.wire) <= Len(tx.wire) + 1 /\ Len(tx'.wire) \in Nat
    BY <1>1, <1>3, <1>4 DEF Sends, TxOk
  <1>8. Len(tx'.wire) <= typed' + 1 /\ typed' \in 0 .. MaxTyped
    BY <1>1, <1>3, <1>7
  <1> QED BY <1>1, <1>2, <1>5, <1>6, <1>8, SenderKeepsInv

\* A field of the sender's that no invariant reads.
LEMMA SameSender ==
  ASSUME NEW t, NEW u, TxOk(t), TxRec(u), u.recent \in BOOLEAN, u.wire = t.wire, u.queue \in Seq(Nat),
         u.chain = t.chain, u.nextSeq = t.nextSeq, u.highest = t.highest, u.hist \subseteq t.hist
  PROVE  TxOk(u) /\ Wire(u) = Wire(t)
  BY DEF TxOk, Wire

\* Nothing but the sender's timers and history changes.
LEMMA IdleSenderKeepsInv ==
  ASSUME Inv, TxRec(tx'), tx'.recent \in BOOLEAN, tx'.wire = tx.wire, tx'.queue = tx.queue,
         tx'.chain = tx.chain, tx'.nextSeq = tx.nextSeq, tx'.highest = tx.highest, tx'.hist \subseteq tx.hist,
         AckedOk(tx', rx), typed' = typed, rx' = rx, messageCache' = messageCache,
         NEW out, net' \subseteq net \union out, NetOk(out, Total), AcksOk(out, rx, Total)
  PROVE  Inv' /\ Onward
  <1>1. TxOk(tx) /\ tx.queue \in Seq(Nat) /\ typed \in 0 .. MaxTyped /\ Len(tx.wire) <= typed + 1
    BY DEF Inv, TxOk
  <1>2. TxOk(tx') /\ Wire(tx') = Wire(tx) /\ Wire(tx) = Total /\ Total \in Nat
    BY <1>1, SameSender, InvNear
  <1>3. Wire(tx) <= Wire(tx')
    BY <1>2
  <1> QED BY <1>1, <1>2, <1>3, SenderKeepsInv

LEMMA RateWindowEndsKeepsInv ==
  ASSUME Inv, RateWindowEnds
  PROVE  Inv' /\ Onward
  <1>1. TxOk(tx) /\ TxRec(tx) /\ AckedOk(tx, rx)
    BY DEF Inv, TxOk
  <1>2. /\ tx' = [tx EXCEPT !.recent = FALSE] /\ typed' = typed /\ rx' = rx /\ messageCache' = messageCache
        /\ net' = net
    BY DEF RateWindowEnds, relayVars
  <1>3. /\ TxRec(tx') /\ tx'.recent \in BOOLEAN /\ tx'.wire = tx.wire /\ tx'.queue = tx.queue
        /\ tx'.chain = tx.chain /\ tx'.nextSeq = tx.nextSeq /\ tx'.highest = tx.highest
        /\ tx'.hist = tx.hist /\ tx'.acked = tx.acked /\ tx'.probe = tx.probe
    BY <1>1, <1>2 DEF TxRec, TxField
  <1>4. AckedOk(tx', rx)
    BY <1>1, <1>3 DEF AckedOk, Wire
  <1> QED BY <1>2, <1>3, <1>4, NothingSent, IdleSenderKeepsInv

LEMMA AdoptKeyKeepsInv ==
  ASSUME Inv, adoptKey
  PROVE  Inv' /\ Onward
  <1> DEFINE t == [tx EXCEPT !.chain = 0]
             s == sendData(t, Announcement)
             shares == {SharePkt(r, 0) : r \in Receiver}
  <1>1. TxOk(tx) /\ TxRec(tx) /\ AckedOk(tx, rx) /\ typed \in 0 .. MaxTyped
    BY DEF Inv, TxOk
  <1>2. tx.chain = NoSeq /\ tx.wire = <<>>
    BY <1>1 DEF adoptKey, TxOk
  <1>3. /\ TxRec(t) /\ t.recent = tx.recent /\ t.wire = tx.wire /\ t.queue = tx.queue
        /\ t.chain = 0 /\ t.nextSeq = tx.nextSeq /\ t.highest = tx.highest
        /\ t.hist = tx.hist /\ t.acked = tx.acked /\ t.probe = tx.probe
    BY <1>1 DEF TxRec, TxField
  <1>4. TxOk(t)
    <2>1. 0 # NoSeq
      BY CacheAssumption
    <2> HIDE DEF t
    <2> QED BY <1>1, <1>3, <2>1 DEF TxOk, Wire
  <1>5. flushPending(tx) = s
    BY <1>1, <1>4, FlushIsAnnouncement
  <1>6. Sends(t, s) /\ s = [tx |-> s.tx, out |-> s.out]
    <2>1. Announcement \in Nat
      BY DEF Announcement
    <2> QED BY <1>4, <2>1, SendDataSends
  <1> HIDE DEF t, s
  <1>7. /\ tx' = [s.tx EXCEPT !.queue = <<>>] /\ typed' = typed /\ rx' = rx /\ messageCache' = messageCache
        /\ net' = net \union (s.out \union shares)
    <2>1. SenderBecomes([s EXCEPT !.tx.queue = <<>>], shares) /\ typed' = typed
      BY <1>5 DEF adoptKey
    <2>2. [s EXCEPT !.tx.queue = <<>>].tx = [s.tx EXCEPT !.queue = <<>>] /\ [s EXCEPT !.tx.queue = <<>>].out = s.out
      BY <1>6
    <2> HIDE DEF shares
    <2> QED BY <2>1, <2>2 DEF SenderBecomes, Sent, relayVars
  <1>8. TxOk(s.tx) /\ s.tx.acked = t.acked /\ NetOk(s.out, Wire(s.tx)) /\ AcksOk(s.out, rx, Wire(s.tx))
    BY <1>6 DEF Sends
  <1>9. /\ TxRec(tx') /\ tx'.recent = s.tx.recent /\ tx'.wire = s.tx.wire /\ tx'.queue = <<>>
        /\ tx'.chain = s.tx.chain /\ tx'.nextSeq = s.tx.nextSeq /\ tx'.highest = s.tx.highest
        /\ tx'.hist = s.tx.hist /\ tx'.acked = s.tx.acked /\ tx'.probe = s.tx.probe
    <2>1. TxRec(s.tx)
      BY <1>8 DEF TxOk
    <2> QED BY <1>7, <2>1 DEF TxRec, TxField
  <1>10. TxOk(tx') /\ Wire(tx') = Wire(s.tx)
    BY <1>8, <1>9 DEF TxOk, Wire
  <1>11. AckedOk(tx', rx) /\ Wire(tx) <= Wire(tx')
    <2>1. /\ tx'.acked = tx.acked
          /\ \/ tx'.wire = tx.wire /\ tx'.probe = tx.probe
             \/ Len(tx'.wire) = Len(tx.wire) + 1 /\ tx'.probe = TRUE
      BY <1>3, <1>6, <1>8, <1>9 DEF Sends
    <2> QED BY <1>1, <1>10, <2>1, SendKeepsAcked
  <1>12. Len(tx'.wire) <= typed' + 1
    <2>1. Len(s.tx.wire) = 0 \/ Len(s.tx.wire) = 1
      <3>1. Len(t.wire) = 0
        BY <1>2, <1>3
      <3> QED BY <1>6, <3>1 DEF Sends
    <2>2. typed' \in Nat /\ tx'.wire = s.tx.wire
      BY <1>7, <1>9, InvNear
    <2>3. Len(tx'.wire) = 0 \/ Len(tx'.wire) = 1
      BY <2>1, <2>2, Zenon
    <2>4. typed' \in Nat
      BY <2>2
    <2>5. \A x : x = 0 \/ x = 1 => \A y \in Nat : x <= y + 1
      OBVIOUS
    <2> QED BY <2>3, <2>4, <2>5, Zenon
  <1>13. NetOk(s.out \union shares, Wire(tx')) /\ AcksOk(s.out \union shares, rx, Wire(tx'))
    <2>1. NetOk(shares, Wire(tx')) /\ AcksOk(shares, rx, Wire(tx'))
      BY SharesOk
    <2> HIDE DEF shares
    <2> QED BY <1>8, <1>10, <2>1 DEF NetOk, AcksOk
  <1> QED BY <1>1, <1>7, <1>10, <1>11, <1>12, <1>13, SenderKeepsInv

LEMMA RetryChainShareKeepsInv ==
  ASSUME Inv, RetryChainShare
  PROVE  Inv' /\ Onward
  <1> DEFINE shares == {SharePkt(r, 0) : r \in Receiver}
  <1>1. TxOk(tx) /\ TxRec(tx) /\ AckedOk(tx, rx)
    BY DEF Inv, TxOk
  <1>2. /\ tx' = [tx EXCEPT !.retries = @ + 1] /\ typed' = typed /\ rx' = rx /\ messageCache' = messageCache
        /\ net' = net \union ({} \union shares)
    BY DEF RetryChainShare, SenderBecomes, Sent, relayVars
  <1>3. /\ TxRec(tx') /\ tx'.recent = tx.recent /\ tx'.wire = tx.wire /\ tx'.queue = tx.queue
        /\ tx'.chain = tx.chain /\ tx'.nextSeq = tx.nextSeq /\ tx'.highest = tx.highest
        /\ tx'.hist = tx.hist /\ tx'.acked = tx.acked /\ tx'.probe = tx.probe
    BY <1>1, <1>2 DEF TxRec, TxField
  <1>4. AckedOk(tx', rx) /\ tx'.recent \in BOOLEAN
    BY <1>1, <1>3 DEF AckedOk, Wire, TxOk
  <1>5. NetOk(shares, Total) /\ AcksOk(shares, rx, Total)
    BY SharesOk
  <1> HIDE DEF shares
  <1> QED BY <1>2, <1>3, <1>4, <1>5, IdleSenderKeepsInv

LEMMA ProbeKeepsInv ==
  ASSUME Inv, Probe
  PROVE  Inv' /\ Onward
  <1>1. TxOk(tx) /\ TxRec(tx) /\ AckedOk(tx, rx)
    BY DEF Inv, TxOk
  <1>2. /\ tx' = [tx EXCEPT !.probe = Unacknowledged] /\ typed' = typed /\ rx' = rx
        /\ messageCache' = messageCache /\ net' = net \union ({} \union sendSync)
    BY DEF Probe, SenderBecomes, Sent, relayVars
  <1>3. /\ TxRec(tx') /\ tx'.recent = tx.recent /\ tx'.wire = tx.wire /\ tx'.queue = tx.queue
        /\ tx'.chain = tx.chain /\ tx'.nextSeq = tx.nextSeq /\ tx'.highest = tx.highest
        /\ tx'.hist = tx.hist /\ tx'.acked = tx.acked /\ tx'.probe = Unacknowledged
    BY <1>1, <1>2 DEF TxRec, TxField
  <1>4. Near(Total) /\ Total = Wire(tx) /\ Total \in Prior .. Total /\ Prior \in Nat /\ Total \in Nat
    BY InvNear
  <1>5. AckedOk(tx', rx)
    <2>1. PICK a \in Prior .. Wire(tx) : tx.acked = SeqOf(a) /\ (a > Prior => HeardBy(rx, a))
      BY <1>1 DEF AckedOk
    <2>2. Unacknowledged <=> a < Total
      <3>1. tx.highest = SeqOf(Total)
        BY <1>1, <1>4 DEF TxOk
      <3>2. IsStale(seqDelta(SeqOf(Total), SeqOf(a))) <=> a < Total
        BY <1>4, PositionsClose, Verdicts DEF SeqOf
      <3> QED BY <2>1, <3>1, <3>2 DEF Unacknowledged
    <2>3. ~tx'.probe => a = Wire(tx')
      <3>1. Wire(tx') = Total
        BY <1>3, <1>4 DEF Wire
      <3>2. a \in Nat /\ a <= Total
        BY <1>4
      <3> QED BY <1>3, <1>4, <2>2, <3>1, <3>2
    <2>4. a \in Prior .. Wire(tx')
      BY <1>3 DEF Wire
    <2> QED BY <1>3, <2>1, <2>3, <2>4 DEF AckedOk
  <1>6. tx'.recent \in BOOLEAN
    BY <1>1, <1>3 DEF TxOk
  <1>7. NetOk(sendSync, Total) /\ AcksOk(sendSync, rx, Total)
    <2>1. ASSUME NEW m \in sendSync
          PROVE  m.type = "SYNC" /\ m.highest = SeqOf(Total)
      BY <1>1, <1>4 DEF sendSync, SyncPkts, TxOk
    <2> QED BY <1>4, <2>1 DEF NetOk, AcksOk, Packet
  <1> QED BY <1>2, <1>3, <1>5, <1>6, <1>7, IdleSenderKeepsInv

LEMMA OnNackKeepsInv ==
  ASSUME Inv, NEW m \in net, OnNack(m)
  PROVE  Inv' /\ Onward
  <1> DEFINE again == Retransmits(m.missing)
             share == IF tx.chain = NoSeq THEN {} ELSE {SharePkt(m.from, 0)}
  <1>1. TxOk(tx) /\ TxRec(tx) /\ AckedOk(tx, rx) /\ tx.recent \in BOOLEAN /\ Total = Wire(tx)
    BY InvNear DEF Inv, TxOk
  <1>2. /\ tx' = tx /\ typed' = typed /\ rx' = rx /\ messageCache' = messageCache
        /\ net' = (net \ {m}) \union (again \union share)
    BY DEF OnNack, Handled, relayVars
  <1>3. \A b \in again : Datum(b, Total) /\ b.type = "DATA"
    <2>1. SUFFICES ASSUME NEW d \in tx.hist
                   PROVE  Datum(DataPkt("relay", d, Ids(tx.hist)), Total)
      BY DEF Retransmits, Datum
    <2> QED BY <1>1, PktIsDatum DEF TxOk
  <1>4. \A b \in share : b.type = "CHAIN_SHARE"
    BY DEF SharePkt
  <1> HIDE DEF again, share
  <1>5. NetOk(again \union share, Total) /\ AcksOk(again \union share, rx, Total)
    BY <1>3, <1>4 DEF NetOk, AcksOk, Packet
  <1> QED BY <1>1, <1>2, <1>5, IdleSenderKeepsInv

LEMMA OnAckKeepsInv ==
  ASSUME Inv, NEW m \in net, OnAck(m)
  PROVE  Inv' /\ Onward
  <1>1. TxOk(tx) /\ TxRec(tx) /\ AckedOk(tx, rx) /\ tx.recent \in BOOLEAN
    BY DEF Inv, TxOk
  <1>2. /\ tx' = [tx EXCEPT !.acked = IF AckCounts(m.seq) THEN m.seq ELSE @] /\ typed' = typed /\ rx' = rx
        /\ messageCache' = messageCache /\ net' = (net \ {m}) \union {} /\ m.type = "ACK"
    BY DEF OnAck, Handled, Arrives, relayVars
  <1>3. /\ TxRec(tx') /\ tx'.recent = tx.recent /\ tx'.wire = tx.wire /\ tx'.queue = tx.queue
        /\ tx'.chain = tx.chain /\ tx'.nextSeq = tx.nextSeq /\ tx'.highest = tx.highest
        /\ tx'.hist = tx.hist /\ tx'.probe = tx.probe
        /\ tx'.acked = IF AckCounts(m.seq) THEN m.seq ELSE tx.acked
    BY <1>1, <1>2 DEF TxRec, TxField
  <1>4. Near(Total) /\ Total = Wire(tx) /\ Total \in Prior .. Total /\ Prior \in Nat /\ Total \in Nat
    BY InvNear
  <1>5. Wire(tx') = Total
    BY <1>3, <1>4 DEF Wire
  <1>6. CASE ~AckCounts(m.seq)
    <2>1. AckedOk(tx', rx)
      BY <1>1, <1>3, <1>6 DEF AckedOk, Wire
    <2> QED BY <1>1, <1>2, <1>3, <2>1, NothingSent, IdleSenderKeepsInv
  <1>7. CASE AckCounts(m.seq)
    <2>1. PICK n \in Prior + 1 .. Total : m.seq = SeqOf(n) /\ HeardBy(rx, n)
      BY <1>2 DEF Inv, AcksOk
    <2>2. n \in Prior .. Total /\ n \in Nat
      BY <1>4
    <2>3. IsStale(seqDelta(SeqOf(Total), SeqOf(n))) <=> n < Total
      BY <1>4, <2>2, PositionsClose, Verdicts DEF SeqOf
    <2>4. tx.highest = SeqOf(Total)
      BY <1>1, <1>4 DEF TxOk
    <2>5. n = Total
      BY <1>4, <1>7, <2>1, <2>2, <2>3, <2>4 DEF AckCounts
    <2>6. AckedOk(tx', rx)
      BY <1>3, <1>5, <1>7, <2>1, <2>2, <2>5 DEF AckedOk
    <2> QED BY <1>1, <1>2, <1>3, <2>6, NothingSent, IdleSenderKeepsInv
  <1> QED BY <1>6, <1>7

LEMMA OnDictResetSenderKeepsInv ==
  ASSUME Inv, NEW m \in net, OnDictResetSender(m)
  PROVE  Inv' /\ Onward
  <1>1. TxOk(tx) /\ TxRec(tx) /\ AckedOk(tx, rx) /\ tx.recent \in BOOLEAN
    BY DEF Inv, TxOk
  <1>2. /\ tx' = [tx EXCEPT !.hist = {}] /\ typed' = typed /\ rx' = rx /\ messageCache' = messageCache
        /\ net' = (net \ {m}) \union {}
    BY DEF OnDictResetSender, Handled, relayVars
  <1>3. /\ TxRec(tx') /\ tx'.recent = tx.recent /\ tx'.wire = tx.wire /\ tx'.queue = tx.queue
        /\ tx'.chain = tx.chain /\ tx'.nextSeq = tx.nextSeq /\ tx'.highest = tx.highest
        /\ tx'.hist = {} /\ tx'.acked = tx.acked /\ tx'.probe = tx.probe
    BY <1>1, <1>2 DEF TxRec, TxField
  <1>4. AckedOk(tx', rx)
    BY <1>1, <1>3 DEF AckedOk, Wire
  <1> QED BY <1>1, <1>2, <1>3, <1>4, NothingSent, IdleSenderKeepsInv

-----------------------------------------------------------------------------
(* The relay and the network.                                              *)

LEMMA QuietKeepsInv ==
  ASSUME Inv, tx' = tx, rx' = rx, typed' = typed, CacheOk(messageCache', Total),
         NEW out, net' \subseteq net \union out, NetOk(out, Total), AcksOk(out, rx, Total)
  PROVE  Inv' /\ Onward
  <1>1. Total' = Total
    BY DEF Total
  <1>2. NetOk(net', Total) /\ AcksOk(net', rx, Total)
    BY DEF Inv, NetOk, AcksOk
  <1>3. Onward
    BY <1>1, InvNear DEF Onward
  <1> QED BY <1>1, <1>2, <1>3 DEF Inv

LEMMA RelayDataKeepsInv ==
  ASSUME Inv, NEW m \in net, RelayData(m)
  PROVE  Inv' /\ Onward
  <1> DEFINE out == {[m EXCEPT !.to = r] : r \in Receiver}
  <1>1. /\ tx' = tx /\ rx' = rx /\ typed' = typed /\ messageCache' = CachePut(messageCache, highestSeq, m.seq, m)
        /\ net' = (net \ {m}) \union out /\ m.type = "DATA"
    BY DEF RelayData, Handled, Arrives
  <1>2. Datum(m, Total)
    BY <1>1 DEF Inv, NetOk, Packet
  <1>3. \A b \in out : Datum(b, Total) /\ b.type = "DATA"
    <2>1. SUFFICES ASSUME NEW r \in Receiver
                   PROVE  Datum([m EXCEPT !.to = r], Total)
      BY DEF Datum
    <2> QED BY <1>2, Readdressed
  <1>4. CacheOk(messageCache', Total)
    <2> DEFINE c == CachePut(messageCache, highestSeq, m.seq, m)
    <2>1. c = [k \in Seq24 |-> c[k]]
      BY DEF CachePut
    <2>2. \A k \in Seq24 : c[k] = NoBuf \/ c[k] = messageCache[k] \/ c[k] = m
      <3>1. messageCache = [k \in Seq24 |-> messageCache[k]]
        BY DEF Inv, CacheOk
      <3>2. SUFFICES ASSUME NEW k \in Seq24
                     PROVE  c[k] = NoBuf \/ c[k] = messageCache[k] \/ c[k] = m
        BY Zenon
      <3>3. c[k] = NoBuf \/ c[k] = [messageCache EXCEPT ![m.seq] = m][k]
        BY DEF CachePut
      <3>4. [messageCache EXCEPT ![m.seq] = m][k] = messageCache[k] \/ [messageCache EXCEPT ![m.seq] = m][k] = m
        BY <3>1
      <3> HIDE DEF c
      <3> QED BY <3>3, <3>4
    <2> HIDE DEF c
    <2>3. c = messageCache'
      BY <1>1 DEF c
    <2>4. CacheOk(c, Total)
      BY <1>2, <2>1, <2>2 DEF Inv, CacheOk
    <2> QED BY <2>3, <2>4
  <1> HIDE DEF out
  <1>5. NetOk(out, Total) /\ AcksOk(out, rx, Total)
    BY <1>3 DEF NetOk, AcksOk, Packet
  <1> QED BY <1>1, <1>4, <1>5, QuietKeepsInv

LEMMA RelayNackKeepsInv ==
  ASSUME Inv, NEW m \in net, RelayNack(m)
  PROVE  Inv' /\ Onward
  <1> DEFINE again == {[messageCache[k] EXCEPT !.to = m.from] : k \in {j \in m.missing : messageCache[j] # NoBuf}}
             nack == {NackPkt("sender", m.from, m.missing)}
  <1>1. /\ tx' = tx /\ rx' = rx /\ typed' = typed /\ messageCache' = messageCache
        /\ net' = (net \ {m}) \union (again \union nack) /\ m.type = "NACK"
    BY DEF RelayNack, Handled, Arrives, relayVars
  <1>2. m.missing \subseteq Seq24 /\ CacheOk(messageCache, Total)
    BY <1>1 DEF Inv, NetOk, Packet
  <1>3. \A b \in again : Datum(b, Total) /\ b.type = "DATA"
    <2>1. SUFFICES ASSUME NEW k \in m.missing, messageCache[k] # NoBuf
                   PROVE  Datum([messageCache[k] EXCEPT !.to = m.from], Total)
      BY DEF Datum
    <2>2. Datum(messageCache[k], Total)
      BY <1>2, <2>1 DEF CacheOk
    <2> QED BY <2>2, Readdressed
  <1>4. \A b \in nack : b.type = "NACK" /\ b.missing = m.missing
    BY DEF NackPkt
  <1> HIDE DEF again, nack
  <1>5. NetOk(again \union nack, Total) /\ AcksOk(again \union nack, rx, Total)
    BY <1>2, <1>3, <1>4 DEF NetOk, AcksOk, Packet
  <1> QED BY <1>1, <1>2, <1>5, QuietKeepsInv

LEMMA LoseKeepsInv ==
  ASSUME Inv, NEW m \in net, Lose(m)
  PROVE  Inv' /\ Onward
  <1>1. tx' = tx /\ rx' = rx /\ typed' = typed /\ messageCache' = messageCache /\ net' \subseteq net \union {}
    BY DEF Lose, relayVars
  <1>2. CacheOk(messageCache', Total)
    BY <1>1 DEF Inv
  <1> QED BY <1>1, <1>2, NothingSent, QuietKeepsInv

=============================================================================
