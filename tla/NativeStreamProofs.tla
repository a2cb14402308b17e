------------------------- MODULE NativeStreamProofs -------------------------
(***************************************************************************)
(* The command-line client's stream: its receivers keep the inductive      *)
(* invariant of NativeStreamLemmas, the properties that follow from it,    *)
(* and that it implements LossyDelivery.                                   *)
(***************************************************************************)
EXTENDS NativeStreamLemmas

-----------------------------------------------------------------------------
(* The receivers.                                                          *)

\* Receiver r went from p to q; the others and the sender did nothing.
Went(r, u, p, q) ==
  /\ AtRest(rx[r], p, Total) /\ AtRest(u, q, Total)
  /\ p <= q /\ Abstract!Continues(rx[r].up, u.up, p + 1, q)
  /\ rx' = [rx EXCEPT ![r] = u] /\ tx' = tx /\ typed' = typed /\ messageCache' = messageCache

Moved(r) == \E u, p, q : Went(r, u, p, q)

LEMMA MovedKeepsInv ==
  ASSUME Inv, NEW r \in Receiver, Moved(r), NEW out, net' \subseteq net \union out,
         NetOk(out, Total), AcksOk(out, rx, Total)
  PROVE  Inv'
  <1>1. PICK u, p, q : Went(r, u, p, q)
    BY DEF Moved
  <1>2. rx = [s \in Receiver |-> rx[s]] /\ rx' = [rx EXCEPT ![r] = u] /\ tx' = tx /\ Total' = Total
    BY <1>1 DEF Inv, ReceiversOk, Went, Total
  <1>3. rx' = [s \in Receiver |-> IF s = r THEN u ELSE rx[s]]
    BY <1>2
  <1>4. ReceiversOk(rx', Total)
    <2>1. rx' = [s \in Receiver |-> rx'[s]]
      BY <1>3
    <2>2. AtRest(rx'[r], q, Total)
      BY <1>1, <1>3 DEF Went
    <2>3. \A s \in Receiver : s # r => \E k : AtRest(rx'[s], k, Total)
      BY <1>3 DEF Inv, ReceiversOk
    <2> QED BY <2>1, <2>2, <2>3 DEF ReceiversOk
  <1>5. ASSUME NEW n, HeardBy(rx, n)
        PROVE  HeardBy(rx', n)
    <2>1. PICK s \in Receiver : \E i \in 1 .. Len(rx[s].up) : rx[s].up[i] = n
      BY <1>5 DEF HeardBy
    <2>2. PICK i \in 1 .. Len(rx[s].up) : rx[s].up[i] = n
      BY <2>1
    <2>3. CASE s # r
      <3>1. rx'[s] = rx[s]
        BY <1>3, <2>3
      <3> QED BY <2>2, <3>1 DEF HeardBy
    <2>4. CASE s = r
      <3>1. rx'[r].up = u.up
        BY <1>3
      <3>2. Len(rx[r].up) \in Nat /\ Len(u.up) \in Nat
        BY <1>1 DEF Went, AtRest, RxOk, Handed
      <3>3. Len(rx[r].up) <= Len(u.up) /\ \A j \in 1 .. Len(rx[r].up) : u.up[j] = rx[r].up[j]
        BY <1>1 DEF Went, Abstract!Continues
      <3>4. i \in 1 .. Len(u.up) /\ u.up[i] = n
        BY <2>2, <2>4, <3>2, <3>3
      <3> QED BY <3>1, <3>4 DEF HeardBy
    <2> QED BY <2>3, <2>4
  <1>6. AcksOk(net', rx', Total)
    BY <1>5 DEF AcksOk, Inv
  <1>7. AckedOk(tx', rx')
    BY <1>2, <1>5 DEF AckedOk, Inv
  <1>8. NetOk(net', Total)
    BY DEF NetOk, Inv
  <1>9. typed' = typed /\ messageCache' = messageCache
    BY <1>1 DEF Went
  <1> QED BY <1>2, <1>4, <1>6, <1>7, <1>8, <1>9 DEF Inv

\* The state a handler leaves behind.
LEMMA HandlerMoves ==
  ASSUME Inv, NEW r \in Receiver, NEW m \in net, NEW result, NEW p, NEW q, AtRest(rx[r], p, Total),
         Moves(rx[r], result, p, q, Total), Prior > 0 => \A b \in result.buffer : b.id >= q + 2,
         ReceiverBecomes(r, m, result)
  PROVE  Inv' /\ Moved(r)
  <1> DEFINE u == [result EXCEPT !.nack = {}, !.reset = FALSE]
             out == (IF result.nack = {} THEN {} ELSE {NackPkt("relay", r, result.nack)})
                      \union (IF result.reset THEN ResetPkts(r) ELSE {})
  <1>1. /\ rx' = [rx EXCEPT ![r] = u] /\ net' = (net \ {m}) \union out
        /\ tx' = tx /\ typed' = typed /\ messageCache' = messageCache
    BY DEF ReceiverBecomes, Handled, relayVars
  <1>2. RxOk(result, q, Total) /\ RxRec(result) /\ p <= q /\ Abstract!Continues(rx[r].up, result.up, p + 1, q)
    BY DEF Moves, RxOk
  <1>3. \A b \in out : (b.type = "NACK" /\ b.missing = result.nack) \/ b.type = "DICT_RESET"
    BY DEF NackPkt, ResetPkts
  <1>4. /\ RxRec(u) /\ u.hi = result.hi /\ u.buffer = result.buffer /\ u.up = result.up /\ u.ack = result.ack
        /\ u.nack = {} /\ u.reset = FALSE /\ u.hist = result.hist /\ u.overdue = result.overdue
        /\ u.waiting = result.waiting
    BY <1>2 DEF RxRec, RxField
  <1> HIDE DEF u, out
  <1>5. RxOk(u, q, Total)
    BY <1>2, <1>4 DEF RxOk, Stands, Buffered, AckDue, Sorted
  <1>6. AtRest(u, q, Total)
    BY <1>4, <1>5 DEF AtRest
  <1>7. Went(r, u, p, q)
    BY <1>1, <1>2, <1>4, <1>6 DEF Went
  <1>8. Moved(r)
    BY <1>7 DEF Moved
  <1>9. NetOk(out, Total) /\ AcksOk(out, rx, Total)
    <2>1. result.nack \subseteq Seq24
      BY <1>2 DEF RxOk, Sorted
    <2> QED BY <1>3, <2>1 DEF NetOk, AcksOk, Packet
  <1>10. net' \subseteq net \union out
    BY <1>1
  <1> QED BY <1>8, <1>9, <1>10, MovedKeepsInv

LEMMA RestingPlace ==
  ASSUME Inv, NEW r \in Receiver
  PROVE  \E p : /\ AtRest(rx[r], p, Total) /\ RxOk(rx[r], p, Total) /\ p \in Prior .. Total /\ p \in Nat
                /\ Prior > 0 => \A b \in rx[r].buffer : b.id >= p + 2
  <1>1. PICK p : AtRest(rx[r], p, Total)
    BY DEF Inv, ReceiversOk
  <1>2. RxOk(rx[r], p, Total) /\ (Prior > 0 => \A b \in rx[r].buffer : b.id >= p + 2)
    BY <1>1 DEF AtRest
  <1>3. p \in Prior .. Total /\ p \in Nat
    BY <1>2, InvNear, StandsInt DEF RxOk
  <1> QED BY <1>1, <1>2, <1>3

\* A handler that leaves the receiver's place, buffer and hand-ups alone.
LEMMA StillMoves ==
  ASSUME Inv, NEW r \in Receiver, NEW m \in net, NEW result, ReceiverBecomes(r, m, result), RxRec(result),
         result.hi = rx[r].hi, result.buffer = rx[r].buffer, result.up = rx[r].up, result.ack = rx[r].ack,
         result.nack = rx[r].nack, result.hist \subseteq rx[r].hist, result.overdue = rx[r].overdue,
         result.waiting = rx[r].waiting
  PROVE  Inv' /\ Moved(r)
  <1>1. PICK p : /\ AtRest(rx[r], p, Total) /\ RxOk(rx[r], p, Total)
                 /\ Prior > 0 => \A b \in rx[r].buffer : b.id >= p + 2
    BY RestingPlace
  <1>2. RxOk(result, p, Total)
    BY <1>1 DEF RxOk, Stands, Buffered, AckDue, Sorted
  <1>3. Moves(rx[r], result, p, p, Total)
    BY <1>2, InvNear, MovesStill
  <1> QED BY <1>1, <1>3, HandlerMoves

LEMMA RxRecHolds ==
  ASSUME Inv, NEW r \in Receiver
  PROVE  RxRec(rx[r])
  BY RestingPlace DEF RxOk

LEMMA OnDataStaleMoves ==
  ASSUME Inv, NEW r \in Receiver, NEW m \in net, OnDataStale(r, m)
  PROVE  Inv' /\ Moved(r)
  BY RxRecHolds, StillMoves DEF OnDataStale

LEMMA OnChainShareMoves ==
  ASSUME Inv, NEW r \in Receiver, NEW m \in net, OnChainShare(r, m)
  PROVE  Inv' /\ Moved(r)
  <1> DEFINE t == [rx[r] EXCEPT !.chain = m.index]
  <1>1. /\ RxRec(t) /\ t.hi = rx[r].hi /\ t.buffer = rx[r].buffer /\ t.up = rx[r].up
        /\ t.ack = rx[r].ack /\ t.nack = rx[r].nack /\ t.hist = rx[r].hist /\ t.overdue = rx[r].overdue
        /\ t.waiting = rx[r].waiting
    BY RxRecHolds DEF RxRec, RxField
  <1>2. ReceiverBecomes(r, m, t)
    BY DEF OnChainShare
  <1> HIDE DEF t
  <1> QED BY <1>1, <1>2, StillMoves

LEMMA OnDictResetMoves ==
  ASSUME Inv, NEW r \in Receiver, NEW m \in net, OnDictReset(r, m)
  PROVE  Inv' /\ Moved(r)
  <1> DEFINE t == [rx[r] EXCEPT !.hist = {}]
  <1>1. /\ RxRec(t) /\ t.hi = rx[r].hi /\ t.buffer = rx[r].buffer /\ t.up = rx[r].up
        /\ t.ack = rx[r].ack /\ t.nack = rx[r].nack /\ t.hist = {} /\ t.overdue = rx[r].overdue
        /\ t.waiting = rx[r].waiting
    BY RxRecHolds DEF RxRec, RxField
  <1>2. ReceiverBecomes(r, m, t)
    BY DEF OnDictReset
  <1> HIDE DEF t
  <1> QED BY <1>1, <1>2, StillMoves

\* AheadOf counts in messages: a packet past the next one is by that much
\* ahead, and one that is next, or the baseline, is of a message beyond p.
Counts(ahead, n, p) ==
  /\ ahead > 1 /\ ~IsStale(ahead) => ahead = n - p
  /\ ahead = 1 => n > p
  /\ ahead = 1 /\ Prior > 0 => n = p + 1

LEMMA AheadCounts ==
  ASSUME NEW T, Near(T), NEW r, NEW p, Stands(rx[r], p, T), NEW m, Datum(m, T)
  PROVE  Counts(AheadOf(r, m.seq), m.id, p)
  <1>1. p \in Nat /\ p \in Prior .. T /\ T \in Nat /\ Prior \in Nat
    BY StandsInt
  <1>2. Known(m.id, T) /\ m.seq = SeqOf(m.id) /\ m.id \in Nat /\ m.id >= 1 /\ m.id <= T
    BY DEF Datum, Known
  <1>3. CASE rx[r].hi # NoSeq
    <2> DEFINE d == seqDelta(SeqOf(p), SeqOf(m.id))
    <2>1. AheadOf(r, m.seq) = d
      BY <1>2, <1>3 DEF AheadOf, Stands
    <2>2. d \in Nat /\ (m.id >= p => d = m.id - p) /\ (IsAhead(d) <=> m.id > p) /\ (IsStale(d) <=> m.id < p)
      BY <1>1, <1>2, KnownClose, Verdicts DEF SeqOf
    <2> HIDE DEF d
    <2>3. d = 1 => IsAhead(d)
      BY SeqModAssumption DEF IsAhead, IsStale
    <2>4. ~IsStale(d) => m.id >= p
      BY <1>1, <1>2, <2>2
    <2>5. ~IsStale(d) => d = m.id - p
      BY <2>2, <2>4
    <2>6. d = 1 => m.id > p /\ m.id = p + 1
      BY <1>1, <1>2, <2>2, <2>3
    <2> QED BY <2>1, <2>5, <2>6 DEF Counts
  <1>4. CASE rx[r].hi = NoSeq
    <2>1. p = 0 /\ Prior = 0
      BY <1>1, <1>4 DEF Stands
    <2>2. m.id < SEQ_MOD
      BY <1>2, <2>1, BoundsHold DEF Near, Bounds
    <2>3. m.seq = m.id
      BY <1>2, <2>2, ModLow, SeqModAssumption DEF SeqOf
    <2>4. AheadOf(r, m.seq) = m.id \/ AheadOf(r, m.seq) = 1
      BY <1>4, <2>3 DEF AheadOf
    <2> QED BY <1>2, <2>1, <2>4 DEF Counts
  <1> QED BY <1>3, <1>4

LEMMA OnDataGapMoves ==
  ASSUME Inv, NEW r \in Receiver, NEW m \in net, OnDataGap(r, m)
  PROVE  Inv' /\ Moved(r)
  <1> DEFINE ahead == AheadOf(r, m.seq)
             st == [rx[r] EXCEPT !.buffer = {b \in @ : b.seq # m.seq} \union {m}]
  <1>1. PICK p : /\ AtRest(rx[r], p, Total) /\ RxOk(rx[r], p, Total) /\ p \in Prior .. Total /\ p \in Nat
                 /\ Prior > 0 => \A b \in rx[r].buffer : b.id >= p + 2
    BY RestingPlace
  <1>2. m.type = "DATA" /\ ahead > 1 /\ ~IsStale(ahead) /\ ReceiverBecomes(r, m, CheckGap(st, ahead - 1))
    BY DEF OnDataGap, Arrives
  <1>3. Datum(m, Total) /\ Near(Total) /\ Total \in Nat /\ m.id \in Nat /\ m.id <= Total
    BY <1>2, InvNear DEF Inv, NetOk, Packet, Datum, Known
  <1>4. ahead = m.id - p
    <2>1. Stands(rx[r], p, Total)
      BY <1>1 DEF RxOk
    <2>2. Counts(ahead, m.id, p)
      BY <1>3, <2>1, AheadCounts, Zenon
    <2> QED BY <1>2, <2>2 DEF Counts
  <1> HIDE DEF ahead
  <1>5. m.id >= p + 2 /\ ahead - 1 \in Nat /\ p + (ahead - 1) <= Total
    BY <1>1, <1>2, <1>3, <1>4
  <1>6. /\ RxRec(st) /\ st.hi = rx[r].hi /\ st.up = rx[r].up /\ st.ack = rx[r].ack /\ st.nack = rx[r].nack
        /\ st.buffer = {b \in rx[r].buffer : b.seq # m.seq} \union {m}
        /\ st.hist = rx[r].hist /\ st.overdue = rx[r].overdue /\ st.waiting = rx[r].waiting
    BY RxRecHolds DEF RxRec, RxField
  <1> HIDE DEF st
  <1>7. \A b \in st.buffer : b \in rx[r].buffer \/ b = m
    BY <1>6
  <1>8. IsFiniteSet(st.buffer)
    <2>1. IsFiniteSet(rx[r].buffer)
      BY <1>1 DEF RxOk, Buffered
    <2>2. {b \in rx[r].buffer : b.seq # m.seq} \in SUBSET rx[r].buffer
      OBVIOUS
    <2>3. IsFiniteSet({b \in rx[r].buffer : b.seq # m.seq})
      BY <2>1, <2>2, FS_Subset
    <2> QED BY <1>6, <2>3, FS_AddElement
  <1>9. RxOk(st, p, Total)
    <2>1. Buffered(st, Total)
      BY <1>1, <1>3, <1>7, <1>8 DEF RxOk, Buffered
    <2> QED BY <1>1, <1>6, <2>1 DEF RxOk, Stands, AckDue, Sorted
  <1>10. PICK q : /\ Moves(st, CheckGap(st, ahead - 1), p, q, Total)
                  /\ \/ CheckGap(st, ahead - 1).buffer = {}
                     \/ q = p /\ CheckGap(st, ahead - 1).buffer = st.buffer
    BY <1>3, <1>5, <1>9, GapMoves
  <1>11. Moves(rx[r], CheckGap(st, ahead - 1), p, q, Total)
    BY <1>6, <1>10 DEF Moves
  <1>12. Prior > 0 => \A b \in CheckGap(st, ahead - 1).buffer : b.id >= q + 2
    BY <1>1, <1>5, <1>7, <1>10
  <1> QED BY <1>1, <1>2, <1>11, <1>12, HandlerMoves

LEMMA OnDataNextMoves ==
  ASSUME Inv, NEW r \in Receiver, NEW m \in net, OnDataNext(r, m)
  PROVE  Inv' /\ Moved(r)
  <1> DEFINE s == DecryptAndProcess(rx[r], m)
             t == processBufferedPackets(s)
  <1>1. PICK p : /\ AtRest(rx[r], p, Total) /\ RxOk(rx[r], p, Total) /\ p \in Prior .. Total /\ p \in Nat
                 /\ Prior > 0 => \A b \in rx[r].buffer : b.id >= p + 2
    BY RestingPlace
  <1>2. /\ m.type = "DATA" /\ AheadOf(r, m.seq) = 1
        /\ ReceiverBecomes(r, m, IF Decrypts(rx[r], m) THEN t ELSE rx[r])
    BY DEF OnDataNext, Arrives
  <1>3. Datum(m, Total) /\ Near(Total) /\ Total \in Nat /\ m.id \in Nat
    BY <1>2, InvNear DEF Inv, NetOk, Packet, Datum, Known
  <1>4. m.id > p /\ (Prior > 0 => m.id = p + 1)
    <2>1. Stands(rx[r], p, Total)
      BY <1>1 DEF RxOk
    <2>2. Counts(AheadOf(r, m.seq), m.id, p)
      BY <1>3, <2>1, AheadCounts, Zenon
    <2> QED BY <1>2, <2>2 DEF Counts
  <1>5. CASE ~Decrypts(rx[r], m)
    BY <1>2, <1>5, RxRecHolds, StillMoves
  <1>6. CASE Decrypts(rx[r], m)
    <2>1. PICK k \in p .. m.id : Moves(rx[r], s, p, k, Total) /\ s.buffer = rx[r].buffer
      BY <1>1, <1>3, <1>4, ProcessMoves
    <2> HIDE DEF s
    <2>2. RxOk(s, k, Total)
      BY <2>1 DEF Moves
    <2>3. PICK q : /\ Moves(s, t, k, q, Total)
                   /\ \A b \in t.buffer : b \in s.buffer /\ (b.id > k => b.id >= q + 2)
      BY <1>3, <2>2, DrainMoves
    <2> HIDE DEF t
    <2>4. Moves(rx[r], t, p, q, Total)
      BY <1>1, <1>3, <2>1, <2>3, MovesOn
    <2>5. Prior > 0 => \A b \in t.buffer : b.id >= q + 2
      <3>1. SUFFICES ASSUME Prior > 0, NEW b \in t.buffer
                     PROVE  b.id >= q + 2
        OBVIOUS
      <3>2. b \in rx[r].buffer /\ b.id >= p + 2 /\ m.id = p + 1
        BY <1>1, <1>4, <2>1, <2>3, <3>1
      <3>3. b.id \in Nat
        BY <1>1, <3>2 DEF RxOk, Buffered, Datum, Known
      <3>4. k \in Nat /\ k <= p + 1
        BY <1>1, <3>2
      <3>5. b.id > k
        BY <1>1, <3>2, <3>3, <3>4
      <3> QED BY <2>3, <3>5
    <2>6. ReceiverBecomes(r, m, t)
      BY <1>2, <1>6
    <2> QED BY <1>1, <2>4, <2>5, <2>6, HandlerMoves
  <1> QED BY <1>5, <1>6

LEMMA OnSyncMoves ==
  ASSUME Inv, NEW r \in Receiver, NEW m \in net, OnSync(r, m)
  PROVE  Inv' /\ Moved(r)
  <1> DEFINE ahead == IF rx[r].hi = NoSeq THEN m.highest ELSE seqDelta(rx[r].hi, m.highest)
  <1>1. PICK p : /\ AtRest(rx[r], p, Total) /\ RxOk(rx[r], p, Total) /\ p \in Prior .. Total /\ p \in Nat
                 /\ Prior > 0 => \A b \in rx[r].buffer : b.id >= p + 2
    BY RestingPlace
  <1>2. m.type = "SYNC" /\ ReceiverBecomes(r, m, IF IsAhead(ahead) THEN CheckGap(rx[r], ahead) ELSE rx[r])
    BY DEF OnSync, Arrives
  <1>3. PICK n \in Prior .. Total : m.highest = SeqOf(n)
    BY <1>2 DEF Inv, NetOk, Packet
  <1>4. Near(Total) /\ Total \in Nat /\ Prior \in Nat /\ n \in Nat /\ n <= Total
    BY InvNear
  <1>5. IsAhead(ahead) => ahead \in Nat /\ p + ahead <= Total
    <2>1. CASE rx[r].hi # NoSeq
      <3> DEFINE d == seqDelta(SeqOf(p), SeqOf(n))
      <3>1. ahead = d
        BY <1>1, <1>3, <2>1 DEF RxOk, Stands
      <3>2. d \in Nat /\ (n >= p => d = n - p) /\ (IsAhead(d) <=> n > p)
        BY <1>1, <1>4, PositionsClose, Verdicts DEF SeqOf
      <3> HIDE DEF d, ahead
      <3>3. IsAhead(d) => d = n - p
        BY <1>1, <1>4, <3>2
      <3> QED BY <1>1, <1>4, <3>1, <3>2, <3>3
    <2>2. CASE rx[r].hi = NoSeq
      <3>1. p = 0 /\ Prior = 0
        BY <1>1, <1>4, <2>2 DEF RxOk, Stands
      <3>2. n < SEQ_MOD
        BY <1>4, <3>1, BoundsHold DEF Near, Bounds
      <3>3. SeqOf(n) = n
        BY <1>4, <3>2, ModLow, SeqModAssumption DEF SeqOf
      <3>4. ahead = n
        BY <1>3, <2>2, <3>3
      <3> HIDE DEF ahead
      <3> QED BY <1>4, <3>1, <3>4
    <2> QED BY <2>1, <2>2
  <1> HIDE DEF ahead
  <1>6. CASE ~IsAhead(ahead)
    BY <1>2, <1>6, RxRecHolds, StillMoves
  <1>7. CASE IsAhead(ahead)
    <2>1. ahead \in Nat /\ p + ahead <= Total /\ ReceiverBecomes(r, m, CheckGap(rx[r], ahead))
      BY <1>2, <1>5, <1>7
    <2>2. PICK q : /\ Moves(rx[r], CheckGap(rx[r], ahead), p, q, Total)
                   /\ \/ CheckGap(rx[r], ahead).buffer = {}
                      \/ q = p /\ CheckGap(rx[r], ahead).buffer = rx[r].buffer
      BY <1>1, <1>4, <2>1, GapMoves
    <2>3. Prior > 0 => \A b \in CheckGap(rx[r], ahead).buffer : b.id >= q + 2
      BY <1>1, <2>2
    <2> QED BY <1>1, <2>1, <2>2, <2>3, HandlerMoves
  <1> QED BY <1>6, <1>7

\* A receiver's timer: only its pending ACK or its stamps change.
LEMMA TimerMoves ==
  ASSUME Inv, NEW r \in Receiver, NEW u, rx' = [rx EXCEPT ![r] = u], tx' = tx, typed' = typed,
         messageCache' = messageCache, RxRec(u), u.hi = rx[r].hi, u.buffer = rx[r].buffer, u.up = rx[r].up,
         u.ack = rx[r].ack \/ u.ack = NoSeq, u.nack = rx[r].nack, u.reset = rx[r].reset,
         Sorted(u, Total),
         NEW out, net' \subseteq net \union out, NetOk(out, Total), AcksOk(out, rx, Total)
  PROVE  Inv' /\ Moved(r)
  <1>1. PICK p : AtRest(rx[r], p, Total) /\ RxOk(rx[r], p, Total)
    BY RestingPlace
  <1>2. AckDue(u)
    BY <1>1 DEF RxOk, AckDue
  <1>3. RxOk(u, p, Total)
    BY <1>1, <1>2 DEF RxOk, Stands, Buffered
  <1>4. AtRest(u, p, Total)
    BY <1>1, <1>3 DEF AtRest
  <1>5. Moves(rx[r], u, p, p, Total)
    BY <1>3, InvNear, MovesStill
  <1>6. Went(r, u, p, p)
    BY <1>1, <1>4, <1>5 DEF Went, Moves
  <1>7. Moved(r)
    BY <1>6 DEF Moved
  <1> QED BY <1>7, MovedKeepsInv

LEMMA FourSecondsPassMoves ==
  ASSUME Inv, NEW r \in Receiver, FourSecondsPass(r)
  PROVE  Inv' /\ Moved(r)
  <1> DEFINE u == [rx[r] EXCEPT !.overdue = @ \union Head(rx[r].waiting), !.waiting = Tail(@)]
  <1>1. rx = [s \in Receiver |-> rx[s]] /\ RxRec(rx[r])
    BY RxRecHolds DEF Inv, ReceiversOk
  <1>2. /\ rx' = [rx EXCEPT ![r].overdue = @ \union Head(rx[r].waiting), ![r].waiting = Tail(@)]
        /\ tx' = tx /\ typed' = typed /\ messageCache' = messageCache /\ net' \subseteq net \union {}
    BY DEF FourSecondsPass, relayVars
  <1>3. rx' = [rx EXCEPT ![r] = u]
    BY <1>1, <1>2 DEF RxRec, RxField
  <1>4. /\ RxRec(u) /\ u.hi = rx[r].hi /\ u.buffer = rx[r].buffer /\ u.up = rx[r].up /\ u.ack = rx[r].ack
        /\ u.nack = rx[r].nack /\ u.reset = rx[r].reset
    BY <1>1 DEF RxRec, RxField
  <1>5. Sorted(rx[r], Total)
    BY RestingPlace DEF RxOk
  <1>6. Sorted(u, Total)
    <2>1. /\ u.hist = rx[r].hist /\ u.overdue = rx[r].overdue \union Head(rx[r].waiting)
          /\ u.waiting = Tail(rx[r].waiting) /\ u.nack = rx[r].nack
      BY <1>1 DEF RxRec, RxField
    <2> HIDE DEF u
    <2>2. rx[r].waiting \in Seq(SUBSET Seq24) /\ rx[r].waiting # <<>>
      BY <1>5 DEF Sorted, FourSecondsPass
    <2>3. Head(rx[r].waiting) \in SUBSET Seq24 /\ Tail(rx[r].waiting) \in Seq(SUBSET Seq24)
      BY <2>2
    <2> QED BY <1>5, <2>1, <2>3 DEF Sorted
  <1> HIDE DEF u
  <1> QED BY <1>2, <1>3, <1>4, <1>6, NothingSent, TimerMoves

LEMMA SendAckMoves ==
  ASSUME Inv, NEW r \in Receiver, SendAck(r)
  PROVE  Inv' /\ Moved(r)
  <1> DEFINE u == [rx[r] EXCEPT !.ack = NoSeq]
             out == {AckPkt(rx[r].ack)}
  <1>1. rx = [s \in Receiver |-> rx[s]] /\ RxRec(rx[r])
    BY RxRecHolds DEF Inv, ReceiversOk
  <1>2. /\ rx[r].ack # NoSeq /\ rx' = [rx EXCEPT ![r].ack = NoSeq]
        /\ tx' = tx /\ typed' = typed /\ messageCache' = messageCache /\ net' = net \union out
    BY DEF SendAck, Sent, relayVars
  <1>3. rx' = [rx EXCEPT ![r] = u]
    BY <1>1, <1>2 DEF RxRec, RxField
  <1>4. /\ RxRec(u) /\ u.hi = rx[r].hi /\ u.buffer = rx[r].buffer /\ u.up = rx[r].up /\ u.ack = NoSeq
        /\ u.nack = rx[r].nack /\ u.reset = rx[r].reset /\ u.hist = rx[r].hist
        /\ u.overdue = rx[r].overdue /\ u.waiting = rx[r].waiting
    BY <1>1 DEF RxRec, RxField
  <1>5. PICK p : RxOk(rx[r], p, Total) /\ p \in Prior .. Total /\ p \in Nat
    BY RestingPlace
  <1>6. PICK i \in 1 .. Len(rx[r].up) : rx[r].ack = SeqOf(rx[r].up[i])
    BY <1>2, <1>5 DEF RxOk, AckDue
  <1>7. rx[r].up[i] \in Prior + 1 .. Total /\ HeardBy(rx, rx[r].up[i])
    <2>1. rx[r].up[i] \in Nat /\ Prior < rx[r].up[i] /\ rx[r].up[i] <= p
      BY <1>5 DEF RxOk, Handed
    <2>2. Prior \in Nat /\ Total \in Nat
      BY InvNear
    <2>3. rx[r].up[i] \in Prior + 1 .. Total
      BY <1>5, <2>1, <2>2
    <2> QED BY <2>3 DEF HeardBy
  <1>8. NetOk(out, Total) /\ AcksOk(out, rx, Total)
    BY <1>6, <1>7 DEF NetOk, AcksOk, Packet, AckPkt
  <1>9. net' \subseteq net \union out
    BY <1>2
  <1> HIDE DEF u, out
  <1>10. Sorted(u, Total)
    BY <1>4, <1>5 DEF RxOk, Sorted
  <1> QED BY <1>2, <1>3, <1>4, <1>8, <1>9, <1>10, TimerMoves

-----------------------------------------------------------------------------
(* The initial state, and every step.                                      *)

LEMMA InitReceiver ==
  ASSUME Init, NEW r \in Receiver
  PROVE  AtRest(rx[r], Prior, Prior)
  <1> DEFINE st == rx[r]
  <1>1. /\ st = [hi |-> PriorSeq, hist |-> PriorHistory, buffer |-> {}, overdue |-> {}, waiting |-> <<>>,
                 chain |-> IF Prior = 0 THEN NoSeq ELSE Prior, ack |-> NoSeq, up |-> <<>>,
                 nack |-> {}, reset |-> FALSE]
    BY DEF Init
  <1>2. /\ RxRec(st) /\ st.hi = PriorSeq /\ st.buffer = {} /\ st.up = <<>> /\ st.ack = NoSeq
        /\ st.nack = {} /\ st.reset = FALSE /\ st.hist = PriorHistory /\ st.overdue = {} /\ st.waiting = <<>>
    <2> DEFINE c == IF Prior = 0 THEN NoSeq ELSE Prior
    <2>1. st = [hi |-> PriorSeq, hist |-> PriorHistory, buffer |-> {}, overdue |-> {}, waiting |-> <<>>,
                chain |-> c, ack |-> NoSeq, up |-> <<>>, nack |-> {}, reset |-> FALSE]
      BY <1>1
    <2> HIDE DEF c, st
    <2> QED BY <2>1 DEF RxRec, RxField
  <1> HIDE DEF st
  <1>3. Prior \in Nat /\ Prior \in Prior .. Prior
    BY BoundsHold DEF Bounds
  <1>4. Stands(st, Prior, Prior)
    BY <1>2, <1>3, SeqOfType DEF Stands, PriorSeq
  <1>5. Handed(st.up, Prior) /\ AckDue(st) /\ Buffered(st, Prior)
    BY <1>2, FS_EmptySet DEF Handed, AckDue, Buffered
  <1>6. AtRest(st, Prior, Prior)
    <2>1. <<>> \in Seq(SUBSET Seq24) /\ PriorHistory \subseteq 1 .. Prior
      BY DEF PriorHistory
    <2>2. Sorted(st, Prior)
      BY <1>2, <2>1, Zenon DEF Sorted
    <2> QED BY <1>2, <1>4, <1>5, <2>2 DEF AtRest, RxOk
  <1> QED BY <1>6 DEF st

LEMMA InitSender ==
  ASSUME Init
  PROVE  /\ TxOk(tx) /\ Wire(tx) = Prior /\ AckedOk(tx, rx) /\ tx.wire = <<>>
  <1>1. tx = [recent |-> FALSE, queue |-> <<>>, wire |-> <<>>, nextSeq |-> SeqOf(Prior + 1),
              highest |-> OrZero(PriorSeq), hist |-> {[id |-> n, idx |-> n - 1] : n \in PriorHistory},
              chain |-> IF Prior = 0 THEN NoSeq ELSE Prior, acked |-> OrZero(PriorSeq),
              probe |-> FALSE, retries |-> 0]
    BY DEF Init
  <1>2. Prior \in Nat /\ Prior \in Prior .. Prior /\ Bounds
    BY BoundsHold DEF Bounds
  <1>3. OrZero(PriorSeq) = SeqOf(Prior)
    BY <1>2, SeqOfZero, SeqOfType DEF OrZero, PriorSeq
  <1>4. /\ TxRec(tx) /\ tx.recent = FALSE /\ tx.queue = <<>> /\ tx.wire = <<>> /\ tx.nextSeq = SeqOf(Prior + 1)
        /\ tx.highest = SeqOf(Prior) /\ tx.hist = {[id |-> n, idx |-> n - 1] : n \in PriorHistory}
        /\ tx.chain = (IF Prior = 0 THEN NoSeq ELSE Prior) /\ tx.acked = SeqOf(Prior)
    BY <1>1, <1>3 DEF TxRec, TxField
  <1>5. Wire(tx) = Prior
    BY <1>2, <1>4 DEF Wire
  <1>6. \A d \in tx.hist : Known(d.id, Prior)
    <2>1. SUFFICES ASSUME NEW n \in PriorHistory
                   PROVE  Known(n, Prior)
      BY <1>4
    <2> QED BY <1>2 DEF PriorHistory, Known, Bounds
  <1>7. tx.chain \in Nat \union {NoSeq} /\ (tx.chain = NoSeq => Prior = 0)
    BY <1>2, <1>4, CacheAssumption
  <1>8. TxOk(tx)
    <2>1. tx.wire \in Seq(Nat) /\ tx.queue \in Seq(Nat) /\ tx.recent \in BOOLEAN
      <3>1. <<>> \in Seq(Nat) /\ FALSE \in BOOLEAN
        OBVIOUS
      <3> QED BY <1>4, <3>1, Zenon
    <2>2. tx.nextSeq = SeqOf(Wire(tx) + 1) /\ tx.highest = SeqOf(Wire(tx)) /\ TxRec(tx) /\ tx.wire = <<>>
      BY <1>4, <1>5
    <2> QED BY <1>5, <1>6, <1>7, <2>1, <2>2 DEF TxOk
  <1>9. AckedOk(tx, rx)
    BY <1>2, <1>4, <1>5 DEF AckedOk
  <1> QED BY <1>4, <1>5, <1>8, <1>9

LEMMA InitCache == CacheOk(PriorCache, Prior)
  <1> DEFINE at(k) == {n \in 1 .. Prior : SeqOf(n) = k /\ Prior - n <= CACHE_WINDOW}
  <1>1. PriorCache = [k \in Seq24 |-> IF at(k) = {} THEN NoBuf ELSE PriorPkt(CHOOSE n \in at(k) : TRUE)]
    BY Zenon DEF PriorCache
  <1>2. Prior \in Nat /\ Bounds
    BY BoundsHold DEF Bounds
  <1>3. ASSUME NEW k \in Seq24, at(k) # {}
        PROVE  Datum(PriorPkt(CHOOSE n \in at(k) : TRUE), Prior)
    <2> DEFINE n == CHOOSE n \in at(k) : TRUE
    <2>1. n \in at(k)
      BY <1>3
    <2> HIDE DEF n
    <2>2. Known(n, Prior)
      BY <1>2, <2>1 DEF Known, Bounds
    <2>3. Datum(PriorPkt(n), Prior)
      BY <2>2, PktIsDatum DEF PriorPkt
    <2> QED BY <2>3 DEF n
  <1> HIDE DEF at
  <1> QED BY <1>1, <1>3 DEF CacheOk

LEMMA InitInv ==
  ASSUME Init
  PROVE  Inv
  <1>1. TxOk(tx) /\ Wire(tx) = Prior /\ AckedOk(tx, rx) /\ tx.wire = <<>>
    BY InitSender
  <1>2. Total = Prior
    BY <1>1 DEF Total, Wire
  <1>3. CacheOk(messageCache, Total) /\ typed = 0 /\ net = {}
    BY <1>2, InitCache DEF Init
  <1>4. rx = [r \in Receiver |-> rx[r]]
    BY DEF Init
  <1>5. ReceiversOk(rx, Total)
    BY <1>2, <1>4, InitReceiver DEF ReceiversOk
  <1>6. NetOk(net, Total) /\ AcksOk(net, rx, Total)
    BY <1>3, NothingSent
  <1>7. typed \in 0 .. MaxTyped /\ Len(tx.wire) <= typed + 1
    BY <1>1, <1>3, BoundsHold DEF Bounds
  <1> QED BY <1>1, <1>3, <1>5, <1>6, <1>7 DEF Inv

LEMMA StutterInv ==
  ASSUME Inv, UNCHANGED vars
  PROVE  Inv' /\ Onward
  <1>1. /\ tx' = tx /\ rx' = rx /\ typed' = typed /\ messageCache' = messageCache /\ net' \subseteq net \union {}
    BY DEF vars, relayVars
  <1>2. CacheOk(messageCache', Total)
    BY <1>1 DEF Inv
  <1> QED BY <1>1, <1>2, NothingSent, QuietKeepsInv

\* Every step keeps the invariant, and is one of a receiver or of the others.
LEMMA NextInv ==
  ASSUME Inv, [Next]_vars
  PROVE  Inv' /\ (Onward \/ \E r \in Receiver : Moved(r))
  <1>1. CASE Type
    BY <1>1, TypeKeepsInv
  <1>2. CASE RateWindowEnds
    BY <1>2, RateWindowEndsKeepsInv
  <1>3. CASE adoptKey
    BY <1>3, AdoptKeyKeepsInv
  <1>4. CASE RetryChainShare
    BY <1>4, RetryChainShareKeepsInv
  <1>5. CASE Probe
    BY <1>5, ProbeKeepsInv
  <1>6. ASSUME NEW m \in net, OnNack(m) \/ OnAck(m) \/ OnDictResetSender(m)
        PROVE  Inv' /\ Onward
    BY <1>6, OnNackKeepsInv, OnAckKeepsInv, OnDictResetSenderKeepsInv
  <1>7. ASSUME NEW m \in net, RelayData(m) \/ RelayNack(m) \/ Lose(m)
        PROVE  Inv' /\ Onward
    BY <1>7, RelayDataKeepsInv, RelayNackKeepsInv, LoseKeepsInv
  <1>8. ASSUME NEW r \in Receiver, SendAck(r) \/ FourSecondsPass(r)
        PROVE  Inv' /\ Moved(r)
    BY <1>8, SendAckMoves, FourSecondsPassMoves
  <1>9. ASSUME NEW r \in Receiver, NEW m \in net, OnData(r, m)
        PROVE  Inv' /\ Moved(r)
    BY <1>9, OnDataStaleMoves, OnDataGapMoves, OnDataNextMoves DEF OnData
  <1>10. ASSUME NEW r \in Receiver, NEW m \in net, OnSync(r, m) \/ OnChainShare(r, m) \/ OnDictReset(r, m)
         PROVE  Inv' /\ Moved(r)
    BY <1>10, OnSyncMoves, OnChainShareMoves, OnDictResetMoves
  <1>11. CASE UNCHANGED vars
    BY <1>11, StutterInv
  <1> QED BY <1>1, <1>2, <1>3, <1>4, <1>5, <1>6, <1>7, <1>8, <1>9, <1>10, <1>11
          DEF Next, SenderStep, RelayStep, ReceiverStep

\* The inductive invariant holds throughout.
THEOREM StreamInvariant == Spec => []Inv
  <1>1. Init => Inv
    BY InitInv
  <1>2. Inv /\ [Next]_vars => Inv'
    BY NextInv
  <1> QED BY <1>1, <1>2, PTL DEF Spec

-----------------------------------------------------------------------------
(* What the invariant gives.                                               *)

\* cli.ts:352: once the re-arming probe has stopped, some receiver has been
\* handed the latest message, whatever ACKs were lost, late or of old messages.
THEOREM ProbesHeard == Spec => []ProbesStopWhenHeard
  <1>1. ASSUME Inv
        PROVE  ProbesStopWhenHeard
    <2>1. SUFFICES ASSUME tx.wire # <<>>, ~tx.probe
                   PROVE  \E r \in Receiver : rx[r].up # <<>> /\ rx[r].up[Len(rx[r].up)] = Total
      BY DEF ProbesStopWhenHeard
    <2>2. Total = Wire(tx) /\ Total \in Nat /\ Prior \in Nat /\ Near(Total) /\ Len(tx.wire) \in Nat
      BY <1>1, InvNear
    <2>3. Total > Prior
      <3>1. tx.wire \in Seq(Nat)
        BY <1>1 DEF Inv, TxOk
      <3>2. Len(tx.wire) # 0
        BY <2>1, <3>1
      <3> QED BY <2>2, <3>2 DEF Total
    <2>4. HeardBy(rx, Total)
      BY <1>1, <2>1, <2>2, <2>3 DEF Inv, AckedOk
    <2>5. PICK r \in Receiver : \E i \in 1 .. Len(rx[r].up) : rx[r].up[i] = Total
      BY <2>4 DEF HeardBy
    <2>6. PICK i \in 1 .. Len(rx[r].up) : rx[r].up[i] = Total
      BY <2>5
    <2>7. PICK p : RxOk(rx[r], p, Total) /\ p \in Prior .. Total /\ p \in Nat
      BY <1>1, RestingPlace
    <2>8. /\ rx[r].up \in Seq(Nat) /\ \A j \in 1 .. Len(rx[r].up) : rx[r].up[j] <= p
          /\ \A j, k \in 1 .. Len(rx[r].up) : j < k => rx[r].up[j] < rx[r].up[k]
      BY <2>7 DEF RxOk, Handed
    <2> DEFINE n == Len(rx[r].up)
    <2>9. n \in Nat /\ n \in 1 .. n /\ rx[r].up # <<>>
      BY <2>6, <2>8
    <2>10. rx[r].up[n] <= Total /\ rx[r].up[n] \in Nat
      <3>1. rx[r].up[n] <= p /\ rx[r].up[n] \in Nat
        BY <2>8, <2>9
      <3> QED BY <2>2, <2>7, <3>1
    <2>11. i = n \/ rx[r].up[n] > Total
      BY <2>6, <2>8, <2>9
    <2>12. rx[r].up[n] = Total
      BY <2>2, <2>6, <2>10, <2>11
    <2> QED BY <2>9, <2>12
  <1> QED BY <1>1, StreamInvariant, PTL

\* What a receiver has passed, by a hand-up or by giving up, does not stay in its
\* out-of-order buffer (processBufferedPackets, declarePermanentLoss), for a
\* receiver that has a baseline.  One that starts without (Prior = 0) may take a
\* packet beyond the dictionary window as its baseline while it buffers older ones.
THEOREM BufferStaysAhead == Spec => [](Prior > 0 => BufferAhead)
  <1>1. ASSUME Inv, Prior > 0
        PROVE  BufferAhead
    <2>1. SUFFICES ASSUME NEW r \in Receiver, NEW m \in rx[r].buffer, rx[r].hi # NoSeq
                   PROVE  IsAhead(seqDelta(rx[r].hi, m.seq))
      BY DEF BufferAhead
    <2>2. PICK p : /\ AtRest(rx[r], p, Total) /\ RxOk(rx[r], p, Total) /\ p \in Prior .. Total /\ p \in Nat
                   /\ Prior > 0 => \A b \in rx[r].buffer : b.id >= p + 2
      BY <1>1, RestingPlace
    <2>3. Datum(m, Total) /\ rx[r].hi = SeqOf(p) /\ m.id >= p + 2
      BY <1>1, <2>1, <2>2 DEF RxOk, Buffered, Stands
    <2>4. Known(m.id, Total) /\ m.id \in Nat /\ m.seq = SeqOf(m.id) /\ Near(Total)
      BY <1>1, <2>3, InvNear DEF Datum, Known
    <2>5. m.id > p
      BY <2>2, <2>3, <2>4
    <2>6. IsAhead(seqDelta(SeqOf(p), SeqOf(m.id)))
      BY <2>2, <2>4, <2>5, KnownClose, Verdicts DEF SeqOf
    <2> QED BY <2>3, <2>4, <2>6
  <1>2. Inv => (Prior > 0 => BufferAhead)
    BY <1>1
  <1> QED BY <1>2, StreamInvariant, PTL

\* Numbers stay in the 24-bit space and sets hold messages that were sent
\* (sendData, pruneSent, pruneReceived, nackTimestamps).
THEOREM TypeCorrect == Spec => []TypeOK
  <1>1. ASSUME Inv
        PROVE  TypeOK
    <2>1. TxOk(tx) /\ AckedOk(tx, rx) /\ Total = Wire(tx) /\ Total \in Nat /\ Prior \in Nat /\ Near(Total)
      BY <1>1, InvNear DEF Inv
    <2>2. {tx.nextSeq, tx.highest, tx.acked} \subseteq Seq24
      <3>1. tx.nextSeq \in Seq24 /\ tx.highest \in Seq24
        BY <2>1, SeqOfType DEF TxOk
      <3>2. tx.acked \in Seq24
        BY <2>1, SeqOfType DEF AckedOk
      <3> QED BY <3>1, <3>2
    <2>3. MaxTyped \in Nat /\ Total <= Prior + MaxTyped + 1
      BY <2>1, BoundsHold DEF Near, Bounds
    <2>4. \A n \in 1 .. Total : n \in MessageNo
      BY <2>1, <2>3 DEF MessageNo
    <2>5. Ids(tx.hist) \subseteq MessageNo
      <3>1. SUFFICES ASSUME NEW d \in tx.hist
                     PROVE  d.id \in MessageNo
        BY DEF Ids
      <3>2. d.id \in 1 .. Total
        BY <2>1 DEF TxOk, Known
      <3> QED BY <2>4, <3>2
    <2>6. ASSUME NEW r \in Receiver
          PROVE  /\ rx[r].hi \in Seq24 \union {NoSeq} /\ rx[r].hist \subseteq MessageNo
                 /\ Stamped(rx[r]) \subseteq Seq24
                 /\ \A m \in rx[r].buffer : m.type = "DATA" /\ m.seq \in Seq24
      <3>1. PICK p : RxOk(rx[r], p, Total) /\ p \in Nat
        BY <1>1, RestingPlace
      <3>2. rx[r].hi \in Seq24 \union {NoSeq}
        BY <3>1, SeqOfType DEF RxOk, Stands
      <3>3. rx[r].hist \subseteq MessageNo
        BY <2>4, <3>1 DEF RxOk, Sorted
      <3>4. Stamped(rx[r]) \subseteq Seq24
        <4>1. rx[r].overdue \subseteq Seq24 /\ rx[r].waiting \in Seq(SUBSET Seq24)
          BY <3>1 DEF RxOk, Sorted
        <4>2. \A b \in DOMAIN rx[r].waiting : rx[r].waiting[b] \subseteq Seq24
          BY <4>1
        <4> QED BY <4>1, <4>2 DEF Stamped
      <3>5. \A m \in rx[r].buffer : m.type = "DATA" /\ m.seq \in Seq24
        BY <3>1, SeqOfType DEF RxOk, Buffered, Datum, Known
      <3> QED BY <3>2, <3>3, <3>4, <3>5
    <2> QED BY <2>2, <2>5, <2>6 DEF TypeOK
  <1> QED BY <1>1, StreamInvariant, PTL

-----------------------------------------------------------------------------
(* The refinement.                                                         *)

PlaceOf(st, T) ==
  LET at == {n \in 1 .. T : SeqOf(n) = st.hi}
  IN  IF st.hi = NoSeq THEN 0 ELSE CHOOSE n \in at \union {0} : \A k \in at : k <= n

\* Position(r) is where the receiver stands: the newest message with its number.
LEMMA PlaceIs ==
  ASSUME NEW T, Near(T), NEW st, NEW p, Stands(st, p, T)
  PROVE  PlaceOf(st, T) = p
  <1>1. p \in Nat /\ p \in Prior .. T /\ T \in Nat /\ Prior \in Nat
    BY StandsInt
  <1>2. CASE st.hi = NoSeq
    BY <1>2 DEF Stands, PlaceOf
  <1>3. CASE st.hi # NoSeq
    <2> DEFINE at == {n \in 1 .. T : SeqOf(n) = st.hi}
               Top(n) == \A k \in at : k <= n
    <2>1. st.hi = SeqOf(p)
      BY <1>3 DEF Stands
    <2>2. \A n \in at : n <= p
      <3>1. SUFFICES ASSUME NEW n \in 1 .. T, n > p
                     PROVE  SeqOf(n) # SeqOf(p)
        BY <1>1, <2>1
      <3>2. n \in Int /\ p \in Int /\ p < n /\ n - p < SEQ_MOD
        BY <1>1, <3>1, BoundsHold DEF Near, Bounds
      <3> QED BY <3>2, SeqOfDiffers
    <2>3. p \in at \union {0}
      <3>1. CASE p = 0
        BY <3>1
      <3>2. CASE p # 0
        BY <1>1, <2>1, <3>2
      <3> QED BY <3>1, <3>2
    <2>4. Top(p)
      BY <2>2
    <2>5. \A n \in at \union {0} : Top(n) => n = p
      <3>1. SUFFICES ASSUME NEW n \in at \union {0}, Top(n)
                     PROVE  n = p
        OBVIOUS
      <3>2. n \in Nat /\ n <= p
        BY <1>1, <2>2
      <3>3. p \in at => p <= n
        BY <3>1
      <3> QED BY <1>1, <2>3, <3>2, <3>3
    <2>6. (CHOOSE n \in at \union {0} : Top(n)) = p
      <3> HIDE DEF at, Top
      <3> QED BY <2>3, <2>4, <2>5
    <2>7. PlaceOf(st, T) = CHOOSE n \in at \union {0} : Top(n)
      BY <1>3 DEF PlaceOf
    <2> QED BY <2>6, <2>7
  <1> QED BY <1>2, <1>3

LEMMA PositionIs ==
  ASSUME Inv, NEW r \in Receiver, NEW p, AtRest(rx[r], p, Total)
  PROVE  Position(r) = p
  <1>1. Position(r) = PlaceOf(rx[r], Total)
    BY DEF Position, PlaceOf
  <1> QED BY <1>1, InvNear, PlaceIs DEF AtRest, RxOk

LEMMA PositionIsNext ==
  ASSUME Inv', NEW r \in Receiver, NEW p, AtRest(rx'[r], p, Total')
  PROVE  Position(r)' = p
  <1>1. Position(r)' = PlaceOf(rx'[r], Total')
    BY DEF Position, PlaceOf
  <1>2. Near(Total')
    <2>1. Bounds
      BY BoundsHold
    <2>2. tx'.wire \in Seq(Nat) /\ Len(tx'.wire) <= typed' + 1 /\ typed' \in 0 .. MaxTyped
      BY Zenon DEF Inv, TxOk
    <2>3. Len(tx'.wire) \in Nat
      BY <2>2
    <2> QED BY <2>1, <2>2, <2>3 DEF Near, Bounds, Total
  <1> QED BY <1>1, <1>2, PlaceIs DEF AtRest, RxOk

LEMMA OnwardImplements ==
  ASSUME Inv, Inv', Onward
  PROVE  [Abstract!Next]_(Abstract!vars)
  <1>1. rx' = rx /\ Total <= Total' /\ Total \in Nat /\ Total' \in Nat
    <2>1. Total \in Nat /\ Prior \in Nat
      BY InvNear
    <2>2. tx'.wire \in Seq(Nat)
      BY Zenon DEF Inv, TxOk
    <2>3. Len(tx'.wire) \in Nat
      BY <2>2
    <2> QED BY <2>1, <2>3 DEF Onward, Total
  <1>2. ASSUME NEW r \in Receiver
        PROVE  Position(r)' = Position(r)
    <2>1. PICK p : AtRest(rx[r], p, Total)
      BY RestingPlace
    <2>2. AtRest(rx'[r], p, Total')
      BY <1>1, <2>1, RestLater
    <2> QED BY <2>1, <2>2, PositionIs, PositionIsNext
  <1>3. [r \in Receiver |-> Position(r)]' = [r \in Receiver |-> Position(r)]
    BY <1>2
  <1>4. [r \in Receiver |-> rx[r].up]' = [r \in Receiver |-> rx[r].up]
    BY <1>1
  <1>5. CASE Total' = Total
    BY <1>3, <1>4, <1>5 DEF Abstract!vars
  <1>6. CASE Total' # Total
    <2>1. Total' \in Nat /\ Total' > Total
      BY <1>1, <1>6
    <2> QED BY <1>3, <1>4, <2>1 DEF Abstract!Next, Abstract!Send
  <1> QED BY <1>5, <1>6

LEMMA MovedImplements ==
  ASSUME Inv, Inv', NEW r \in Receiver, Moved(r)
  PROVE  [Abstract!Next]_(Abstract!vars)
  <1>1. PICK u, p, q : Went(r, u, p, q)
    BY DEF Moved
  <1>2. rx = [s \in Receiver |-> rx[s]] /\ rx' = [rx EXCEPT ![r] = u] /\ tx' = tx /\ Total' = Total
    BY <1>1 DEF Inv, ReceiversOk, Went, Total
  <1>3. rx' = [s \in Receiver |-> IF s = r THEN u ELSE rx[s]]
    BY <1>2
  <1>4. AtRest(rx[r], p, Total) /\ AtRest(rx'[r], q, Total') /\ rx'[r] = u
    BY <1>1, <1>2, <1>3 DEF Went
  <1>5. Position(r) = p /\ Position(r)' = q
    BY <1>4, PositionIs, PositionIsNext
  <1>6. ASSUME NEW s \in Receiver, s # r
        PROVE  Position(s)' = Position(s)
    <2>1. rx'[s] = rx[s]
      BY <1>3, <1>6
    <2>2. PICK k : AtRest(rx[s], k, Total)
      BY RestingPlace
    <2>3. AtRest(rx'[s], k, Total')
      BY <1>2, <2>1, <2>2
    <2> QED BY <2>2, <2>3, PositionIs, PositionIsNext
  <1>7. [s \in Receiver |-> Position(s)]' = [[s \in Receiver |-> Position(s)] EXCEPT ![r] = q]
    BY <1>5, <1>6
  <1>8. /\ p \in Nat /\ q \in Nat /\ p <= q /\ q <= Total /\ Total \in Nat
        /\ rx[r].up \in Seq(Nat) /\ u.up \in Seq(Nat)
    <2>1. Stands(rx[r], p, Total) /\ Stands(u, q, Total) /\ Near(Total)
      BY <1>2, <1>4, InvNear DEF AtRest, RxOk
    <2>2. p \in Nat /\ q \in Nat /\ q \in Prior .. Total /\ Total \in Nat /\ Prior \in Nat
      BY <2>1, StandsInt
    <2>3. rx[r].up \in Seq(Nat) /\ u.up \in Seq(Nat)
      BY <1>4 DEF AtRest, RxOk, Handed
    <2>4. p <= q
      BY <1>1 DEF Went
    <2> QED BY <2>2, <2>3, <2>4
  <1>9. Abstract!Continues(rx[r].up, u.up, p + 1, q)
    BY <1>1 DEF Went
  <1>10. CASE p = q
    <2>1. u.up = rx[r].up
      <3>1. Len(rx[r].up) \in Nat /\ Len(u.up) \in Nat
        BY <1>8
      <3>2. Len(u.up) = Len(rx[r].up)
        <4>1. SUFFICES ASSUME Len(u.up) # Len(rx[r].up)
                       PROVE  FALSE
          OBVIOUS
        <4>2. Len(u.up) \in Len(rx[r].up) + 1 .. Len(u.up) /\ Len(u.up) \in 1 .. Len(u.up)
          BY <1>9, <3>1, <4>1 DEF Abstract!Continues
        <4>3. p + 1 <= u.up[Len(u.up)] /\ u.up[Len(u.up)] <= p
          BY <1>9, <1>10, <4>2 DEF Abstract!Continues
        <4>4. u.up[Len(u.up)] \in Nat
          BY <1>8, <4>2
        <4> QED BY <1>8, <4>3, <4>4
      <3>3. \A i \in 1 .. Len(rx[r].up) : u.up[i] = rx[r].up[i]
        BY <1>9 DEF Abstract!Continues
      <3>4. \A s \in Seq(Nat) : s = [i \in 1 .. Len(s) |-> s[i]]
        OBVIOUS
      <3>5. /\ u.up = [i \in 1 .. Len(u.up) |-> u.up[i]]
            /\ rx[r].up = [i \in 1 .. Len(rx[r].up) |-> rx[r].up[i]]
        BY <1>8, <3>4, Zenon
      <3> QED BY <3>2, <3>3, <3>5
    <2>2. [s \in Receiver |-> rx[s].up]' = [s \in Receiver |-> rx[s].up]
      BY <1>3, <2>1
    <2>3. [s \in Receiver |-> Position(s)]' = [s \in Receiver |-> Position(s)]
      BY <1>5, <1>6, <1>10
    <2> QED BY <1>2, <2>2, <2>3 DEF Abstract!vars
  <1>11. CASE p # q
    <2>1. q \in [s \in Receiver |-> Position(s)][r] + 1 .. Total
      BY <1>5, <1>8, <1>11
    <2>2. [s \in Receiver |-> rx[s].up]' \in [Receiver -> Seq(Nat)]
      <3>1. ASSUME NEW s \in Receiver
            PROVE  rx'[s].up \in Seq(Nat)
        <4>1. CASE s = r
          BY <1>4, <1>8, <4>1
        <4>2. CASE s # r
          <5>1. rx'[s] = rx[s]
            BY <1>3, <4>2
          <5>2. \E k : RxOk(rx[s], k, Total)
            BY RestingPlace
          <5> QED BY <5>1, <5>2 DEF RxOk, Handed
        <4> QED BY <4>1, <4>2
      <3> QED BY <3>1
    <2>3. \A s \in Receiver \ {r} : [t \in Receiver |-> rx[t].up]'[s] = [t \in Receiver |-> rx[t].up][s]
      BY <1>3
    <2>4. Abstract!Continues([t \in Receiver |-> rx[t].up][r], [t \in Receiver |-> rx[t].up]'[r],
                             [s \in Receiver |-> Position(s)][r] + 1, q)
      BY <1>4, <1>5, <1>9
    <2>5. Abstract!Advance(r, q)
      BY <1>2, <1>7, <2>2, <2>3, <2>4 DEF Abstract!Advance
    <2> QED BY <2>1, <2>5 DEF Abstract!Next
  <1> QED BY <1>10, <1>11

\* The client implements LossyDelivery: under loss, reordering, give-ups,
\* Dict-Resets and repairs from relay and sender, every receiver moves forward
\* through the sender's messages, and what it is handed is in order, at most once
\* and inflated with the sender's dictionary.
THEOREM Implements == Spec => ForwardOnly
  <1>1. ASSUME Init
        PROVE  Abstract!Init
    <2>1. Inv /\ Total = Prior
      BY <1>1, InitInv, InitSender DEF Total, Wire
    <2>2. ASSUME NEW r \in Receiver
          PROVE  Position(r) = Prior /\ rx[r].up = <<>>
      <3>1. AtRest(rx[r], Prior, Total)
        BY <1>1, <2>1, InitReceiver
      <3>2. rx[r].up = <<>>
        BY <1>1 DEF Init
      <3> QED BY <2>1, <3>1, <3>2, PositionIs
    <2> QED BY <2>1, <2>2 DEF Abstract!Init
  <1>2. Inv /\ Inv' /\ [Next]_vars => [Abstract!Next]_(Abstract!vars)
    BY NextInv, OnwardImplements, MovedImplements
  <1> QED BY <1>1, <1>2, StreamInvariant, PTL DEF Spec, ForwardOnly, Abstract!Spec
=============================================================================
