---------------------------- MODULE NativeStream ----------------------------
(***************************************************************************)
(* The data plane of the command-line client (class NativeDartClient of    *)
(* src/cli.ts; the web and desktop clients repeat it): one sender's stream *)
(* to the other members through the relay, over a network that loses and   *)
(* reorders packets.  It differs from the reference client (DataStream) in *)
(* what it does with messages typed before the key exchange, in a limit on *)
(* how often it sends, and in a gap's fate: no NACK retry timer, and after *)
(* four seconds the missing packet is declared lost.                       *)
(*                                                                         *)
(* The receivers hold the group key; the sender joins, or has joined.  The *)
(* n-th message on the wire travels under sequence number n % SEQ_MOD.  A  *)
(* dictionary is the set of messages it concatenates.  Relay and network   *)
(* are those of DataStream.                                                *)
(***************************************************************************)
EXTENDS RelayCache, FiniteSets, Sequences

CONSTANTS Receiver,      \* the other members
          DICT_WINDOW,   \* 200 in the code
          SLACK,         \* history kept beyond the window: 16 in the code
          Prior,         \* messages sent and delivered before the model starts
          MaxTyped,      \* bound: lines the user types
          MaxLosses,     \* bound: packets the network loses
          MaxInFlight,   \* bound: no timer fires and nothing new is sent beyond it
          SHARE_RETRIES  \* timed repeats of the first chain share: 2 in the code

ASSUME NativeAssumption ==
  /\ {DICT_WINDOW, SLACK, Prior, MaxTyped, MaxLosses, MaxInFlight, SHARE_RETRIES} \subseteq Nat
  /\ 2 * (DICT_WINDOW + SLACK + MaxTyped + 1) < SEQ_MOD
  /\ 2 * (CACHE_WINDOW + MaxTyped + 1) < SEQ_MOD

VARIABLES
  tx,      \* the sender
  rx,      \* the receivers
  typed,   \* lines typed so far
  messageCache, highestSeq,   \* the relay
  net, losses

relayVars == <<messageCache, highestSeq>>
vars == <<tx, rx, typed, relayVars, net, losses>>

SeqOf(n) == n % SEQ_MOD
OrZero(seq) == IF seq = NoSeq THEN 0 ELSE seq      \* map.get(..) || 0

-----------------------------------------------------------------------------
(* Dictionaries and history.  M is a set of message numbers.               *)

getDictionary(M, maxSeq) ==
  {n \in M : seqDelta(SeqOf(n), maxSeq) \in 1 .. DICT_WINDOW}

\* pruneSent and pruneReceived keep what is not further behind than this.
Recent(seq, highest) == seqDelta(seq, highest) <= DICT_WINDOW + SLACK

KeptHistory(M, highest) == {n \in M : Recent(SeqOf(n), highest)}

Ids(sent) == {d.id : d \in sent}
HasSeq(M, seq) == \E n \in M : SeqOf(n) = seq

-----------------------------------------------------------------------------
(* Packets.                                                                *)

DataPkt(to, d, M) ==
  [type |-> "DATA", to |-> to, seq |-> SeqOf(d.id), id |-> d.id, idx |-> d.idx,
   dict |-> getDictionary(M, SeqOf(d.id))]
SyncPkts(h) == {[type |-> "SYNC", to |-> r, highest |-> h] : r \in Receiver}
NackPkt(to, r, missing) == [type |-> "NACK", to |-> to, from |-> r, missing |-> missing]
SharePkt(r, index) == [type |-> "CHAIN_SHARE", to |-> r, index |-> index]
AckPkt(seq) == [type |-> "ACK", to |-> "sender", seq |-> seq]
ResetPkts(r) == {[type |-> "DICT_RESET", to |-> a] : a \in {"sender"} \union (Receiver \ {r})}

Arrives(m, type, to) == m.type = type /\ m.to = to

\* A handled packet leaves the network and what the handler sent joins it.
Handled(m, out) == net' = (net \ {m}) \union out /\ UNCHANGED losses

\* A timer or the user sends.
Sent(out) ==
  /\ Cardinality(net) < MaxInFlight
  /\ net' = net \union out
  /\ UNCHANGED losses

-----------------------------------------------------------------------------
(* The stream after Prior messages that everyone has processed.            *)
(*   tx.recent   the last sendData is less than 250 ms ago                 *)
(*   tx.queue    pendingQueue: the lines typed before the key exchange     *)
(*   tx.wire     the lines put on the wire so far, oldest first            *)
(*   tx.chain    index of the own ratchet chain, NoSeq without one         *)
(*   rx.overdue  the numbers in nackTimestamps older than four seconds     *)
(*   rx.waiting  the younger ones, in batches of equal age, oldest first   *)
(*   rx.ack      the number the pending hybrid ACK will carry              *)
(*   rx.up       the messages handed up, in order                          *)
(*   rx.nack, rx.reset   the numbers the handler at work NACKs, and whether *)
(*               it sends a Dict-Reset                                     *)

PriorHistory == {k \in 1 .. Prior : Prior - k <= DICT_WINDOW + SLACK}
PriorSeq == IF Prior = 0 THEN NoSeq ELSE SeqOf(Prior)
PriorPkt(n) == DataPkt("relay", [id |-> n, idx |-> n - 1], 1 .. n - 1)
PriorCache ==
  [k \in Seq24 |-> LET at == {n \in 1 .. Prior : SeqOf(n) = k /\ Prior - n <= CACHE_WINDOW}
                   IN  IF at = {} THEN NoBuf ELSE PriorPkt(CHOOSE n \in at : TRUE)]

Init ==
  /\ tx = [recent |-> FALSE, queue |-> <<>>, wire |-> <<>>, nextSeq |-> SeqOf(Prior + 1),
           highest |-> OrZero(PriorSeq), hist |-> {[id |-> n, idx |-> n - 1] : n \in PriorHistory},
           chain |-> IF Prior = 0 THEN NoSeq ELSE Prior, acked |-> OrZero(PriorSeq),
           probe |-> FALSE, retries |-> 0]
  /\ rx = [r \in Receiver |->
             [hi |-> PriorSeq, hist |-> PriorHistory, buffer |-> {}, overdue |-> {}, waiting |-> <<>>,
              chain |-> IF Prior = 0 THEN NoSeq ELSE Prior, ack |-> NoSeq, up |-> <<>>,
              nack |-> {}, reset |-> FALSE]]
  /\ typed = 0
  /\ messageCache = PriorCache
  /\ highestSeq = PriorSeq
  /\ net = {}
  /\ losses = 0

-----------------------------------------------------------------------------
(* The sender.                                                             *)

Announcement == 0     \* the "joined the room" line; a typed line is its number

\* sendData within 250 ms of the last one drops the line; without a key and a
\* chain it queues it, and no number is taken.
SendNow(t, line) ==
  LET dart == [id |-> Prior + Len(t.wire) + 1, idx |-> t.chain]
      all == t.hist \union {dart}
      hist == {d \in all : d.id \in KeptHistory(Ids(all), t.nextSeq)}
  IN  [tx |-> [t EXCEPT !.recent = TRUE, !.wire = Append(@, line), !.nextSeq = seqNext(@),
                        !.highest = t.nextSeq, !.hist = hist, !.chain = @ + 1, !.probe = TRUE],
       out |-> {DataPkt("relay", dart, Ids(hist))}]

sendData(t, line) ==
  CASE t.recent -> [tx |-> t, out |-> {}]
    [] ~t.recent /\ t.chain = NoSeq ->
         [tx |-> [t EXCEPT !.recent = TRUE, !.queue = Append(@, line)], out |-> {}]
    [] OTHER -> SendNow(t, line)

SenderBecomes(done, out) ==
  /\ tx' = done.tx
  /\ Sent(done.out \union out)
  /\ UNCHANGED <<rx, relayVars>>

\* A line from the terminal.
Type ==
  /\ typed < MaxTyped
  /\ typed' = typed + 1
  /\ SenderBecomes(sendData(tx, typed + 1), {})

\* 250 ms pass without a sendData.
RateWindowEnds ==
  /\ tx.recent
  /\ tx' = [tx EXCEPT !.recent = FALSE]
  /\ UNCHANGED <<rx, typed, relayVars, net, losses>>

\* The announcement, then the queued lines, one sendData each.
flushPending(t) ==
  LET flush[k \in 0 .. Len(t.queue)] ==
        IF k = 0 THEN sendData([t EXCEPT !.chain = 0], Announcement)
        ELSE LET s == sendData(flush[k - 1].tx, t.queue[k])
             IN  [tx |-> s.tx, out |-> flush[k - 1].out \union s.out]
  IN  flush[Len(t.queue)]

\* The first adoptKey: a chain, shared with every member; then the flush, within
\* the same few milliseconds.
adoptKey ==
  /\ tx.chain = NoSeq
  /\ SenderBecomes([flushPending(tx) EXCEPT !.tx.queue = <<>>], {SharePkt(r, 0) : r \in Receiver})
  /\ UNCHANGED typed

\* The timed repeats send the state captured by the first share.
RetryChainShare ==
  /\ Prior = 0 /\ tx.chain # NoSeq
  /\ tx.retries < SHARE_RETRIES
  /\ SenderBecomes([tx |-> [tx EXCEPT !.retries = @ + 1], out |-> {}], {SharePkt(r, 0) : r \in Receiver})
  /\ UNCHANGED typed

\* syncProbe's timer: sendSync, and again while the latest message is not
\* acknowledged.
sendSync == IF tx.highest = 0 THEN {} ELSE SyncPkts(tx.highest)

\* (Mutant: a single probe.)
UnacknowledgedNever == FALSE

Unacknowledged == IsStale(seqDelta(tx.highest, tx.acked))

Probe ==
  /\ tx.probe
  /\ SenderBecomes([tx |-> [tx EXCEPT !.probe = Unacknowledged], out |-> {}], sendSync)
  /\ UNCHANGED typed

\* A NACK: what is still in the history goes out again under its old key and
\* the dictionary of today's history; the NACKer gets the chain seed.
Retransmits(missing) ==
  {DataPkt("relay", d, Ids(tx.hist)) : d \in {e \in tx.hist : SeqOf(e.id) \in missing}}

OnNack(m) ==
  /\ Arrives(m, "NACK", "sender")
  /\ Handled(m, Retransmits(m.missing)
                  \union (IF tx.chain = NoSeq THEN {} ELSE {SharePkt(m.from, 0)}))
  /\ UNCHANGED <<tx, rx, typed, relayVars>>

\* An ACK counts when it is not behind the latest message.
AckCounts(seq) == ~IsStale(seqDelta(tx.highest, seq))

OnAck(m) ==
  /\ Arrives(m, "ACK", "sender")
  /\ tx' = [tx EXCEPT !.acked = IF AckCounts(m.seq) THEN m.seq ELSE @]
  /\ Handled(m, {})
  /\ UNCHANGED <<rx, typed, relayVars>>

\* A Dict-Reset with the sender as target flushes its history.
OnDictResetSender(m) ==
  /\ Arrives(m, "DICT_RESET", "sender")
  /\ tx' = [tx EXCEPT !.hist = {}]
  /\ Handled(m, {})
  /\ UNCHANGED <<rx, typed, relayVars>>

-----------------------------------------------------------------------------
(* The relay.                                                              *)

RelayData(m) ==
  /\ Arrives(m, "DATA", "relay")
  /\ messageCache' = CachePut(messageCache, highestSeq, m.seq, m)
  /\ highestSeq' = HighestPut(highestSeq, m.seq)
  /\ Handled(m, {[m EXCEPT !.to = r] : r \in Receiver})
  /\ UNCHANGED <<tx, rx, typed>>

RelayNack(m) ==
  /\ Arrives(m, "NACK", "relay")
  /\ Handled(m, {[messageCache[k] EXCEPT !.to = m.from] : k \in {j \in m.missing : messageCache[j] # NoBuf}}
                  \union {NackPkt("sender", m.from, m.missing)})
  /\ UNCHANGED <<tx, rx, typed, relayVars>>

-----------------------------------------------------------------------------
(* A receiver.  Its handlers act on the record rx[r]; st is its value in   *)
(* the middle of one.                                                      *)

\* inflateData gives the message back only under the dictionary it was
\* deflated with; otherwise the payload is not a message anyone sent.
Garbled == 0
inflateData(m, dict) == IF dict = m.dict THEN m.id ELSE Garbled

\* pruneReceived walks nackTimestamps with the same test as the history; a
\* number ahead of the highest one is `further behind' than the window too.
\* A batch may be left empty.
PrunedStamps(st) ==
  [st EXCEPT !.overdue = {i \in @ : Recent(i, st.hi)},
             !.waiting = [b \in 1 .. Len(@) |-> {i \in @[b] : Recent(i, st.hi)}]]

Accept(st, m) ==
  LET hi == IF st.hi = NoSeq \/ IsAhead(seqDelta(st.hi, m.seq)) THEN m.seq ELSE st.hi
  IN  PrunedStamps([st EXCEPT !.hi = hi, !.hist = KeptHistory(@ \union {m.id}, hi), !.ack = m.seq,
                              !.up = Append(@, inflateData(m, getDictionary(st.hist, m.seq)))])

\* processDataPacket: a fingerprint that does not match clears the history
\* and asks for a reset; a message already in the history changes nothing.
\* (Mutant: no fingerprint.)
processNoFingerprint(st, m) == IF HasSeq(st.hist, m.seq) THEN st ELSE Accept(st, m)

processDataPacket(st, m) ==
  CASE getDictionary(st.hist, m.seq) # m.dict -> [st EXCEPT !.hist = {}, !.reset = TRUE]
    [] getDictionary(st.hist, m.seq) = m.dict /\ HasSeq(st.hist, m.seq) -> st
    [] OTHER -> Accept(st, m)

\* decryptDataInOrder: the chain reaches an index not behind it, and moves past it.
Decrypts(st, m) == st.chain # NoSeq /\ m.idx >= st.chain

DecryptAndProcess(st, m) ==
  IF Decrypts(st, m) THEN processDataPacket([st EXCEPT !.chain = m.idx + 1], m) ELSE st

Holds(st, seq) == \E m \in st.buffer : m.seq = seq

\* The k-th number after the highest received one.
Following(st, k) == (OrZero(st.hi) + k) % SEQ_MOD

\* Packets taken out of the buffer.  (Mutant: they stay in it.)
TakenOutNot(buffer, seqs) == buffer

TakenOut(buffer, seqs) == {m \in buffer : m.seq \notin seqs}

\* processBufferedPackets: the run of packets that follows the highest received
\* one is taken out of the buffer and tried one by one, going on after a failure.
BufferedRun(st) == {k \in 1 .. Cardinality(st.buffer) : \A j \in 1 .. k : Holds(st, Following(st, j))}

processBufferedPackets(st) ==
  LET run == BufferedRun(st)
      after[k \in 0 .. Cardinality(run)] ==
        IF k = 0 THEN [st EXCEPT !.buffer = TakenOut(@, {Following(st, j) : j \in run})]
        ELSE DecryptAndProcess(after[k - 1], CHOOSE m \in st.buffer : m.seq = Following(st, k))
  IN  after[Cardinality(run)]

\* declarePermanentLoss: the highest received number moves to the lost one;
\* history and buffer are emptied.
declarePermanentLoss(st, seq) ==
  [st EXCEPT !.hi = IF IsAhead(seqDelta(OrZero(@), seq)) THEN seq ELSE @,
             !.hist = {}, !.buffer = {}, !.reset = TRUE]

Missing(st, seq) == ~Holds(st, seq) /\ ~HasSeq(st.hist, seq)
Stamped(st) == st.overdue \union UNION {st.waiting[b] : b \in DOMAIN st.waiting}

\* A missing number is stamped at first sight and NACKed.
Ask(st, seqs) ==
  LET fresh == seqs \ Stamped(st)
  IN  [st EXCEPT !.nack = seqs, !.waiting = IF fresh = {} THEN @ ELSE Append(@, fresh)]

\* The loop over the n numbers that follow the highest one received.  A number
\* missing for four seconds is declared lost; with the first loss history and
\* buffer are gone, so that every later number of the gap is missing too: lost
\* as well if its stamp is as old, asked for if not.
CheckGap(st, n) ==
  LET At(k) == Following(st, k)
      open == {k \in 1 .. n : Missing(st, At(k))}
      first == {k \in open : At(k) \in st.overdue /\ \A j \in open : At(j) \in st.overdue => k <= j}
      after == {k \in 1 .. n : \E f \in first : k >= f}
      lost == {k \in after : At(k) \in st.overdue}
      asked == {At(k) : k \in (open \union after) \ lost}
  IN  IF lost = {} THEN Ask(st, asked)
      ELSE Ask(declarePermanentLoss(st, At(CHOOSE k \in lost : \A j \in lost : j <= k)), asked)

\* The state a handler leaves behind, and what it sends.
ReceiverBecomes(r, m, result) ==
  \E st \in {result} :
    /\ rx' = [rx EXCEPT ![r] = [st EXCEPT !.nack = {}, !.reset = FALSE]]
    /\ Handled(m, (IF st.nack = {} THEN {} ELSE {NackPkt("relay", r, st.nack)})
                    \union (IF st.reset THEN ResetPkts(r) ELSE {}))
    /\ UNCHANGED <<tx, typed, relayVars>>

\* How far a data packet is ahead: without a baseline, the first packet is the
\* baseline unless its number says how many came before it.
AheadOf(r, seq) ==
  CASE rx[r].hi # NoSeq -> seqDelta(rx[r].hi, seq)
    [] rx[r].hi = NoSeq /\ seq \in 1 .. DICT_WINDOW -> seq
    [] OTHER -> 1

OnDataStale(r, m) ==
  /\ Arrives(m, "DATA", r)
  /\ AheadOf(r, m.seq) = 0 \/ IsStale(AheadOf(r, m.seq))
  /\ ReceiverBecomes(r, m, rx[r])

\* A packet beyond a gap is buffered, and not processed even when the gap is
\* given up.
OnDataGap(r, m) ==
  LET ahead == AheadOf(r, m.seq)
      st == [rx[r] EXCEPT !.buffer = {b \in @ : b.seq # m.seq} \union {m}]
  IN  /\ Arrives(m, "DATA", r)
      /\ ahead > 1 /\ ~IsStale(ahead)
      /\ ReceiverBecomes(r, m, CheckGap(st, ahead - 1))

OnDataNext(r, m) ==
  /\ Arrives(m, "DATA", r)
  /\ AheadOf(r, m.seq) = 1
  /\ ReceiverBecomes(r, m, IF Decrypts(rx[r], m)
                           THEN processBufferedPackets(DecryptAndProcess(rx[r], m))
                           ELSE rx[r])

\* A SYNC: the loop runs up to the reported number.  The drain after each loss
\* finds the buffer empty.
OnSync(r, m) ==
  LET ahead == IF rx[r].hi = NoSeq THEN m.highest ELSE seqDelta(rx[r].hi, m.highest)
  IN  /\ Arrives(m, "SYNC", r)
      /\ ReceiverBecomes(r, m, IF IsAhead(ahead) THEN CheckGap(rx[r], ahead) ELSE rx[r])

\* handleChainShare: the shared state replaces whatever the receiver had.
OnChainShare(r, m) ==
  /\ Arrives(m, "CHAIN_SHARE", r)
  /\ ReceiverBecomes(r, m, [rx[r] EXCEPT !.chain = m.index])

\* Another member's Dict-Reset of this sender clears the history held of it.
OnDictReset(r, m) ==
  /\ Arrives(m, "DICT_RESET", r)
  /\ ReceiverBecomes(r, m, [rx[r] EXCEPT !.hist = {}])

\* The hybrid ACK, 200 ms after the last message handed up.
SendAck(r) ==
  /\ rx[r].ack # NoSeq
  /\ rx' = [rx EXCEPT ![r].ack = NoSeq]
  /\ Sent({AckPkt(rx[r].ack)})
  /\ UNCHANGED <<tx, typed, relayVars>>

\* Four seconds have passed since the oldest of the younger batches.
FourSecondsPass(r) ==
  /\ rx[r].waiting # <<>>
  /\ rx' = [rx EXCEPT ![r].overdue = @ \union Head(rx[r].waiting), ![r].waiting = Tail(@)]
  /\ UNCHANGED <<tx, typed, relayVars, net, losses>>

-----------------------------------------------------------------------------
(* The network loses a packet.                                             *)
Lose(m) ==
  /\ losses < MaxLosses
  /\ losses' = losses + 1
  /\ net' = net \ {m}
  /\ UNCHANGED <<tx, rx, typed, relayVars>>

SenderStep ==
  \/ Type \/ RateWindowEnds \/ adoptKey \/ RetryChainShare \/ Probe
  \/ \E m \in net : OnNack(m) \/ OnAck(m) \/ OnDictResetSender(m)

RelayStep == \E m \in net : RelayData(m) \/ RelayNack(m)

OnData(r, m) == OnDataStale(r, m) \/ OnDataGap(r, m) \/ OnDataNext(r, m)

ReceiverStep(r) ==
  \/ SendAck(r) \/ FourSecondsPass(r)
  \/ \E m \in net : OnData(r, m) \/ OnSync(r, m) \/ OnChainShare(r, m) \/ OnDictReset(r, m)

Next ==
  \/ SenderStep
  \/ RelayStep
  \/ \E r \in Receiver : ReceiverStep(r)
  \/ \E m \in net : Lose(m)

Spec == Init /\ [][Next]_vars

(***************************************************************************)
(* Fairness.  Every timer that is armed fires, time passes, a packet the   *)
(* network does not lose arrives: data packets of each sequence number,    *)
(* and control packets of each kind, are not overtaken for ever.  The      *)
(* timers are strongly fair because MaxInFlight, which the code does not   *)
(* have, can hold them back for a while.  The user owes nothing.           *)
(***************************************************************************)
NewSeqs == {SeqOf(n) : n \in Prior + 1 .. Prior + MaxTyped + 1}
Numbered(q) == {m \in net : m.type = "DATA" /\ m.seq = q}

Fairness ==
  /\ SF_vars(adoptKey)
  /\ SF_vars(Probe)
  /\ WF_vars(\E m \in net : OnNack(m))
  /\ WF_vars(\E m \in net : OnAck(m))
  /\ WF_vars(\E m \in net : OnDictResetSender(m))
  /\ WF_vars(\E m \in net : RelayNack(m))
  /\ \A q \in NewSeqs : WF_vars(\E m \in Numbered(q) : RelayData(m))
  /\ \A r \in Receiver :
       /\ SF_vars(SendAck(r))
       /\ WF_vars(FourSecondsPass(r))
       /\ WF_vars(\E m \in net : OnSync(r, m))
       /\ WF_vars(\E m \in net : OnChainShare(r, m))
       /\ WF_vars(\E m \in net : OnDictReset(r, m))
       /\ \A q \in NewSeqs : WF_vars(\E m \in Numbered(q) : OnData(r, m))

FairSpec == Spec /\ Fairness

-----------------------------------------------------------------------------
(* Properties.                                                             *)

Total == Prior + Len(tx.wire)
MessageNo == 1 .. Prior + MaxTyped + 1

\* The message a receiver's highestReceivedSeq stands for: the newest one with
\* that number.
Position(r) ==
  LET at == {n \in 1 .. Total : SeqOf(n) = rx[r].hi}
  IN  IF rx[r].hi = NoSeq THEN 0 ELSE CHOOSE n \in at \union {0} : \A k \in at : k <= n

\* Numbers stay in the 24-bit space and sets hold messages that were sent.
TypeOK ==
  /\ {tx.nextSeq, tx.highest, tx.acked} \subseteq Seq24
  /\ Ids(tx.hist) \subseteq MessageNo
  /\ \A r \in Receiver :
       /\ rx[r].hi \in Seq24 \union {NoSeq}
       /\ rx[r].hist \subseteq MessageNo
       /\ Stamped(rx[r]) \subseteq Seq24
       /\ \A m \in rx[r].buffer : m.type = "DATA" /\ m.seq \in Seq24

\* The client keeps LossyDelivery's promise: under loss, reordering, give-ups,
\* Dict-Resets of one receiver reaching another and repairs from two sources,
\* every receiver moves forward, and what it is handed is in order, at most
\* once, and inflated with the sender's dictionary.
Abstract == INSTANCE LossyDelivery WITH
  Receiver <- Receiver, Prior <- Prior, sent <- Total,
  position <- [r \in Receiver |-> Position(r)], handed <- [r \in Receiver |-> rx[r].up]
ForwardOnly == Abstract!Spec

\* A packet waits in the out-of-order buffer only while it is ahead of the
\* highest received number: what a receiver has passed, by a hand-up or by
\* giving up, does not stay behind in memory.
BufferAhead ==
  \A r \in Receiver : \A m \in rx[r].buffer :
    rx[r].hi # NoSeq => IsAhead(seqDelta(rx[r].hi, m.seq))

\* cli.ts:352, "the re-arming sync probe stops on its own once the latest
\* message is acknowledged": when the probes have stopped, some receiver has
\* been handed the latest message.
ProbesStopWhenHeard ==
  tx.wire # <<>> /\ ~tx.probe =>
    \E r \in Receiver : rx[r].up # <<>> /\ rx[r].up[Len(rx[r].up)] = Total

\* With no timer of its own the receiver depends on the sender's probes: they
\* bring it up to the latest message, by repair or by giving up, with no
\* further sendData.
NoStall == <>[](\A r \in Receiver : Position(r) = Total)

\* README.md:77, a Dict-Reset is sent "when a packet is permanently lost (>4
\* seconds)": a receiver does not pass, without handing it up, a packet it is
\* holding in its buffer.
HeldIsNotLost ==
  [][\A r \in Receiver : \A m \in rx[r].buffer :
       Position(r)' >= m.id => \E i \in DOMAIN rx'[r].up : rx'[r].up[i] = m.id]_vars

\* web-app.ts:62, "Pending messages waiting for Key Exchange to finish": a
\* line put in the queue is there until it is on the wire.
QueuedIsSent ==
  [][\A i \in DOMAIN tx.queue :
       \/ \E j \in DOMAIN tx'.queue : tx'.queue[j] = tx.queue[i]
       \/ \E j \in DOMAIN tx'.wire : tx'.wire[j] = tx.queue[i]]_vars
=============================================================================
