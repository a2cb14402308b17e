----------------------------- MODULE DataStream -----------------------------
(***************************************************************************)
(* The data plane of the reference client (class DartClient of             *)
(* src/client.ts): one sender's stream to a group of receivers through the *)
(* relay, over a network that loses, reorders and duplicates packets.      *)
(*                                                                         *)
(* Everyone holds the same group key (GroupKeys is the key plane), so a    *)
(* control frame is never refused.  A message is its number n, counted     *)
(* from the sender's first sendData; it travels under sequence number      *)
(* n % SEQ_MOD, and no handler looks at anything but that.  A dictionary   *)
(* is the set of messages it concatenates: their order is a function of    *)
(* their sequence numbers, so equal sets are equal fingerprints.           *)
(*                                                                         *)
(* The relay passes SYNC, ACK, Dict-Reset and chain shares on without      *)
(* keeping anything, so they take one hop here, per addressee; data        *)
(* packets and NACKs stop at the relay, whose cache is RelayCache.         *)
(***************************************************************************)
EXTENDS RelayCache, FiniteSets, Sequences

CONSTANTS Receiver,      \* the other members
          Late,          \* those that join after the Prior messages
          DICT_WINDOW,   \* 200 in the code
          SLACK,         \* history kept beyond the window: 16 in the code
          Prior,         \* messages sent and delivered before the model starts
          KeyReady,      \* the sender has done the key exchange by then
          MaxSends,      \* bound: sendData calls
          MaxLosses,     \* bound: packets the network loses
          MaxDups,       \* bound: packets the network delivers twice
          MaxInFlight,   \* bound: no timer fires and nothing new is sent beyond it
          SHARE_RETRIES  \* timed repeats of the first chain share: 2 in the code

ASSUME StreamAssumption ==
  /\ Late \subseteq Receiver
  /\ KeyReady \in BOOLEAN /\ (Prior > 0 => KeyReady)
  /\ {DICT_WINDOW, SLACK, Prior, MaxSends, MaxLosses, MaxDups, MaxInFlight,
      SHARE_RETRIES} \subseteq Nat
  /\ 2 * (DICT_WINDOW + SLACK + MaxSends) < SEQ_MOD

VARIABLES
  (* the sender *)
  sends,             \* sendData calls so far, Prior included
  nextSeq,
  highestSentSeq,    \* 0 before the first message, as in the code
  sentMessages,      \* set of [id, idx]: the payloads and their chain indices
  chainIndex,        \* own ratchet chain: NoSeq before the key exchange
  ackedSeq,          \* 0 before the first ACK, as in the code
  probeTimer,
  shareRetries,
  (* each receiver *)
  highestReceivedSeq, receivedMessages, outOfOrderBuffer, seenSeq,
  nackRetryTimer, ackTimer, senderChain,
  delivered,         \* the messages handed up, in order
  (* the relay and the network *)
  messageCache, highestSeq, net, losses, dups

senderVars == <<sends, nextSeq, highestSentSeq, sentMessages, chainIndex, ackedSeq,
                probeTimer, shareRetries>>
receiverVars == <<highestReceivedSeq, receivedMessages, outOfOrderBuffer, seenSeq,
                  nackRetryTimer, ackTimer, senderChain, delivered>>
relayVars == <<messageCache, highestSeq>>
vars == <<senderVars, receiverVars, relayVars, net, losses, dups>>

SeqOf(n) == n % SEQ_MOD
OrZero(seq) == IF seq = NoSeq THEN 0 ELSE seq      \* map.get(..) || 0

-----------------------------------------------------------------------------
(* Dictionaries and history.  M is a set of message numbers.               *)

getDictionary(M, maxSeq) ==
  {n \in M : seqDelta(SeqOf(n), maxSeq) \in 1 .. DICT_WINDOW}

KeptHistoryNoSlack(M, highest) ==
  {n \in M : seqDelta(SeqOf(n), highest) <= DICT_WINDOW}

KeptHistory(M, highest) ==
  {n \in M : seqDelta(SeqOf(n), highest) <= DICT_WINDOW + SLACK}

Ids(sent) == {d.id : d \in sent}

-----------------------------------------------------------------------------
(* Packets.                                                                *)

DataPkt(to, d, M) ==
  [type |-> "DATA", to |-> to, seq |-> SeqOf(d.id), id |-> d.id, idx |-> d.idx,
   dict |-> getDictionary(M, SeqOf(d.id))]
SyncPkts(h) == {[type |-> "SYNC", to |-> r, highest |-> h] : r \in Receiver}
NackPkt(to, r, missing) == [type |-> "NACK", to |-> to, from |-> r, missing |-> missing]
AckPkt(seq) == [type |-> "ACK", to |-> "sender", seq |-> seq]
SharePkt(r, index) == [type |-> "CHAIN_SHARE", to |-> r, index |-> index]
ResetPkts(r) == {[type |-> "DICT_RESET", to |-> a] : a \in {"sender"} \union (Receiver \ {r})}

Arrives(m, type, to) == m.type = type /\ m.to = to

\* A handled packet leaves the network, or stays for a second delivery; what
\* the handler sent joins it.
Handled(m, sent) ==
  /\ \/ net' = (net \ {m}) \union sent /\ UNCHANGED dups
     \/ dups < MaxDups /\ dups' = dups + 1 /\ net' = net \union sent
  /\ UNCHANGED losses

\* A timer or the application sends.
Sent(sent) ==
  /\ Cardinality(net) < MaxInFlight
  /\ net' = net \union sent
  /\ UNCHANGED <<losses, dups>>

-----------------------------------------------------------------------------
(* The stream after Prior messages that everyone but Late has processed.   *)
(* A newcomer has been sent the sender's current chain state.              *)

PriorDict(n) == {k \in 1 .. n - 1 : n - k <= DICT_WINDOW}
PriorHistory == {k \in 1 .. Prior : Prior - k <= DICT_WINDOW + SLACK}
PriorPkt(n) == [type |-> "DATA", to |-> "relay", seq |-> SeqOf(n), id |-> n, idx |-> n - 1,
                dict |-> PriorDict(n)]
PriorSeq == IF Prior = 0 THEN NoSeq ELSE SeqOf(Prior)
Newcomer == IF Prior = 0 THEN Receiver ELSE Late     \* their chain share is on its way
OnTime(r, v, fresh) == IF r \in Newcomer THEN fresh ELSE v

Init ==
  /\ sends = Prior
  /\ nextSeq = SeqOf(Prior + 1)
  /\ highestSentSeq = OrZero(PriorSeq)
  /\ sentMessages = {[id |-> n, idx |-> n - 1] : n \in PriorHistory}
  /\ chainIndex = IF KeyReady THEN Prior ELSE NoSeq
  /\ ackedSeq = OrZero(PriorSeq)
  /\ probeTimer = FALSE
  /\ shareRetries = 0
  /\ highestReceivedSeq = [r \in Receiver |-> OnTime(r, PriorSeq, NoSeq)]
  /\ receivedMessages = [r \in Receiver |-> OnTime(r, PriorHistory, {})]
  /\ outOfOrderBuffer = [r \in Receiver |-> {}]
  /\ seenSeq = [r \in Receiver |-> OnTime(r, PriorSeq, NoSeq)]
  /\ nackRetryTimer = [r \in Receiver |-> FALSE]
  /\ ackTimer = [r \in Receiver |-> NoSeq]
  /\ senderChain = [r \in Receiver |-> IF r \in Newcomer THEN NoSeq ELSE Prior]
  /\ delivered = [r \in Receiver |-> <<>>]
  /\ messageCache = [k \in Seq24 |->
       LET at == {n \in 1 .. Prior : SeqOf(n) = k /\ Prior - n <= CACHE_WINDOW}
       IN  IF at = {} THEN NoBuf ELSE PriorPkt(CHOOSE n \in at : TRUE)]
  /\ highestSeq = PriorSeq
  /\ net = IF KeyReady THEN {SharePkt(r, Prior) : r \in Newcomer} ELSE {}
  /\ losses = 0
  /\ dups = 0
-----------------------------------------------------------------------------
(* The sender.                                                             *)

\* adoptKey -> initOwnChain: a fresh chain, shared with every member.
initOwnChain ==
  /\ chainIndex = NoSeq
  /\ chainIndex' = 0
  /\ Sent({SharePkt(r, 0) : r \in Receiver})
  /\ UNCHANGED <<sends, nextSeq, highestSentSeq, sentMessages, ackedSeq, probeTimer, shareRetries,
                 receiverVars, relayVars>>

\* The timed repeats send the state captured by the first share.
RetryChainShare ==
  /\ chainIndex # NoSeq
  /\ shareRetries < SHARE_RETRIES
  /\ shareRetries' = shareRetries + 1
  /\ Sent({SharePkt(r, Prior) : r \in Newcomer})
  /\ UNCHANGED <<sends, nextSeq, highestSentSeq, sentMessages, chainIndex, ackedSeq, probeTimer,
                 receiverVars, relayVars>>

\* sendData before the key exchange: the number is taken, nothing is sent.
sendDataNoChain ==
  /\ chainIndex = NoSeq
  /\ sends < Prior + MaxSends
  /\ sends' = sends + 1
  /\ nextSeq' = seqNext(nextSeq)
  /\ UNCHANGED <<highestSentSeq, sentMessages, chainIndex, ackedSeq, probeTimer, shareRetries,
                 receiverVars, relayVars, net, losses, dups>>

\* The dictionary is built before the message joins the history; the history
\* is pruned after.
sendData ==
  LET seq == nextSeq
      dart == [id |-> sends + 1, idx |-> chainIndex]
      all == sentMessages \union {dart}
  IN  /\ chainIndex # NoSeq
      /\ sends < Prior + MaxSends
      /\ sends' = sends + 1
      /\ nextSeq' = seqNext(nextSeq)
      /\ chainIndex' = chainIndex + 1
      /\ highestSentSeq' = seq
      /\ sentMessages' = {d \in all : d.id \in KeptHistory(Ids(all), seq)}
      /\ probeTimer' = TRUE
      /\ Sent({DataPkt("relay", dart, Ids(sentMessages))})
      /\ UNCHANGED <<ackedSeq, shareRetries, receiverVars, relayVars>>

\* scheduleProbe's timer: sendSync, and again while the latest message is not
\* acknowledged.
sendSync == IF highestSentSeq = 0 THEN {} ELSE SyncPkts(highestSentSeq)

Probe ==
  /\ probeTimer
  /\ probeTimer' = IsStale(seqDelta(highestSentSeq, ackedSeq))
  /\ Sent(sendSync)
  /\ UNCHANGED <<sends, nextSeq, highestSentSeq, sentMessages, chainIndex, ackedSeq, shareRetries,
                 receiverVars, relayVars>>

\* A NACK: what is still in the history goes out again under its old key and
\* the dictionary of today's history; the NACKer gets the chain seed.
Retransmits(missing) ==
  {DataPkt("relay", d, Ids(sentMessages)) : d \in {e \in sentMessages : SeqOf(e.id) \in missing}}


ReshareSeed(r) == IF chainIndex = NoSeq THEN {} ELSE {SharePkt(r, 0)}

OnNack(m) ==
  /\ Arrives(m, "NACK", "sender")
  /\ Handled(m, Retransmits(m.missing) \union ReshareSeed(m.from))
  /\ UNCHANGED <<senderVars, receiverVars, relayVars>>

\* An ACK counts when it is not behind the latest message.
AckCounts(seq) == ~IsStale(seqDelta(highestSentSeq, seq))

OnAck(m) ==
  /\ Arrives(m, "ACK", "sender")
  /\ ackedSeq' = IF AckCounts(m.seq) THEN m.seq ELSE ackedSeq
  /\ Handled(m, {})
  /\ UNCHANGED <<sends, nextSeq, highestSentSeq, sentMessages, chainIndex, probeTimer, shareRetries,
                 receiverVars, relayVars>>

\* A Dict-Reset with the sender as target flushes its history.
OnDictResetSender(m) ==
  /\ Arrives(m, "DICT_RESET", "sender")
  /\ sentMessages' = {}
  /\ Handled(m, {})
  /\ UNCHANGED <<sends, nextSeq, highestSentSeq, chainIndex, ackedSeq, probeTimer, shareRetries,
                 receiverVars, relayVars>>

-----------------------------------------------------------------------------
(* The relay.                                                              *)

RelayData(m) ==
  /\ Arrives(m, "DATA", "relay")
  /\ messageCache' = CachePut(messageCache, highestSeq, m.seq, m)
  /\ highestSeq' = HighestPut(highestSeq, m.seq)
  /\ Handled(m, {[m EXCEPT !.to = r] : r \in Receiver})
  /\ UNCHANGED <<senderVars, receiverVars>>

\* Cached packets go back to the NACKer, and the NACK to the sender.
RelayNack(m) ==
  /\ Arrives(m, "NACK", "relay")
  /\ Handled(m, {[messageCache[k] EXCEPT !.to = m.from] : k \in {j \in m.missing : messageCache[j] # NoBuf}}
                  \union {NackPkt("sender", m.from, m.missing)})
  /\ UNCHANGED <<senderVars, receiverVars, relayVars>>

-----------------------------------------------------------------------------
(* A receiver.  The steps of decryptDataInOrder and processDataPacket act  *)
(* on the part of its state they change: highest received, history, chain, *)
(* hand-ups, ACK timer, and whether a Dict-Reset was sent.                 *)

RxState(r) ==
  [hi |-> highestReceivedSeq[r], rx |-> receivedMessages[r], chain |-> senderChain[r],
   up |-> delivered[r], ack |-> ackTimer[r], reset |-> FALSE]

HasSeq(M, seq) == \E n \in M : SeqOf(n) = seq

\* inflateData gives the message back only under the dictionary it was
\* deflated with; otherwise the payload is not a message anyone sent.
Garbled == 0
inflateData(m, dict) == IF dict = m.dict THEN m.id ELSE Garbled

Accept(st, m) ==
  LET hi == IF st.hi = NoSeq \/ IsAhead(seqDelta(st.hi, m.seq)) THEN m.seq ELSE st.hi
  IN  [st EXCEPT !.hi = hi, !.rx = KeptHistory(@ \union {m.id}, hi), !.ack = m.seq,
                 !.up = Append(@, inflateData(m, getDictionary(st.rx, m.seq)))]

\* processDataPacket: a fingerprint that does not match clears the history
\* and asks for a reset; a message already in the history changes nothing.
processNoFingerprint(st, m) == IF HasSeq(st.rx, m.seq) THEN st ELSE Accept(st, m)

processDataPacket(st, m) ==
  IF getDictionary(st.rx, m.seq) # m.dict
  THEN [st EXCEPT !.rx = {}, !.reset = TRUE]
  ELSE IF HasSeq(st.rx, m.seq) THEN st ELSE Accept(st, m)

\* decryptDataInOrder: the chain reaches an index not behind it, and moves past it.
Decrypts(st, m) == st.chain # NoSeq /\ m.idx >= st.chain

DecryptAndProcess(st, m) ==
  IF Decrypts(st, m) THEN processDataPacket([st EXCEPT !.chain = m.idx + 1], m) ELSE st

\* processBufferedPackets: the run of buffered packets that follows the
\* highest received one is taken out of the buffer and tried one by one, going
\* on after a failure.
BufferedRun(buffer, from) ==
  {k \in 0 .. Cardinality(buffer) - 1 : \A j \in 0 .. k : \E m \in buffer : m.seq = (from + j) % SEQ_MOD}

PacketAt(buffer, seq) == CHOOSE m \in buffer : m.seq = seq

processBufferedPackets(st, buffer) ==
  LET from == seqNext(OrZero(st.hi))
      run == BufferedRun(buffer, from)
      after[k \in 0 .. Cardinality(run)] ==
        IF k = 0 THEN st
        ELSE DecryptAndProcess(after[k - 1], PacketAt(buffer, (from + k - 1) % SEQ_MOD))
  IN  [st |-> after[Cardinality(run)],
       buffer |-> {m \in buffer : \A k \in run : m.seq # (from + k) % SEQ_MOD}]

\* seenSeq: the newest sequence number heard of.
NextSeen(r, seq) ==
  IF seenSeq[r] = NoSeq \/ IsAhead(seqDelta(seenSeq[r], seq)) THEN seq ELSE seenSeq[r]

\* How far a data packet is ahead: without a baseline, the first packet is the
\* baseline unless its number says how many came before it.
AheadOf(r, seq) ==
  CASE highestReceivedSeq[r] # NoSeq -> seqDelta(highestReceivedSeq[r], seq)
    [] highestReceivedSeq[r] = NoSeq /\ seq \in 1 .. DICT_WINDOW -> seq
    [] OTHER -> 1

\* The numbers base+1 .. base+n the receiver has neither processed nor, when
\* `buffer` is consulted, buffered.
MissingSeqs(r, buffer, n) ==
  LET base == OrZero(highestReceivedSeq[r])
  IN  {q \in {(base + k) % SEQ_MOD : k \in 1 .. n} :
         ~HasSeq(receivedMessages[r], q) /\ \A m \in buffer : m.seq # q}

NackFor(r, missing) == IF missing = {} THEN {} ELSE {NackPkt("relay", r, missing)}

OnDataStale(r, m) ==
  /\ Arrives(m, "DATA", r)
  /\ AheadOf(r, m.seq) = 0 \/ IsStale(AheadOf(r, m.seq))
  /\ seenSeq' = [seenSeq EXCEPT ![r] = NextSeen(r, m.seq)]
  /\ Handled(m, {})
  /\ UNCHANGED <<highestReceivedSeq, receivedMessages, outOfOrderBuffer, nackRetryTimer, ackTimer,
                 senderChain, delivered, senderVars, relayVars>>

OnDataGap(r, m) ==
  LET ahead == AheadOf(r, m.seq)
      buffer == {b \in outOfOrderBuffer[r] : b.seq # m.seq} \union {m}
      missing == MissingSeqs(r, buffer, ahead - 1)
  IN  /\ Arrives(m, "DATA", r)
      /\ ahead > 1 /\ ~IsStale(ahead)
      /\ seenSeq' = [seenSeq EXCEPT ![r] = NextSeen(r, m.seq)]
      /\ outOfOrderBuffer' = [outOfOrderBuffer EXCEPT ![r] = buffer]
      /\ nackRetryTimer' = [nackRetryTimer EXCEPT ![r] = @ \/ missing # {}]
      /\ Handled(m, NackFor(r, missing))
      /\ UNCHANGED <<highestReceivedSeq, receivedMessages, ackTimer, senderChain, delivered,
                     senderVars, relayVars>>

AfterNext(r, m) ==
  IF Decrypts(RxState(r), m)
  THEN processBufferedPackets(DecryptAndProcess(RxState(r), m), outOfOrderBuffer[r])
  ELSE [st |-> RxState(r), buffer |-> outOfOrderBuffer[r]]

OnDataNext(r, m) ==
  /\ Arrives(m, "DATA", r)
  /\ AheadOf(r, m.seq) = 1
  /\ seenSeq' = [seenSeq EXCEPT ![r] = NextSeen(r, m.seq)]
  /\ \E done \in {AfterNext(r, m)} :
       /\ highestReceivedSeq' = [highestReceivedSeq EXCEPT ![r] = done.st.hi]
       /\ receivedMessages' = [receivedMessages EXCEPT ![r] = done.st.rx]
       /\ senderChain' = [senderChain EXCEPT ![r] = done.st.chain]
       /\ delivered' = [delivered EXCEPT ![r] = done.st.up]
       /\ ackTimer' = [ackTimer EXCEPT ![r] = done.st.ack]
       /\ outOfOrderBuffer' = [outOfOrderBuffer EXCEPT ![r] = done.buffer]
       /\ Handled(m, IF done.st.reset THEN ResetPkts(r) ELSE {})
  /\ UNCHANGED <<nackRetryTimer, senderVars, relayVars>>

\* A SYNC: everything up to the reported number that is not in the history is
\* NACKed, buffered packets included.
OnSync(r, m) ==
  LET ahead == IF highestReceivedSeq[r] = NoSeq THEN m.highest
               ELSE seqDelta(highestReceivedSeq[r], m.highest)
      missing == IF IsAhead(ahead) THEN MissingSeqs(r, {}, ahead) ELSE {}
  IN  /\ Arrives(m, "SYNC", r)
      /\ seenSeq' = [seenSeq EXCEPT ![r] = NextSeen(r, m.highest)]
      /\ nackRetryTimer' = [nackRetryTimer EXCEPT ![r] = @ \/ missing # {}]
      /\ Handled(m, NackFor(r, missing))
      /\ UNCHANGED <<highestReceivedSeq, receivedMessages, outOfOrderBuffer, ackTimer, senderChain,
                     delivered, senderVars, relayVars>>

\* scheduleNackRetry's timer: the gap below the newest number heard of, that
\* number excluded; nothing without a baseline.
RetryGap(r) ==
  LET ahead == seqDelta(highestReceivedSeq[r], seenSeq[r])
      n == IF ahead - 1 < DICT_WINDOW THEN ahead - 1 ELSE DICT_WINDOW
  IN  IF highestReceivedSeq[r] = NoSeq \/ seenSeq[r] = NoSeq THEN {}
      ELSE MissingSeqs(r, outOfOrderBuffer[r], n)


NackRetry(r) ==
  /\ nackRetryTimer[r]
  /\ nackRetryTimer' = [nackRetryTimer EXCEPT ![r] = RetryGap(r) # {}]
  /\ Sent(NackFor(r, RetryGap(r)))
  /\ UNCHANGED <<highestReceivedSeq, receivedMessages, outOfOrderBuffer, seenSeq, ackTimer,
                 senderChain, delivered, senderVars, relayVars>>

\* The hybrid ACK, 200 ms after the last message handed up.
SendAck(r) ==
  /\ ackTimer[r] # NoSeq
  /\ ackTimer' = [ackTimer EXCEPT ![r] = NoSeq]
  /\ Sent({AckPkt(ackTimer[r])})
  /\ UNCHANGED <<highestReceivedSeq, receivedMessages, outOfOrderBuffer, seenSeq, nackRetryTimer,
                 senderChain, delivered, senderVars, relayVars>>

\* handleChainShare: the shared state replaces whatever the receiver had.
OnChainShare(r, m) ==
  /\ Arrives(m, "CHAIN_SHARE", r)
  /\ senderChain' = [senderChain EXCEPT ![r] = m.index]
  /\ Handled(m, {})
  /\ UNCHANGED <<highestReceivedSeq, receivedMessages, outOfOrderBuffer, seenSeq, nackRetryTimer,
                 ackTimer, delivered, senderVars, relayVars>>

\* Another member's Dict-Reset of this sender clears the history held of it.
OnDictReset(r, m) ==
  /\ Arrives(m, "DICT_RESET", r)
  /\ receivedMessages' = [receivedMessages EXCEPT ![r] = {}]
  /\ Handled(m, {})
  /\ UNCHANGED <<highestReceivedSeq, outOfOrderBuffer, seenSeq, nackRetryTimer, ackTimer, senderChain,
                 delivered, senderVars, relayVars>>

-----------------------------------------------------------------------------
(* The network loses a packet.                                             *)
Lose(m) ==
  /\ losses < MaxLosses
  /\ losses' = losses + 1
  /\ net' = net \ {m}
  /\ UNCHANGED <<senderVars, receiverVars, relayVars, dups>>

SenderStep ==
  \/ initOwnChain \/ RetryChainShare \/ sendDataNoChain \/ sendData \/ Probe
  \/ \E m \in net : OnNack(m) \/ OnAck(m) \/ OnDictResetSender(m)

RelayStep == \E m \in net : RelayData(m) \/ RelayNack(m)

ReceiverStep(r) ==
  \/ NackRetry(r) \/ SendAck(r)
  \/ \E m \in net :
       \/ OnDataStale(r, m) \/ OnDataGap(r, m) \/ OnDataNext(r, m)
       \/ OnSync(r, m) \/ OnChainShare(r, m) \/ OnDictReset(r, m)

Next ==
  \/ SenderStep
  \/ RelayStep
  \/ \E r \in Receiver : ReceiverStep(r)
  \/ \E m \in net : Lose(m)

Spec == Init /\ [][Next]_vars
(***************************************************************************)
(* Fairness.  Every timer that is armed fires, and a packet the network    *)
(* does not lose arrives: data packets of each sequence number, and        *)
(* control packets of each kind, are not overtaken for ever.  The timers   *)
(* are strongly fair because MaxInFlight, which the code does not have,    *)
(* can hold them back for a while.  Losses are finite; the application     *)
(* owes nothing.                                                           *)
(***************************************************************************)
NewSeqs == {SeqOf(n) : n \in Prior + 1 .. Prior + MaxSends}

HandleData(r, q) ==
  \E m \in net : m.type = "DATA" /\ m.seq = q /\ (OnDataStale(r, m) \/ OnDataGap(r, m) \/ OnDataNext(r, m))

Fairness ==
  /\ WF_vars(initOwnChain)
  /\ SF_vars(Probe)
  /\ WF_vars(\E m \in net : OnNack(m))
  /\ WF_vars(\E m \in net : OnAck(m))
  /\ WF_vars(\E m \in net : OnDictResetSender(m))
  /\ WF_vars(\E m \in net : RelayNack(m))
  /\ \A q \in NewSeqs : WF_vars(\E m \in net : m.type = "DATA" /\ m.seq = q /\ RelayData(m))
  /\ \A r \in Receiver :
       /\ SF_vars(NackRetry(r))
       /\ SF_vars(SendAck(r))
       /\ WF_vars(\E m \in net : OnSync(r, m))
       /\ WF_vars(\E m \in net : OnChainShare(r, m))
       /\ WF_vars(\E m \in net : OnDictReset(r, m))
       /\ \A q \in NewSeqs : WF_vars(HandleData(r, q))

FairSpec == Spec /\ Fairness

-----------------------------------------------------------------------------
(* Properties.                                                             *)

MessageNo == 1 .. Prior + MaxSends

\* Every sequence number and timer value stays in the 24-bit space, also after
\* the wrap, and histories and hand-ups hold messages that were sent.
TypeOK ==
  /\ sends \in Prior .. Prior + MaxSends
  /\ {nextSeq, highestSentSeq, ackedSeq} \subseteq Seq24
  /\ Ids(sentMessages) \subseteq MessageNo
  /\ chainIndex \in Nat \union {NoSeq}
  /\ probeTimer \in BOOLEAN
  /\ shareRetries \in 0 .. SHARE_RETRIES
  /\ highestReceivedSeq \in [Receiver -> Seq24 \union {NoSeq}]
  /\ receivedMessages \in [Receiver -> SUBSET MessageNo]
  /\ seenSeq \in [Receiver -> Seq24 \union {NoSeq}]
  /\ nackRetryTimer \in [Receiver -> BOOLEAN]
  /\ ackTimer \in [Receiver -> Seq24 \union {NoSeq}]
  /\ senderChain \in [Receiver -> Nat \union {NoSeq}]
  /\ \A r \in Receiver : \A m \in outOfOrderBuffer[r] : m.type = "DATA" /\ m.seq \in Seq24
  /\ highestSeq \in Seq24 \union {NoSeq}
  /\ losses \in 0 .. MaxLosses /\ dups \in 0 .. MaxDups

\* The client keeps Delivery's promise: under loss, duplication, reordering,
\* retransmission from the relay's cache and from the sender's shortened
\* history, a receiver is handed consecutive messages, once each, and never a
\* payload inflated with a dictionary other than the sender's.
Abstract == INSTANCE Delivery WITH
  Receiver <- Receiver, Newcomer <- Newcomer, Prior <- Prior, sends <- sends, delivered <- delivered
InOrderDelivery == Abstract!Spec


\* client.ts:372-377, "both sides always build identical dictionaries": a
\* packet that reaches a receiver of the whole stream as its exact next one
\* carries the fingerprint of the dictionary the receiver builds for it, so
\* that no Dict-Reset is needed.  A repair keeps this promise as long as the
\* sender still has the window, that is while at most SLACK messages follow.
DictionariesMatch ==
  \A m \in net : \A r \in Receiver \ Late :
    /\ Arrives(m, "DATA", r)
    /\ AheadOf(r, m.seq) = 1
    /\ seqDelta(m.seq, highestSentSeq) <= SLACK
    => m.dict = getDictionary(receivedMessages[r], m.seq)

\* The messages that were put on the wire: the last chainIndex ones.
Transmitted == {n \in Prior + 1 .. sends : chainIndex # NoSeq /\ n > sends - chainIndex}

=============================================================================
