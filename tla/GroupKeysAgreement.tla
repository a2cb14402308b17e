------------------------- MODULE GroupKeysAgreement -------------------------
(***************************************************************************)
(* As long as nobody leaves or restarts, all clients hold the same key of  *)
(* an epoch and the same chain of a sender (OneKeyPerEpoch and ChainsAgree *)
(* of GroupKeys), for every set of members and every bound.                *)
(***************************************************************************)
EXTENDS GroupKeysProofs

-----------------------------------------------------------------------------
(* As long as nobody leaves or restarts, the relay's creator makes all the *)
(* group keys, each epoch once, and the chain of a sender for an epoch is  *)
(* made once, when it adopts the epoch: the epoch only goes up.  Repeats   *)
(* and packets under way carry no other key and no other chain.            *)

\* Nobody has left or started again.
NoChurn == leaves = 0 /\ \A c \in Member : client[c].inc <= 1

\* The key the first process of cr makes for epoch e.
KeyOf(cr, e) == [by |-> cr, inc |-> 1, epoch |-> e]

\* st holds, repeats and sends keys of cr only.
OneKey(st, cr) ==
  /\ \A e \in Epoch : st.roomKeys[e] \in {NoKey, KeyOf(cr, e)}
  /\ \A job \in st.retries : job.kind = "KEY" => job.key = KeyOf(cr, job.epoch)
  /\ \A m \in st.out : m.type = "KEY_SHARE" => m.key = KeyOf(cr, m.epoch)

\* c has made chains up to epoch n only, and repeats and sends these.
OwnChain(c, st, n) ==
  /\ \A e \in Epoch : e > n => st.senderChains[e][c] = 0
  /\ \A job \in st.retries :
       job.kind = "CHAIN" => job.epoch <= n /\ job.seed = st.senderChains[job.epoch][c]
  /\ \A m \in st.out :
       m.type = "CHAIN_SHARE" => m.from = c /\ m.epoch <= n /\ m.seed = st.senderChains[m.epoch][c]

\* From st to t, c's chains of the epochs it has adopted, and all other chains,
\* stay what they were.
Grows(c, st, t) ==
  /\ st.epoch <= t.epoch
  /\ \A e \in Epoch : e <= st.epoch => t.senderChains[e][c] = st.senderChains[e][c]
  /\ \A e \in Epoch : \A s \in Member \ {c} : t.senderChains[e][s] = st.senderChains[e][s]

\* st, in order: what a handler of c takes and leaves.
Steady(c, st, cr) == TypedRec(c, st) /\ OneKey(st, cr) /\ OwnChain(c, st, st.epoch)

ClientsAgree == \A c \in Member : OneKey(client[c], creator) /\ OwnChain(c, client[c], client[c].epoch)

KeysSentAgree == \A m \in net : m.type = "KEY_SHARE" => m.key = KeyOf(creator, m.epoch)

ChainsSentAgree ==
  \A m \in net : m.type = "CHAIN_SHARE" =>
     m.epoch <= client[m.from].epoch /\ m.seed = client[m.from].senderChains[m.epoch][m.from]

ChainsStored ==
  \A c, s \in Member : \A e \in Epoch : client[c].senderChains[e][s] \in {0, client[s].senderChains[e][s]}

\* Nobody has a key before it starts, and nobody was disconnected.
Started ==
  \A c \in Member : (client[c].inc = 0 => client[c].epoch = 0) /\ (client[c].inc # 0 => client[c].linked)

Agree == ClientsAgree /\ KeysSentAgree /\ ChainsSentAgree /\ ChainsStored /\ Started

AgreeInv == leaves \in Nat /\ (NoChurn => Agree)

LEMMA TypedFacts ==
  ASSUME NEW c, NEW st, TypedRec(c, st)
  PROVE  Rec(st) /\ st.epoch \in Nat
  BY DEF TypedRec, Rec

LEMMA EpochsNat == Epoch \subseteq Nat
  BY KeysAssumption DEF Epoch

LEMMA GrowsReflexive ==
  ASSUME NEW c, NEW st, NEW t, st.epoch \in Nat, t.epoch = st.epoch, t.senderChains = st.senderChains
  PROVE  Grows(c, st, t)
  BY DEF Grows

LEMMA SameKeysAgree ==
  ASSUME NEW c, NEW st, NEW t, NEW cr, Steady(c, st, cr), TypedRec(c, t), SameKeys(st, t)
  PROVE  Steady(c, t, cr) /\ Grows(c, st, t)
  <1>1. st.epoch \in Nat
    BY TypedFacts DEF Steady
  <1>2. Grows(c, st, t)
    BY <1>1, GrowsReflexive DEF SameKeys
  <1>3. OneKey(t, cr)
    BY DEF SameKeys, Steady, OneKey
  <1>4. OwnChain(c, t, t.epoch)
    BY DEF SameKeys, Steady, OwnChain
  <1> QED BY <1>2, <1>3, <1>4 DEF Steady

\* The current key, when there is one.
LEMMA CurrentKey ==
  ASSUME NEW c, NEW st, NEW cr, TypedRec(c, st), OneKey(st, cr), st.epoch # 0
  PROVE  st.epoch \in Epoch /\ st.roomKeys[st.epoch] = KeyOf(cr, st.epoch)
  <1>1. MaxEpoch \in Nat
    BY KeysAssumption
  <1>2. st.epoch \in Epoch
    BY <1>1 DEF TypedRec, Epoch
  <1> QED BY <1>2 DEF TypedRec, OneKey

\* Rounds of shares.
LEMMA SharesAgree ==
  ASSUME NEW c \in Member, NEW st, NEW t, NEW cr, NEW n, NEW kind \in {"KEY", "CHAIN"}, TypedRec(c, st),
         Shares(c, st, t, kind), OneKey(st, cr), OwnChain(c, st, n), kind = "CHAIN" => st.epoch <= n
  PROVE  OneKey(t, cr) /\ OwnChain(c, t, n)
  <1>1. t.roomKeys = st.roomKeys /\ t.senderChains = st.senderChains
    BY SharesKeeps
  <1>2. st.epoch # 0 => st.roomKeys[st.epoch] = KeyOf(cr, st.epoch)
    BY CurrentKey
  <1>3. \A job \in t.retries : job \in st.retries \/ (st.epoch # 0 /\ CurrentJob(c, st, job, kind))
    BY DEF Shares
  <1>4. \A m \in t.out : m \in st.out \/ (st.epoch # 0 /\ CurrentShare(c, st, m, kind))
    BY DEF Shares
  <1>5. OneKey(t, cr)
    BY <1>1, <1>2, <1>3, <1>4 DEF OneKey, CurrentJob, CurrentShare
  <1>6. OwnChain(c, t, n)
    BY <1>1, <1>3, <1>4 DEF OwnChain, CurrentJob, CurrentShare
  <1> QED BY <1>5, <1>6

LEMMA SharesGrow ==
  ASSUME NEW c \in Member, NEW st, NEW t, NEW kind, TypedRec(c, st), Shares(c, st, t, kind)
  PROVE  Grows(c, st, t)
  <1>1. st.epoch \in Nat
    BY TypedFacts
  <1> QED BY <1>1, SharesKeeps, GrowsReflexive

LEMMA GrowsTransitive ==
  ASSUME NEW c, NEW st, NEW t, NEW u, st.epoch \in Nat, t.epoch \in Nat, u.epoch \in Nat, Grows(c, st, t), Grows(c, t, u)
  PROVE  Grows(c, st, u)
  <1>1. st.epoch <= t.epoch /\ t.epoch <= u.epoch
    BY DEF Grows
  <1>2. \A e \in Epoch : e <= st.epoch => e <= t.epoch
    BY <1>1, EpochsNat
  <1> QED BY <1>1, <1>2 DEF Grows

\* adoptKey of a newer epoch.
LEMMA AdoptKeyAgrees ==
  ASSUME NEW c \in Member, NEW st, NEW cr, TypedRec(c, st), st.up, st.inits < MaxInits,
         NEW epoch \in Epoch, NEW key \in Key, epoch > st.epoch, key = KeyOf(cr, epoch),
         OneKey(st, cr), OwnChain(c, st, st.epoch)
  PROVE  /\ OneKey(adoptKey(c, st, epoch, key), cr)
         /\ OwnChain(c, adoptKey(c, st, epoch, key), epoch)
         /\ Grows(c, st, adoptKey(c, st, epoch, key))
         /\ adoptKey(c, st, epoch, key).epoch = epoch
  <1> DEFINE n == st.epoch
             t == adoptKey(c, st, epoch, key)
  <1>1. n \in Nat /\ epoch \in Nat /\ Epoch \subseteq Nat
    BY TypedFacts, EpochsNat
  <1>2. Rec(st)
    BY TypedFacts
  <1>3. PICK a, b, d : /\ Adopted(st, a, epoch, key) /\ Shares(c, a, b, "KEY") /\ Chained(c, b, d)
                       /\ Shares(c, d, adoptKey(c, st, epoch, key), "CHAIN")
    BY <1>1, <1>2, AdoptKeyParts
  <1>4. TypedRec(c, a) /\ TypedRec(c, b) /\ TypedRec(c, d)
    BY <1>3, AdoptPartsTyped
  <1> HIDE DEF t
  <1>5. /\ a.roomKeys = [st.roomKeys EXCEPT ![epoch] = key] /\ a.senderChains = st.senderChains
        /\ a.retries = st.retries /\ a.out = st.out /\ a.epoch = epoch
    BY <1>3 DEF Adopted, Field
  <1>6. OneKey(a, cr) /\ OwnChain(c, a, n)
    <2>1. st.roomKeys \in [Epoch -> Key \union {NoKey}]
      BY DEF TypedRec
    <2> QED BY <1>5, <2>1 DEF OneKey, OwnChain
  <1>7. OneKey(b, cr) /\ OwnChain(c, b, n) /\ b.epoch = epoch /\ b.senderChains = st.senderChains
    BY <1>3, <1>4, <1>5, <1>6, SharesAgree, SharesKeeps
  <1> DEFINE seed == (b.inc - 1) * MaxInits + b.inits + 1
  <1>8. /\ d.senderChains = [b.senderChains EXCEPT ![epoch][c] = seed] /\ d.retries = b.retries /\ d.out = b.out
        /\ d.roomKeys = b.roomKeys /\ d.epoch = epoch
    BY <1>3, <1>7 DEF Chained, Field
  <1> HIDE DEF seed
  <1>9. b.senderChains \in [Epoch -> [Member -> Seed]]
    BY <1>4 DEF TypedRec
  <1>10. /\ \A e \in Epoch : e # epoch => d.senderChains[e][c] = b.senderChains[e][c]
         /\ \A e \in Epoch : \A s \in Member \ {c} : d.senderChains[e][s] = b.senderChains[e][s]
    BY <1>8, <1>9
  <1>11. OneKey(d, cr)
    BY <1>7, <1>8 DEF OneKey
  <1>12. OwnChain(c, d, epoch)
    <2>1. \A e \in Epoch : e > epoch => d.senderChains[e][c] = 0
      <3>1. \A e \in Epoch : e > epoch => e > n /\ e # epoch
        BY <1>1
      <3> QED BY <1>7, <1>10, <3>1 DEF OwnChain
    <2>2. ASSUME NEW e \in Epoch, e <= n PROVE e <= epoch /\ d.senderChains[e][c] = b.senderChains[e][c]
      <3>1. e <= epoch /\ e # epoch
        BY <1>1, <2>2
      <3> QED BY <1>10, <3>1
    <2>3. ASSUME NEW job \in d.retries, job.kind = "CHAIN"
          PROVE  job.epoch <= epoch /\ job.seed = d.senderChains[job.epoch][c]
      <3>1. job.epoch \in Epoch
        BY <1>4, <2>3 DEF TypedRec, TypedJob
      <3>2. job.epoch <= n /\ job.seed = b.senderChains[job.epoch][c]
        BY <1>7, <1>8, <2>3 DEF OwnChain
      <3> QED BY <2>2, <3>1, <3>2
    <2>4. ASSUME NEW m \in d.out, m.type = "CHAIN_SHARE"
          PROVE  m.from = c /\ m.epoch <= epoch /\ m.seed = d.senderChains[m.epoch][c]
      <3>1. m.epoch \in Epoch
        BY <1>4, <2>4 DEF TypedRec, TypedPacket
      <3>2. m.from = c /\ m.epoch <= n /\ m.seed = b.senderChains[m.epoch][c]
        BY <1>7, <1>8, <2>4 DEF OwnChain
      <3> QED BY <2>2, <3>1, <3>2
    <2> QED BY <2>1, <2>3, <2>4 DEF OwnChain
  <1>13. OneKey(t, cr) /\ OwnChain(c, t, epoch)
    <2>1. d.epoch <= epoch
      BY <1>1, <1>8
    <2>2. Shares(c, d, t, "CHAIN")
      BY <1>3 DEF t
    <2> QED BY <1>4, <1>11, <1>12, <2>1, <2>2, SharesAgree
  <1>14. t.senderChains = d.senderChains /\ t.epoch = epoch
    BY <1>3, <1>8, SharesKeeps DEF t
  <1>15. Grows(c, st, t)
    <2>1. \A e \in Epoch : e <= n => e # epoch
      BY <1>1
    <2>2. n <= epoch
      BY <1>1
    <2> QED BY <1>7, <1>10, <1>14, <2>1, <2>2 DEF Grows
  <1> QED BY <1>13, <1>14, <1>15 DEF t

\* rekey by the relay's creator, in its first process.
LEMMA RekeyAgrees ==
  ASSUME NEW c \in Member, NEW st, NEW cr, Steady(c, st, cr), st.up, MayAdopt(st), st.inc = 1,
         st.isCreator => cr = c
  PROVE  Steady(c, rekey(c, st), cr) /\ Grows(c, st, rekey(c, st))
  <1>0. TypedRec(c, st) /\ OneKey(st, cr) /\ OwnChain(c, st, st.epoch) /\ st.epoch \in Nat
    BY TypedFacts DEF Steady
  <1>1. CASE ~st.isCreator
    <2>1. rekey(c, st) = st
      BY <1>1 DEF rekey
    <2> QED BY <1>0, <2>1, GrowsReflexive
  <1>2. CASE st.isCreator
    <2> DEFINE n == st.epoch + 1
               key == NewKey(c, st, n)
               a == adoptKey(c, st, n, key)
               t == pruneOldEpochs(a)
    <2>1. n \in Epoch /\ st.inits < MaxInits /\ n > st.epoch
      <3>1. MaxEpoch \in Nat
        BY KeysAssumption
      <3>2. st.epoch < MaxEpoch /\ st.inits < MaxInits
        BY DEF MayAdopt
      <3> QED BY <1>0, <3>1, <3>2 DEF Epoch
    <2>2. rekey(c, st) = t
      BY <1>2 DEF rekey
    <2> HIDE DEF n
    <2>3. key \in Key /\ key = KeyOf(cr, n)
      <3>1. st.inc \in 1 .. MaxStarts
        BY <1>0 DEF TypedRec
      <3> QED BY <1>2, <2>1, <3>1 DEF NewKey, Key, KeyOf
    <2> HIDE DEF key
    <2>4. OneKey(a, cr) /\ OwnChain(c, a, n) /\ Grows(c, st, a) /\ a.epoch = n
      BY <1>0, <2>1, <2>3, AdoptKeyAgrees
    <2>5. TypedRec(c, a)
      BY <1>0, <2>1, <2>3, AdoptKeyTyped
    <2>6. TypedRec(c, t)
      BY <1>0, <2>2, RekeyTyped
    <2> HIDE DEF a
    <2>7. Rec(a)
      BY <2>5, TypedFacts
    <2>8. /\ t.epoch = a.epoch /\ t.retries = a.retries /\ t.out = a.out /\ t.senderChains = a.senderChains
          /\ t.roomKeys = [e \in Epoch |-> IF e + KEEP_EPOCHS < a.epoch THEN NoKey ELSE a.roomKeys[e]]
      BY <2>7 DEF pruneOldEpochs, Rec, Field
    <2> HIDE DEF t
    <2>9. OneKey(t, cr)
      BY <2>4, <2>8 DEF OneKey
    <2>10. OwnChain(c, t, t.epoch)
      BY <2>4, <2>8 DEF OwnChain
    <2>11. Grows(c, st, t)
      BY <2>4, <2>8 DEF Grows
    <2> QED BY <2>2, <2>6, <2>9, <2>10, <2>11 DEF Steady
  <1> QED BY <1>1, <1>2

\* c may become st: its keys and chains are the members' own.
Ready(c, st) ==
  /\ Rec(st) /\ OneKey(st, creator) /\ OwnChain(c, st, st.epoch)
  /\ client[c].epoch <= st.epoch
  /\ \A e \in Epoch : e <= client[c].epoch => st.senderChains[e][c] = client[c].senderChains[e][c]
  /\ \A e \in Epoch : \A s \in Member \ {c} : st.senderChains[e][s] \in {0, client[s].senderChains[e][s]}
  /\ (st.inc = 0 => st.epoch = 0) /\ (st.inc # 0 => st.linked)

\* What a client's step leaves to agree on.
LEMMA BecomesAgrees ==
  ASSUME RoleInv, TypeInv, Agree, NEW c \in Member, NEW st, NEW used, Becomes(c, st, used), UNCHANGED creator,
         Ready(c, st)
  PROVE  Agree'
  <1> DEFINE t == [st EXCEPT !.out = {}]
  <1>1. /\ t.out = {} /\ t.inc = st.inc /\ t.linked = st.linked /\ t.epoch = st.epoch /\ t.retries = st.retries
        /\ t.roomKeys = st.roomKeys /\ t.senderChains = st.senderChains
    <2>1. Rec(st)
      BY DEF Ready
    <2> QED BY <2>1 DEF Rec, Field
  <1>2. client' = [client EXCEPT ![c] = t] /\ net' = (net \ used) \union st.out
    BY DEF Becomes
  <1> HIDE DEF t
  <1>3. client'[c] = t /\ \A d \in Member \ {c} : client'[d] = client[d]
    BY <1>2 DEF RoleInv
  <1>4. client[c].epoch \in Nat /\ st.epoch \in Nat
    <2>1. TypedRec(c, client[c])
      BY DEF TypeInv
    <2> QED BY <2>1, TypedFacts DEF Ready, Rec
  <1>5. ClientsAgree'
    <2> SUFFICES ASSUME NEW d \in Member
                 PROVE  OneKey(client'[d], creator') /\ OwnChain(d, client'[d], client'[d].epoch)
      BY DEF ClientsAgree
    <2>1. CASE d = c
      <3>1. OneKey(t, creator)
        BY <1>1 DEF Ready, OneKey
      <3>2. OwnChain(c, t, t.epoch)
        BY <1>1 DEF Ready, OwnChain
      <3> QED BY <1>3, <2>1, <3>1, <3>2
    <2>2. CASE d # c
      BY <1>3, <2>2 DEF Agree, ClientsAgree
    <2> QED BY <2>1, <2>2
  <1>6. KeysSentAgree'
    <2>1. \A m \in st.out : m.type = "KEY_SHARE" => m.key = KeyOf(creator, m.epoch)
      BY DEF Ready, OneKey
    <2> QED BY <1>2, <2>1 DEF Agree, KeysSentAgree
  <1>7. ChainsSentAgree'
    <2> SUFFICES ASSUME NEW m \in net', m.type = "CHAIN_SHARE"
                 PROVE  /\ m.epoch <= client'[m.from].epoch
                        /\ m.seed = client'[m.from].senderChains[m.epoch][m.from]
      BY DEF ChainsSentAgree
    <2>1. CASE m \in st.out
      <3>1. m.from = c /\ m.epoch <= st.epoch /\ m.seed = st.senderChains[m.epoch][c]
        BY <2>1 DEF Ready, OwnChain
      <3> QED BY <1>1, <1>3, <3>1
    <2>2. CASE m \in net
      <3>1. m.from \in Member /\ m.epoch \in Epoch
        BY <2>2 DEF TypeInv, TypedPacket
      <3>2. m.epoch <= client[m.from].epoch /\ m.seed = client[m.from].senderChains[m.epoch][m.from]
        BY <2>2 DEF Agree, ChainsSentAgree
      <3>3. CASE m.from # c
        BY <1>3, <3>1, <3>2, <3>3
      <3>4. CASE m.from = c
        <4>1. client[c].epoch <= st.epoch /\ st.senderChains[m.epoch][c] = client[c].senderChains[m.epoch][c]
          BY <3>1, <3>2, <3>4 DEF Ready
        <4>2. m.epoch <= st.epoch
          <5>1. m.epoch \in Nat /\ m.epoch <= client[c].epoch
            BY <3>1, <3>2, <3>4, EpochsNat
          <5> QED BY <1>4, <4>1, <5>1
        <4> QED BY <1>1, <1>3, <3>2, <3>4, <4>1, <4>2
      <3> QED BY <3>3, <3>4
    <2> QED BY <1>2, <2>1, <2>2
  <1>8. ChainsStored'
    <2> SUFFICES ASSUME NEW d \in Member, NEW s \in Member, NEW e \in Epoch
                 PROVE  client'[d].senderChains[e][s] \in {0, client'[s].senderChains[e][s]}
      BY DEF ChainsStored
    <2>1. client[d].senderChains[e][s] \in {0, client[s].senderChains[e][s]}
      BY DEF Agree, ChainsStored
    <2>2. CASE d # c /\ s # c
      BY <1>3, <2>1, <2>2
    <2>3. CASE d = s
      BY <2>3
    <2>4. CASE d = c /\ s # c
      <3>1. st.senderChains[e][s] \in {0, client[s].senderChains[e][s]}
        BY <2>4 DEF Ready
      <3> QED BY <1>1, <1>3, <2>4, <3>1
    <2>5. CASE d # c /\ s = c
      <3>1. CASE e <= client[c].epoch
        <4>1. st.senderChains[e][c] = client[c].senderChains[e][c]
          BY <3>1 DEF Ready
        <4> QED BY <1>1, <1>3, <2>1, <2>5, <4>1
      <3>2. CASE ~(e <= client[c].epoch)
        <4>1. e > client[c].epoch
          BY <1>4, <3>2, EpochsNat
        <4>2. client[c].senderChains[e][c] = 0
          BY <4>1 DEF Agree, ClientsAgree, OwnChain
        <4> QED BY <1>3, <2>1, <2>5, <4>2
      <3> QED BY <3>1, <3>2
    <2> QED BY <2>2, <2>3, <2>4, <2>5
  <1>9. Started'
    <2>1. (st.inc = 0 => st.epoch = 0) /\ (st.inc # 0 => st.linked)
      BY DEF Ready
    <2> QED BY <1>1, <1>3, <2>1 DEF Agree, Started
  <1> QED BY <1>5, <1>6, <1>7, <1>8, <1>9 DEF Agree

\* A handler of a running client that shares, and adopts newer epochs.
LEMMA GrowsAgrees ==
  ASSUME RoleInv, TypeInv, Agree, NEW c \in Member, NEW st, NEW used, Becomes(c, st, used), UNCHANGED creator,
         Rec(st), OneKey(st, creator), OwnChain(c, st, st.epoch), Grows(c, client[c], st),
         st.inc = client[c].inc, st.linked = client[c].linked, client[c].inc = 0 => st.epoch = 0
  PROVE  Agree'
  <1>1. \A e \in Epoch : \A s \in Member \ {c} : st.senderChains[e][s] \in {0, client[s].senderChains[e][s]}
    BY DEF Agree, ChainsStored, Grows
  <1>2. /\ client[c].epoch <= st.epoch
        /\ \A e \in Epoch : e <= client[c].epoch => st.senderChains[e][c] = client[c].senderChains[e][c]
    BY DEF Grows
  <1>3. (st.inc = 0 => st.epoch = 0) /\ (st.inc # 0 => st.linked)
    BY DEF Agree, Started
  <1>4. Ready(c, st)
    BY <1>1, <1>2, <1>3 DEF Ready
  <1> QED BY <1>4, BecomesAgrees

\* ... in its first process.
LEMMA SteadyAgrees ==
  ASSUME RoleInv, TypeInv, Agree, NEW c \in Member, NEW st, NEW used, Becomes(c, st, used), UNCHANGED creator,
         Steady(c, st, creator), Grows(c, client[c], st), st.inc = client[c].inc, st.linked = client[c].linked,
         client[c].inc = 1
  PROVE  Agree'
  <1>1. Rec(st) /\ OneKey(st, creator) /\ OwnChain(c, st, st.epoch)
    BY TypedFacts DEF Steady
  <1>2. client[c].inc # 0
    OBVIOUS
  <1> QED BY <1>1, <1>2, GrowsAgrees

\* A running client that nobody restarted is in its first process.
LEMMA FirstProcess ==
  ASSUME TypeInv, NoChurn, NEW c \in Member, client[c].up
  PROVE  client[c].inc = 1
  <1>1. client[c].inc \in 0 .. MaxStarts /\ client[c].inc # 0 /\ MaxStarts \in Nat
    BY KeysAssumption DEF TypeInv, TypedRec
  <1>2. client[c].inc <= 1
    BY DEF NoChurn
  <1> QED BY <1>1, <1>2

LEMMA ClientSteady ==
  ASSUME TypeInv, Agree, NEW c \in Member
  PROVE  Steady(c, client[c], creator)
  BY DEF TypeInv, Agree, ClientsAgree, Steady

-----------------------------------------------------------------------------
(* The stages of handleMemberInfo, for the relay's creator cr.             *)

LEMMA KeyedAgrees ==
  ASSUME NEW c \in Member, NEW st, NEW m, NEW cr, InfoDue(c, st, m), st.inc = 1, m.creator => cr = c,
         Steady(c, st, cr)
  PROVE  Steady(c, Keyed(c, st, m), cr) /\ Grows(c, st, Keyed(c, st, m))
  <1> DEFINE a == Informed(st, m)
             b == Keyed(c, st, m)
  <1>1. TypedRec(c, a) /\ TookRole(st, a, m) /\ SameKeys(st, a)
    BY InformedTyped
  <1>2. Steady(c, a, cr) /\ Grows(c, st, a)
    BY <1>1, SameKeysAgree
  <1>3. TypedRec(c, b)
    BY KeyedTyped
  <1>4. OneKey(a, cr) /\ OwnChain(c, a, a.epoch)
    BY <1>2 DEF Steady
  <1>5. OneKey(b, cr) /\ OwnChain(c, b, b.epoch) /\ Grows(c, a, b)
    <2>1. CASE m.creator /\ st.epoch = 0
      <3>1. b = adoptKey(c, a, 1, NewKey(c, a, 1))
        BY <2>1 DEF Keyed
      <3> HIDE DEF a, b
      <3>2. 1 \in Epoch /\ a.up /\ a.inits < MaxInits /\ a.epoch = 0 /\ NewKey(c, a, 1) \in Key
        BY <1>1, <2>1, FirstKeyDue
      <3>3. NewKey(c, a, 1) = KeyOf(cr, 1)
        BY <1>1, <2>1 DEF NewKey, KeyOf, TookRole
      <3>4. 1 > a.epoch
        BY <3>2
      <3> QED BY <1>1, <1>4, <3>1, <3>2, <3>3, <3>4, AdoptKeyAgrees
    <2>2. CASE ~(m.creator /\ st.epoch = 0)
      <3>1. Rec(a)
        BY <1>1, TypedFacts
      <3>2. Shares(c, a, b, "KEY")
        BY <2>2, <3>1, KeyShares DEF Keyed
      <3> HIDE DEF a, b
      <3>3. b.epoch = a.epoch
        BY <3>2, SharesKeeps
      <3>4. OneKey(b, cr) /\ OwnChain(c, b, a.epoch)
        BY <1>1, <1>4, <3>2, SharesAgree
      <3>5. Grows(c, a, b)
        BY <1>1, <3>2, SharesGrow
      <3> QED BY <3>3, <3>4, <3>5
    <2> QED BY <2>1, <2>2
  <1> HIDE DEF a, b
  <1>6. st.epoch \in Nat /\ a.epoch \in Nat /\ b.epoch \in Nat
    BY <1>1, <1>3, TypedFacts DEF Steady
  <1>7. Grows(c, st, b)
    BY <1>2, <1>5, <1>6, GrowsTransitive
  <1> QED BY <1>3, <1>5, <1>7 DEF Steady, b

LEMMA RotatedAgrees ==
  ASSUME NEW c \in Member, NEW st, NEW m, NEW cr, InfoDue(c, st, m), st.inc = 1, m.creator => cr = c,
         Steady(c, st, cr)
  PROVE  Steady(c, Rotated(c, st, m), cr) /\ Grows(c, st, Rotated(c, st, m))
  <1> DEFINE b == Keyed(c, st, m)
             d == Rotated(c, st, m)
  <1>1. Steady(c, b, cr) /\ Grows(c, st, b)
    BY KeyedAgrees
  <1>2. TookRole(st, b, m) /\ (m.creator /\ ~st.isCreator /\ st.epoch # 0 => MayAdopt(b))
    BY KeyedTyped
  <1>3. d = IF m.creator /\ ~st.isCreator /\ st.epoch # 0 THEN rekey(c, b) ELSE b
    BY DEF Rotated
  <1> HIDE DEF b, d
  <1>4. CASE m.creator /\ ~st.isCreator /\ st.epoch # 0
    <2>1. d = rekey(c, b) /\ MayAdopt(b)
      BY <1>2, <1>3, <1>4
    <2>2. b.up /\ b.inc = 1 /\ (b.isCreator => cr = c)
      BY <1>2 DEF TookRole
    <2>3. Steady(c, d, cr) /\ Grows(c, b, d)
      BY <1>1, <2>1, <2>2, RekeyAgrees
    <2>4. st.epoch \in Nat /\ b.epoch \in Nat /\ d.epoch \in Nat
      BY <1>1, <2>3, TypedFacts DEF Steady
    <2>5. Grows(c, st, d)
      BY <1>1, <2>3, <2>4, GrowsTransitive
    <2> QED BY <2>3, <2>5 DEF d
  <1>5. CASE ~(m.creator /\ ~st.isCreator /\ st.epoch # 0)
    <2>1. d = b
      BY <1>3, <1>5
    <2> QED BY <1>1, <2>1 DEF d
  <1> QED BY <1>4, <1>5

LEMMA MemberInfoAgrees ==
  ASSUME NEW c \in Member, NEW m, NEW cr, InfoDue(c, client[c], m), client[c].inc = 1, m.creator => cr = c,
         Steady(c, client[c], cr)
  PROVE  /\ Steady(c, AfterMemberInfo(c, m), cr) /\ Grows(c, client[c], AfterMemberInfo(c, m))
         /\ AfterMemberInfo(c, m).inc = client[c].inc /\ AfterMemberInfo(c, m).linked = client[c].linked
  <1> DEFINE st == client[c]
             d == Rotated(c, st, m)
             f == shareChainWithMembers(c, d)
             t == [f EXCEPT !.rekeyTimer = TRUE]
  <1>1. AfterMemberInfo(c, m) = t
    BY MemberInfoStages
  <1>2. Steady(c, d, cr) /\ Grows(c, st, d) /\ TookRole(st, d, m)
    BY RotatedAgrees, RotatedTyped
  <1>3. TypedRec(c, d) /\ OneKey(d, cr) /\ OwnChain(c, d, d.epoch) /\ st.epoch \in Nat
    BY <1>2, TypedFacts DEF Steady
  <1> HIDE DEF d, st
  <1>4. Rec(d) /\ d.epoch \in Nat
    BY <1>3, TypedFacts
  <1>5. Shares(c, d, f, "CHAIN")
    BY <1>4, ChainShares
  <1> HIDE DEF f
  <1>6. TypedRec(c, f) /\ f.inc = d.inc /\ f.linked = d.linked /\ f.epoch = d.epoch
    BY <1>3, <1>5, SharesTyped, SharesKeeps
  <1>7. Steady(c, f, cr)
    <2>1. d.epoch <= d.epoch
      BY <1>4
    <2>2. OneKey(f, cr) /\ OwnChain(c, f, d.epoch)
      BY <1>3, <1>5, <2>1, SharesAgree
    <2> QED BY <1>6, <2>2 DEF Steady
  <1>8. Grows(c, d, f)
    BY <1>3, <1>5, SharesGrow
  <1>9. TypedRec(c, t) /\ Kept(f, t) /\ SameKeys(f, t)
    BY <1>6, TimerTyped
  <1> HIDE DEF t
  <1>10. Steady(c, t, cr) /\ Grows(c, f, t)
    BY <1>7, <1>9, SameKeysAgree
  <1>11. Grows(c, st, t)
    <2>1. f.epoch \in Nat /\ t.epoch \in Nat
      BY <1>6, <1>9, TypedFacts
    <2>2. Grows(c, st, f)
      BY <1>2, <1>3, <1>4, <1>8, <2>1, GrowsTransitive
    <2> QED BY <1>3, <1>10, <2>1, <2>2, GrowsTransitive
  <1>12. t.inc = st.inc /\ t.linked = st.linked
    BY <1>2, <1>6, <1>9 DEF TookRole, Kept
  <1> QED BY <1>1, <1>10, <1>11, <1>12 DEF st

-----------------------------------------------------------------------------
(* One lemma per action.                                                   *)

LEMMA JoinAgrees ==
  ASSUME RoleInv, TypeInv, NoChurn', Agree, NEW c \in Member, joinConversation(c) \/ RetryJoin(c)
  PROVE  Agree'
  <1>1. CASE joinConversation(c)
    <2> DEFINE st == Fresh(client[c].inc + 1)
               t == [st EXCEPT !.out = {KeyReqPkt(c, st)}]
    <2>1. st.inc <= MaxStarts /\ Becomes(c, t, {}) /\ UNCHANGED creator
      BY <1>1 DEF joinConversation
    <2>2. client[c].inc \in 0 .. MaxStarts /\ st.inc = client[c].inc + 1 /\ st.isCreator = FALSE /\ st.epoch = 0
      BY DEF TypeInv, TypedRec, Fresh
    <2>3. st.inc \in 0 .. MaxStarts /\ st.inc # 0
      BY <2>1, <2>2, KeysAssumption
    <2>4. TypedRec(c, st)
      BY <2>2, <2>3, FreshTyped
    <2>5. \A m \in {KeyReqPkt(c, st)} : m.type = "KEY_REQ"
      BY DEF KeyReqPkt
    <2>6. /\ t.roomKeys = [e \in Epoch |-> NoKey] /\ t.senderChains = [e \in Epoch |-> [m \in Member |-> 0]]
          /\ t.retries = {} /\ t.out = {KeyReqPkt(c, st)} /\ t.epoch = 0 /\ t.linked = TRUE /\ t.inc = st.inc
      BY DEF Fresh
    <2>7. Rec(t)
      <3>1. Rec(st)
        BY <2>4, TypedFacts
      <3> HIDE DEF st
      <3> QED BY <3>1, <2>5 DEF Rec, Field
    <2> HIDE DEF st
    <2>8. client[c].inc = 0
      <3>1. client'[c].inc = st.inc
        <4>1. client' = [client EXCEPT ![c] = [t EXCEPT !.out = {}]]
          BY <2>1 DEF Becomes
        <4>2. client'[c] = [t EXCEPT !.out = {}]
          BY <4>1 DEF RoleInv
        <4>3. [t EXCEPT !.out = {}].inc = t.inc
          BY <2>7 DEF Rec, Field
        <4> QED BY <2>6, <4>2, <4>3
      <3>2. st.inc <= 1
        BY <3>1 DEF NoChurn
      <3>3. client[c].inc \in Nat
        BY <2>2, KeysAssumption
      <3> QED BY <2>2, <3>2, <3>3
    <2> HIDE DEF t
    <2>9. client[c].epoch = 0
      BY <2>8 DEF Agree, Started
    <2>10. OneKey(t, creator) /\ OwnChain(c, t, t.epoch)
      BY <2>5, <2>6 DEF OneKey, OwnChain
    <2>11. \A e \in Epoch : ~(e <= 0)
      BY KeysAssumption DEF Epoch
    <2>12. \A e \in Epoch : \A s \in Member \ {c} : t.senderChains[e][s] \in {0, client[s].senderChains[e][s]}
      BY <2>6
    <2>13. /\ client[c].epoch <= t.epoch
           /\ \A e \in Epoch : e <= client[c].epoch => t.senderChains[e][c] = client[c].senderChains[e][c]
      BY <2>6, <2>9, <2>11
    <2>14. (t.inc = 0 => t.epoch = 0) /\ (t.inc # 0 => t.linked)
      BY <2>6
    <2>15. Ready(c, t)
      BY <2>7, <2>10, <2>12, <2>13, <2>14 DEF Ready
    <2> QED BY <2>1, <2>15, BecomesAgrees
  <1>2. CASE RetryJoin(c)
    <2> DEFINE st == [client[c] EXCEPT !.joins = @ - 1]
               t == [st EXCEPT !.out = {KeyReqPkt(c, st)}]
    <2>1. Becomes(c, t, {}) /\ UNCHANGED creator /\ client[c].joins > 0
      BY <1>2 DEF RetryJoin
    <2>2. Rec(client[c]) /\ client[c].epoch \in Nat /\ OneKey(client[c], creator)
          /\ OwnChain(c, client[c], client[c].epoch)
      BY ClientSteady, TypedFacts DEF Steady
    <2>3. Rec(t)
      BY <2>2 DEF Rec, Field
    <2>4. /\ t.inc = client[c].inc /\ t.linked = client[c].linked /\ t.epoch = client[c].epoch
          /\ t.roomKeys = client[c].roomKeys /\ t.senderChains = client[c].senderChains
          /\ t.retries = client[c].retries /\ t.out = {KeyReqPkt(c, st)}
      BY <2>2 DEF Rec, Field
    <2>5. \A m \in {KeyReqPkt(c, st)} : m.type = "KEY_REQ"
      BY DEF KeyReqPkt
    <2> HIDE DEF t, st
    <2>6. OneKey(t, creator) /\ OwnChain(c, t, t.epoch)
      <3>1. OneKey(t, creator)
        BY <2>2, <2>4, <2>5 DEF OneKey
      <3>2. OwnChain(c, t, t.epoch)
        BY <2>2, <2>4, <2>5 DEF OwnChain
      <3> QED BY <3>1, <3>2
    <2>7. Grows(c, client[c], t)
      BY <2>2, <2>4, GrowsReflexive
    <2>8. client[c].inc = 0 => t.epoch = 0
      BY <2>4 DEF Agree, Started
    <2> QED BY <2>1, <2>3, <2>4, <2>6, <2>7, <2>8, GrowsAgrees
  <1> QED BY <1>1, <1>2

LEMMA RetryShareAgrees ==
  ASSUME RoleInv, TypeInv, Agree, NEW c \in Member, NEW job \in client[c].retries, RetryShare(c, job)
  PROVE  Agree'
  <1> DEFINE rest == client[c].retries \ {job}
             again == IF job.left > 1 THEN {[job EXCEPT !.left = @ - 1]} ELSE {}
             out == Round(c, client[c], job)
             t == [client[c] EXCEPT !.retries = rest \union again, !.out = out]
  <1>1. Becomes(c, t, {}) /\ UNCHANGED creator
    BY DEF RetryShare
  <1>2. Rec(client[c]) /\ client[c].epoch \in Nat /\ OneKey(client[c], creator)
        /\ OwnChain(c, client[c], client[c].epoch)
    BY ClientSteady, TypedFacts DEF Steady
  <1>11. Job(job)
    BY <1>2 DEF Rec
  <1>4. \A j \in again : /\ Job(j) /\ j.kind = job.kind /\ j.epoch = job.epoch
                         /\ job.kind = "KEY" => j.key = job.key
                         /\ job.kind = "CHAIN" => j.seed = job.seed
    BY <1>11 DEF Job
  <1>5. \A m \in out : /\ m.from = c /\ m.epoch = job.epoch
                       /\ m.type = "KEY_SHARE" => job.kind = "KEY" /\ m.key = job.key
                       /\ m.type = "CHAIN_SHARE" => job.kind = "CHAIN" /\ m.seed = job.seed
    BY <1>11 DEF Round, Job
  <1> HIDE DEF again, out
  <1>3. Rec(t)
    BY <1>2, <1>4 DEF Rec, Field
  <1>6. /\ t.inc = client[c].inc /\ t.linked = client[c].linked /\ t.epoch = client[c].epoch
        /\ t.roomKeys = client[c].roomKeys /\ t.senderChains = client[c].senderChains
        /\ t.retries = rest \union again /\ t.out = out
    BY <1>2 DEF Rec, Field
  <1> HIDE DEF t
  <1>7. OneKey(t, creator)
    BY <1>2, <1>4, <1>5, <1>6 DEF OneKey
  <1>8. OwnChain(c, t, t.epoch)
    BY <1>2, <1>4, <1>5, <1>6 DEF OwnChain
  <1>9. Grows(c, client[c], t)
    BY <1>2, <1>6, GrowsReflexive
  <1>10. client[c].inc = 0 => t.epoch = 0
    BY <1>6 DEF Agree, Started
  <1> QED BY <1>1, <1>3, <1>6, <1>7, <1>8, <1>9, <1>10, GrowsAgrees

LEMMA RekeyTimerAgrees ==
  ASSUME RoleInv, TypeInv, NoChurn, Agree, NEW c \in Member, RekeyTimer(c)
  PROVE  Agree'
  <1> DEFINE st == client[c]
             fired == [st EXCEPT !.rekeyTimer = FALSE]
             t == rekey(c, fired)
  <1>1. Becomes(c, t, {}) /\ UNCHANGED creator /\ st.up /\ MayAdopt(st)
    BY DEF RekeyTimer
  <1>2. st.inc = 1
    BY <1>1, FirstProcess
  <1>3. Steady(c, st, creator) /\ (st.isCreator => creator = c)
    <2>1. st.linked /\ SoundClient(c)
      BY <1>2 DEF Agree, Started, RoleInv
    <2>2. st.isCreator => creator = c
      BY <1>1, <2>1 DEF SoundClient
    <2> QED BY <2>2, ClientSteady
  <1>4. TypedRec(c, st) /\ st.epoch \in Nat
    BY <1>3, TypedFacts DEF Steady
  <1>5. TypedRec(c, fired) /\ Kept(st, fired) /\ SameKeys(st, fired)
    BY <1>4, TimerTyped
  <1> HIDE DEF fired
  <1>6. Steady(c, fired, creator) /\ Grows(c, st, fired)
    BY <1>3, <1>5, SameKeysAgree
  <1>7. fired.up /\ MayAdopt(fired) /\ fired.inc = 1 /\ (fired.isCreator => creator = c)
    BY <1>1, <1>2, <1>3, <1>5 DEF MayAdopt, Kept, SameKeys
  <1>8. Steady(c, t, creator) /\ Grows(c, fired, t)
    BY <1>6, <1>7, RekeyAgrees
  <1>9. Rec(fired) /\ fired.epoch \in Nat
    BY <1>5, TypedFacts
  <1>10. Kept(fired, t)
    BY <1>9, RekeyKept
  <1> HIDE DEF t
  <1>11. t.epoch \in Nat
    BY <1>8, TypedFacts DEF Steady
  <1>12. Grows(c, st, t)
    BY <1>4, <1>6, <1>8, <1>9, <1>11, GrowsTransitive
  <1>13. t.inc = st.inc /\ t.linked = st.linked
    BY <1>5, <1>10 DEF Kept
  <1> QED BY <1>1, <1>2, <1>8, <1>12, <1>13, SteadyAgrees

LEMMA KeyShareAgrees ==
  ASSUME RoleInv, TypeInv, Agree, NEW c \in Member, NEW m \in net, client[c].up, client[c].inc = 1,
         UNCHANGED creator, m.type = "KEY_SHARE", client[c].inits < MaxInits, Adopts(client[c], m),
         Becomes(c, adoptKey(c, client[c], m.epoch, m.key), {m})
  PROVE  Agree'
  <1> DEFINE st == client[c]
             t == adoptKey(c, st, m.epoch, m.key)
  <1>1. TypedRec(c, st) /\ OneKey(st, creator) /\ OwnChain(c, st, st.epoch)
    BY ClientSteady DEF Steady
  <1>2. Rec(st) /\ st.epoch \in Nat
    BY <1>1, TypedFacts
  <1>3. m.epoch \in Epoch /\ m.key \in Key
    BY DEF TypeInv, TypedPacket
  <1>4. m.epoch \in Nat /\ m.epoch # 0
    BY <1>3, KeysAssumption DEF Epoch
  <1>5. m.key = KeyOf(creator, m.epoch)
    BY DEF Agree, KeysSentAgree
  <1>6. m.epoch > st.epoch
    <2>1. SUFFICES ASSUME m.epoch = st.epoch PROVE m.key = st.roomKeys[st.epoch]
      BY DEF Adopts
    <2>2. st.epoch # 0
      BY <1>4, <2>1
    <2>3. st.roomKeys[st.epoch] = KeyOf(creator, st.epoch)
      <3> HIDE DEF st
      <3> QED BY <1>1, <2>2, CurrentKey
    <2> QED BY <1>5, <2>1, <2>3
  <1>7. TypedRec(c, t)
    BY <1>1, <1>3, AdoptKeyTyped
  <1>8. OneKey(t, creator) /\ OwnChain(c, t, t.epoch) /\ Grows(c, st, t)
    <2>1. st.up /\ st.inits < MaxInits
      OBVIOUS
    <2>2. OneKey(t, creator) /\ OwnChain(c, t, m.epoch) /\ Grows(c, st, t) /\ t.epoch = m.epoch
      <3> HIDE DEF st
      <3> QED BY <1>1, <1>3, <1>5, <1>6, <2>1, AdoptKeyAgrees
    <2> QED BY <2>2
  <1>9. Kept(st, t)
    BY <1>2, <1>4, AdoptKeyKept
  <1> HIDE DEF t
  <1>10. Steady(c, t, creator)
    BY <1>7, <1>8 DEF Steady
  <1>11. t.inc = st.inc /\ t.linked = st.linked
    BY <1>9 DEF Kept
  <1> QED BY <1>8, <1>10, <1>11, SteadyAgrees DEF t

LEMMA ChainShareAgrees ==
  ASSUME RoleInv, TypeInv, Agree, NEW c \in Member, NEW m \in net, UNCHANGED creator, m.type = "CHAIN_SHARE",
         Becomes(c, [client[c] EXCEPT !.senderChains[m.epoch][m.from] = m.seed], {m})
  PROVE  Agree'
  <1> DEFINE st == client[c]
             t == [st EXCEPT !.senderChains[m.epoch][m.from] = m.seed]
  <1>1. TypedRec(c, st) /\ OneKey(st, creator) /\ OwnChain(c, st, st.epoch)
    BY ClientSteady DEF Steady
  <1>2. Rec(st) /\ st.epoch \in Nat
    BY <1>1, TypedFacts
  <1>3. m.epoch \in Epoch /\ m.from \in Member
    BY DEF TypeInv, TypedPacket
  <1>4. m.seed = client[m.from].senderChains[m.epoch][m.from]
    BY DEF Agree, ChainsSentAgree
  <1>5. Rec(t)
    BY <1>2 DEF Rec, Field
  <1>6. /\ t.inc = st.inc /\ t.linked = st.linked /\ t.epoch = st.epoch /\ t.roomKeys = st.roomKeys
        /\ t.retries = st.retries /\ t.out = st.out
        /\ t.senderChains = [st.senderChains EXCEPT ![m.epoch][m.from] = m.seed]
    BY <1>2 DEF Rec, Field
  <1> HIDE DEF t
  <1>7. st.senderChains \in [Epoch -> [Member -> Seed]]
    BY <1>1 DEF TypedRec
  <1>8. \A e \in Epoch : t.senderChains[e][c] = st.senderChains[e][c]
    <2>1. CASE m.from # c
      BY <1>3, <1>6, <1>7, <2>1
    <2>2. CASE m.from = c
      BY <1>3, <1>4, <1>6, <1>7, <2>2
    <2> QED BY <2>1, <2>2
  <1>9. \A e \in Epoch : \A s \in Member \ {c} : t.senderChains[e][s] \in {0, client[s].senderChains[e][s]}
    <2> SUFFICES ASSUME NEW e \in Epoch, NEW s \in Member \ {c}
                 PROVE  t.senderChains[e][s] \in {0, client[s].senderChains[e][s]}
      OBVIOUS
    <2>1. CASE e = m.epoch /\ s = m.from
      <3>1. t.senderChains[m.epoch][m.from] = m.seed
        BY <1>3, <1>6, <1>7
      <3> QED BY <1>4, <2>1, <3>1
    <2>2. CASE ~(e = m.epoch /\ s = m.from)
      <3>1. t.senderChains[e][s] = st.senderChains[e][s]
        BY <1>3, <1>6, <1>7, <2>2
      <3> QED BY <3>1 DEF Agree, ChainsStored
    <2> QED BY <2>1, <2>2
  <1>10. OneKey(t, creator)
    BY <1>1, <1>6 DEF OneKey
  <1>11. OwnChain(c, t, t.epoch)
    <2>1. /\ \A job \in t.retries : job.kind = "CHAIN" => job.epoch \in Epoch
          /\ \A n \in t.out : n.type = "CHAIN_SHARE" => n.epoch \in Epoch
      BY <1>1, <1>6 DEF TypedRec, TypedJob, TypedPacket
    <2> QED BY <1>1, <1>6, <1>8, <2>1 DEF OwnChain
  <1>12. st.epoch <= t.epoch
    BY <1>2, <1>6
  <1>13. (t.inc = 0 => t.epoch = 0) /\ (t.inc # 0 => t.linked)
    BY <1>6 DEF Agree, Started
  <1>14. Ready(c, t)
    BY <1>5, <1>8, <1>9, <1>10, <1>11, <1>12, <1>13 DEF Ready
  <1> QED BY <1>14, BecomesAgrees DEF t

LEMMA HandleAgrees ==
  ASSUME RoleInv, TypeInv, NoChurn, Agree, NEW c \in Member, NEW m \in net, Handle(c, m)
  PROVE  Agree'
  <1> DEFINE st == client[c]
  <1>1. st.up /\ UNCHANGED creator
    BY DEF Handle, handleMemberInfo, handleKeyShare, handleChainShare
  <1>2. st.inc = 1
    BY <1>1, FirstProcess
  <1>3. Steady(c, st, creator)
    BY ClientSteady
  <1>4. CASE Becomes(c, st, {m})
    <2>1. st.epoch \in Nat
      BY <1>3, TypedFacts DEF Steady
    <2>2. Grows(c, st, st)
      BY <2>1, GrowsReflexive
    <2> QED BY <1>1, <1>2, <1>3, <1>4, <2>2, SteadyAgrees
  <1>5. CASE handleMemberInfo(c, m) /\ ~Becomes(c, st, {m})
    <2> DEFINE t == AfterMemberInfo(c, m)
    <2>1. m.type = "MEMBER_INFO" /\ Becomes(c, t, {m}) /\ (m.creator /\ ~st.isCreator => MayAdopt(st))
          /\ m.to = c /\ m.toPub = st.inc
      BY <1>5 DEF handleMemberInfo
    <2>2. m.roster \in [Member -> 0 .. MaxStarts] /\ (st.isCreator => st.epoch # 0)
      BY <2>1 DEF TypeInv, TypedPacket
    <2>3. SoundPacket(m) /\ st.linked
      BY <1>2 DEF RoleInv, Agree, Started
    <2>4. m.creator \in BOOLEAN /\ (m.creator => creator = c)
      BY <2>1, <2>3 DEF SoundPacket
    <2>5. TypedRec(c, st)
      BY <1>3 DEF Steady
    <2>6. InfoDue(c, st, m)
      BY <1>1, <2>1, <2>2, <2>4, <2>5 DEF InfoDue
    <2>7. Steady(c, t, creator) /\ Grows(c, st, t) /\ t.inc = st.inc /\ t.linked = st.linked
      BY <1>2, <1>3, <2>4, <2>6, MemberInfoAgrees
    <2> HIDE DEF t
    <2> QED BY <1>1, <1>2, <2>1, <2>7, SteadyAgrees
  <1>6. CASE handleKeyShare(c, m) /\ ~Becomes(c, st, {m})
    <2>1. /\ m.type = "KEY_SHARE" /\ st.inits < MaxInits /\ Adopts(st, m)
          /\ Becomes(c, adoptKey(c, st, m.epoch, m.key), {m})
      BY <1>6 DEF handleKeyShare
    <2> QED BY <1>1, <1>2, <2>1, KeyShareAgrees
  <1>7. CASE handleChainShare(c, m) /\ ~Becomes(c, st, {m})
    <2>1. m.type = "CHAIN_SHARE" /\ Becomes(c, [st EXCEPT !.senderChains[m.epoch][m.from] = m.seed], {m})
      BY <1>7 DEF handleChainShare
    <2> QED BY <1>1, <2>1, ChainShareAgrees
  <1> QED BY <1>4, <1>5, <1>6, <1>7 DEF Handle

\* The first KeyReq makes the creator: before it nobody has a key.
LEMMA RelayAgrees ==
  ASSUME RoleInv, TypeInv, Agree, NEW m \in net, RelayKeyReq(m)
  PROVE  Agree'
  <1>1. /\ client' = client /\ creator' = IF creator = NoOne THEN m.from ELSE creator
        /\ net' = (net \ {m}) \union notifyMembers(members', creator')
    BY DEF RelayKeyReq, CreatorOnKeyReq
  <1>2. \A n \in net' : n \in net \/ n.type = "MEMBER_INFO"
    BY <1>1 DEF notifyMembers
  <1>3. creator # NoOne => creator' = creator
    BY <1>1
  <1>4. ASSUME creator = NoOne, NEW e
        PROVE  KeyOf(creator, e) \notin Key
    BY <1>4, KeysAssumption DEF KeyOf, Key
  <1>5. ASSUME NEW c \in Member PROVE OneKey(client[c], creator')
    <2>1. OneKey(client[c], creator) /\ TypedRec(c, client[c])
      BY DEF Agree, ClientsAgree, TypeInv
    <2>2. CASE creator # NoOne
      BY <1>3, <2>1, <2>2
    <2>3. CASE creator = NoOne
      <3>0. /\ client[c].roomKeys \in [Epoch -> Key \union {NoKey}]
            /\ \A job \in client[c].retries : job.kind = "KEY" => job.key \in Key
        BY <2>1 DEF TypedRec, TypedJob
      <3>1. \A e \in Epoch : client[c].roomKeys[e] = NoKey
        BY <1>4, <2>1, <2>3, <3>0 DEF OneKey
      <3>2. \A job \in client[c].retries : job.kind # "KEY"
        BY <1>4, <2>1, <2>3, <3>0 DEF OneKey
      <3>3. client[c].out = {}
        BY DEF TypeInv
      <3> QED BY <3>1, <3>2, <3>3 DEF OneKey
    <2> QED BY <2>2, <2>3
  <1>6. ASSUME NEW n \in net', n.type = "KEY_SHARE" PROVE n.key = KeyOf(creator', n.epoch)
    <2>1. n \in net /\ n.key = KeyOf(creator, n.epoch) /\ n.key \in Key
      BY <1>2, <1>6 DEF Agree, KeysSentAgree, TypeInv, TypedPacket
    <2> QED BY <1>3, <1>4, <2>1
  <1>7. ClientsAgree'
    BY <1>1, <1>5 DEF Agree, ClientsAgree
  <1>8. KeysSentAgree'
    BY <1>6 DEF KeysSentAgree
  <1>9. ChainsSentAgree'
    BY <1>1, <1>2 DEF Agree, ChainsSentAgree
  <1>10. ChainsStored' /\ Started'
    BY <1>1 DEF Agree, ChainsStored, Started
  <1> QED BY <1>7, <1>8, <1>9, <1>10 DEF Agree

LEMMA AgreeStep ==
  ASSUME RoleInv, TypeInv, AgreeInv, [Next]_vars
  PROVE  AgreeInv'
  <1>1. leaves' \in {leaves, leaves + 1} /\ leaves' \in Nat
    <2>1. CASE Next
      <3>1. ASSUME NEW c \in Member, joinConversation(c) \/ RetryJoin(c) \/ RekeyTimer(c)
            PROVE  leaves' = leaves
        BY <3>1 DEF joinConversation, RetryJoin, RekeyTimer
      <3>2. ASSUME NEW c \in Member, Leave(c) \/ disableFallback(c)
            PROVE  leaves' = leaves + 1
        BY <3>2 DEF Leave, disableFallback, removePeer
      <3>3. ASSUME NEW c \in Member, NEW job \in client[c].retries, RetryShare(c, job)
            PROVE  leaves' = leaves
        BY <3>3 DEF RetryShare
      <3>4. ASSUME NEW m \in net, RelayKeyReq(m) \/ Lose(m) \/ \E c \in Member : Handle(c, m)
            PROVE  leaves' = leaves
        BY <3>4 DEF RelayKeyReq, Lose, Handle, handleMemberInfo, handleKeyShare, handleChainShare
      <3>5. leaves' \in {leaves, leaves + 1}
        BY <2>1, <3>1, <3>2, <3>3, <3>4 DEF Next
      <3> QED BY <3>5 DEF AgreeInv
    <2>2. CASE UNCHANGED vars
      BY <2>2 DEF vars, AgreeInv
    <2> QED BY <2>1, <2>2
  <1> SUFFICES ASSUME NoChurn' PROVE Agree'
    BY <1>1 DEF AgreeInv
  <1>2. ASSUME NEW c \in Member, Leave(c) \/ disableFallback(c)
        PROVE  FALSE
    <2>1. leaves' = leaves + 1
      BY <1>2 DEF Leave, disableFallback, removePeer
    <2> QED BY <2>1 DEF AgreeInv, NoChurn
  <1>3. UNCHANGED leaves
    BY <1>1 DEF NoChurn, AgreeInv
  <1>4. NoChurn /\ Agree
    <2>1. \A c \in Member : client'[c].inc \in Nat /\ client[c].inc \in Nat /\ client[c].inc <= client'[c].inc
      BY RoleStep DEF KeepsStarts
    <2>2. \A c \in Member : client[c].inc <= 1
      BY <2>1 DEF NoChurn
    <2> QED BY <1>3, <2>2 DEF NoChurn, AgreeInv
  <1>5. ASSUME NEW c \in Member, joinConversation(c) \/ RetryJoin(c) \/ RekeyTimer(c)
        PROVE  Agree'
    BY <1>4, <1>5, JoinAgrees, RekeyTimerAgrees
  <1>6. ASSUME NEW c \in Member, NEW job \in client[c].retries, RetryShare(c, job)
        PROVE  Agree'
    BY <1>4, <1>6, RetryShareAgrees
  <1>7. ASSUME NEW m \in net, RelayKeyReq(m)
        PROVE  Agree'
    BY <1>4, <1>7, RelayAgrees
  <1>8. ASSUME UNCHANGED <<client, creator>>, net' \subseteq net
        PROVE  Agree'
    <2>1. ClientsAgree' /\ ChainsStored' /\ Started'
      BY <1>4, <1>8 DEF Agree, ClientsAgree, ChainsStored, Started
    <2>2. KeysSentAgree' /\ ChainsSentAgree'
      BY <1>4, <1>8 DEF Agree, KeysSentAgree, ChainsSentAgree
    <2> QED BY <2>1, <2>2 DEF Agree
  <1>9. ASSUME NEW m \in net, NEW c \in Member, Handle(c, m)
        PROVE  Agree'
    BY <1>4, <1>9, HandleAgrees
  <1>10. ASSUME NEW m \in net, Lose(m)
         PROVE  Agree'
    BY <1>8, <1>10 DEF Lose
  <1>11. CASE UNCHANGED vars
    BY <1>8, <1>11 DEF vars
  <1> QED BY <1>2, <1>5, <1>6, <1>7, <1>9, <1>10, <1>11 DEF Next

LEMMA AgreeInvAlways == Spec => []AgreeInv
  <1>1. Init => AgreeInv
    <2> SUFFICES ASSUME Init PROVE AgreeInv
      OBVIOUS
    <2>1. ASSUME NEW c \in Member
          PROVE  LET st == client[c]
                 IN  /\ st.inc = 0 /\ st.epoch = 0 /\ st.retries = {} /\ st.out = {}
                     /\ st.roomKeys = [e \in Epoch |-> NoKey]
                     /\ st.senderChains = [e \in Epoch |-> [m \in Member |-> 0]]
      <3>1. client[c] = Down(0)
        BY DEF Init
      <3> QED BY <3>1 DEF Down, Fresh
    <2>2. ASSUME NEW c \in Member
          PROVE  OneKey(client[c], creator) /\ OwnChain(c, client[c], client[c].epoch)
      <3>1. OneKey(client[c], creator)
        BY <2>1 DEF OneKey
      <3>2. OwnChain(c, client[c], client[c].epoch)
        BY <2>1 DEF OwnChain
      <3> QED BY <3>1, <3>2
    <2>3. \A c, s \in Member : \A e \in Epoch : client[c].senderChains[e][s] = 0
      BY <2>1
    <2>4. net = {} /\ leaves \in Nat
      BY DEF Init
    <2>5. ClientsAgree /\ ChainsStored /\ Started
      BY <2>1, <2>2, <2>3 DEF ClientsAgree, ChainsStored, Started
    <2>6. KeysSentAgree /\ ChainsSentAgree
      BY <2>4 DEF KeysSentAgree, ChainsSentAgree
    <2> QED BY <2>4, <2>5, <2>6 DEF Agree, AgreeInv
  <1> QED BY <1>1, AgreeStep, RoleInvAlways, TypeInvAlways, PTL DEF Spec

\* As long as nobody leaves or starts again, an epoch has one group key (adoptKey,
\* whatever rosters and shares are lost, repeated and reordered).
THEOREM OneKeyWithoutChurn == Spec => [](NoChurn => OneKeyPerEpoch)
  <1>1. AgreeInv => (NoChurn => OneKeyPerEpoch)
    BY DEF AgreeInv, Agree, ClientsAgree, OneKey, OneKeyPerEpoch, Up
  <1> QED BY <1>1, AgreeInvAlways, PTL

\* ... and a chain stored for a sender is the one the sender ratchets
\* (handleChainShare: "storing the shared state is always safe").
THEOREM ChainsAgreeWithoutChurn == Spec => [](NoChurn => ChainsAgree)
  <1>1. AgreeInv => (NoChurn => ChainsAgree)
    BY DEF AgreeInv, Agree, ChainsStored, ChainsAgree, Up
  <1> QED BY <1>1, AgreeInvAlways, PTL
=============================================================================
