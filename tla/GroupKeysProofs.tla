--------------------------- MODULE GroupKeysProofs --------------------------
(***************************************************************************)
(* There are never two creators, no client goes back to an earlier epoch,  *)
(* and the clients' maps hold what their declarations say (OneCreator,     *)
(* EpochsAdvance and TypeOK of GroupKeys), for every set of members and    *)
(* every bound.  What the parts of the handlers do to a client's record is *)
(* stated here once, for these proofs and for those of GroupKeysAgreement. *)
(***************************************************************************)
EXTENDS GroupKeys, TLAPS

LOCAL INSTANCE WellFoundedInduction

\* The fields of a client's record.
Field == {"inc", "up", "linked", "roster", "isCreator", "epoch", "roomKeys", "sharedWith", "chainSharedWith",
          "senderChains", "inits", "retries", "rekeyTimer", "joins", "out"}

\* A key or chain share, a repeat under way, and a client's record, as far as the
\* proofs need them.
Share(m) == m.type \in {"KEY_SHARE", "CHAIN_SHARE"} /\ m.epoch \in Nat

Job(job) ==
  /\ job = [f \in DOMAIN job |-> job[f]] /\ {"kind", "epoch"} \subseteq DOMAIN job
  /\ job.kind \in {"KEY", "CHAIN"} /\ job.epoch \in Nat
  /\ job.kind = "KEY" => "key" \in DOMAIN job
  /\ job.kind = "CHAIN" => "seed" \in DOMAIN job

Rec(st) ==
  /\ st = [f \in Field |-> st[f]]
  /\ st.epoch \in Nat
  /\ \A job \in st.retries : Job(job)

\* t is st after a handler that neither restarts the client nor changes what it
\* takes itself for, that ends in epoch e, and that sends nothing but shares.
SameRole(st, t, e) ==
  /\ Rec(t)
  /\ t.inc = st.inc /\ t.linked = st.linked /\ t.isCreator = st.isCreator
  /\ t.epoch = e
  /\ \A m \in t.out : m \in st.out \/ Share(m)

\* Handlers are put together from parts.
LEMMA SameRoleTransitive ==
  ASSUME NEW st, NEW t, NEW u, NEW d, NEW e, SameRole(st, t, d), SameRole(t, u, e)
  PROVE  SameRole(st, u, e)
  BY DEF SameRole

\* A round of a share (doShare) sends shares.
LEMMA RoundIsShares ==
  ASSUME NEW c, NEW st, NEW job, Job(job)
  PROVE  \A m \in Round(c, st, job) : Share(m)
  BY DEF Round, Share, Job

\* doShare sends a round and leaves a repeat.
LEMMA DoShareRole ==
  ASSUME NEW c, NEW st, Rec(st), NEW job, Job(job)
  PROVE  SameRole(st, doShare(c, st, job), st.epoch)
  <1> DEFINE t == doShare(c, st, job)
  <1>1. /\ t = [f \in Field |-> t[f]] /\ t.inc = st.inc /\ t.linked = st.linked /\ t.isCreator = st.isCreator
        /\ t.epoch = st.epoch
        /\ t.out = st.out \union Round(c, st, job)
        /\ \A j \in t.retries : j \in st.retries \/ j = job
    BY DEF doShare, Field, Rec
  <1>2. \A m \in Round(c, st, job) : Share(m)
    BY RoundIsShares
  <1> QED BY <1>1, <1>2 DEF SameRole, Rec

\* shareWithNewMembers.
LEMMA ShareKeyRole ==
  ASSUME NEW c, NEW st, Rec(st)
  PROVE  SameRole(st, shareWithNewMembers(c, st), st.epoch)
  <1> DEFINE targets == Others(c, st) \ st.sharedWith
             job == [kind |-> "KEY", targets |-> targets, pubs |-> st.roster, epoch |-> st.epoch,
                     key |-> st.roomKeys[st.epoch], left |-> SHARE_RETRIES]
             marked == [st EXCEPT !.sharedWith = @ \union targets]
  <1>1. SameRole(st, st, st.epoch)
    BY DEF SameRole
  <1>2. SameRole(st, marked, st.epoch)
    BY DEF SameRole, Rec, Field
  <1>3. Job(job)
    BY DEF Job, Rec
  <1>4. SameRole(marked, doShare(c, marked, job), st.epoch)
    <2> HIDE DEF marked, job
    <2> QED BY <1>2, <1>3, DoShareRole DEF SameRole
  <1>5. SameRole(st, doShare(c, marked, job), st.epoch)
    <2> HIDE DEF marked, job
    <2> QED BY <1>2, <1>4, SameRoleTransitive
  <1>6. shareWithNewMembers(c, st) \in {st, doShare(c, marked, job)}
    BY DEF shareWithNewMembers
  <1> HIDE DEF marked, job
  <1> QED BY <1>1, <1>5, <1>6

\* shareChainWithMembers.
LEMMA ShareChainRole ==
  ASSUME NEW c, NEW st, Rec(st)
  PROVE  SameRole(st, shareChainWithMembers(c, st), st.epoch)
  <1> DEFINE targets == Others(c, st) \ st.chainSharedWith
             job == [kind |-> "CHAIN", targets |-> targets, epoch |-> st.epoch,
                     seed |-> st.senderChains[st.epoch][c], left |-> SHARE_RETRIES]
             marked == [st EXCEPT !.chainSharedWith = @ \union targets]
  <1>1. SameRole(st, st, st.epoch)
    BY DEF SameRole
  <1>2. SameRole(st, marked, st.epoch)
    BY DEF SameRole, Rec, Field
  <1>3. Job(job)
    BY DEF Job, Rec
  <1>4. SameRole(marked, doShare(c, marked, job), st.epoch)
    <2> HIDE DEF marked, job
    <2> QED BY <1>2, <1>3, DoShareRole DEF SameRole
  <1>5. SameRole(st, doShare(c, marked, job), st.epoch)
    <2> HIDE DEF marked, job
    <2> QED BY <1>2, <1>4, SameRoleTransitive
  <1>6. shareChainWithMembers(c, st) \in {st, doShare(c, marked, job)}
    BY DEF shareChainWithMembers
  <1> HIDE DEF marked, job
  <1> QED BY <1>1, <1>5, <1>6

\* initOwnChain.
LEMMA InitOwnChainRole ==
  ASSUME NEW c, NEW st, Rec(st)
  PROVE  SameRole(st, initOwnChain(c, st), st.epoch)
  <1> DEFINE t == [st EXCEPT !.senderChains[st.epoch][c] = (st.inc - 1) * MaxInits + st.inits + 1,
                             !.inits = @ + 1, !.chainSharedWith = {}]
  <1>1. SameRole(st, t, st.epoch)
    BY DEF SameRole, Rec, Field
  <1>2. initOwnChain(c, st) = shareChainWithMembers(c, t)
    BY DEF initOwnChain
  <1> HIDE DEF t
  <1>3. SameRole(t, shareChainWithMembers(c, t), st.epoch)
    BY <1>1, ShareChainRole DEF SameRole
  <1> QED BY <1>1, <1>2, <1>3, SameRoleTransitive

\* adoptKey ends in the epoch it is given.
LEMMA AdoptKeyRole ==
  ASSUME NEW c, NEW st, Rec(st), NEW epoch \in Nat, NEW key
  PROVE  SameRole(st, adoptKey(c, st, epoch, key), epoch)
  <1> DEFINE a == [st EXCEPT !.roomKeys[epoch] = key, !.epoch = epoch, !.sharedWith = {}, !.rekeyTimer = TRUE]
             b == shareWithNewMembers(c, a)
  <1>1. SameRole(st, a, epoch)
    BY DEF SameRole, Rec, Field
  <1>2. adoptKey(c, st, epoch, key) = initOwnChain(c, b)
    BY DEF adoptKey
  <1> HIDE DEF a
  <1>3. SameRole(a, b, epoch)
    BY <1>1, ShareKeyRole DEF SameRole
  <1> HIDE DEF b
  <1>4. SameRole(b, initOwnChain(c, b), epoch)
    BY <1>3, InitOwnChainRole DEF SameRole
  <1> QED BY <1>1, <1>2, <1>3, <1>4, SameRoleTransitive

\* rekey ends in the next epoch, or does nothing.
LEMMA RekeyRole ==
  ASSUME NEW c, NEW st, Rec(st)
  PROVE  \E e \in Nat : e >= st.epoch /\ SameRole(st, rekey(c, st), e)
  <1> DEFINE a == adoptKey(c, st, st.epoch + 1, NewKey(c, st, st.epoch + 1))
  <1>1. st.epoch \in Nat /\ SameRole(st, st, st.epoch)
    BY DEF SameRole, Rec
  <1>2. SameRole(st, a, st.epoch + 1)
    BY <1>1, AdoptKeyRole
  <1> HIDE DEF a
  <1>3. SameRole(a, pruneOldEpochs(a), st.epoch + 1)
    BY <1>2 DEF SameRole, Rec, Field, pruneOldEpochs
  <1>4. SameRole(st, pruneOldEpochs(a), st.epoch + 1)
    BY <1>2, <1>3, SameRoleTransitive
  <1>5. rekey(c, st) \in {st, pruneOldEpochs(a)}
    BY DEF rekey, a
  <1> QED BY <1>1, <1>4, <1>5

-----------------------------------------------------------------------------
(* Whoever takes itself for the creator is the relay's creator.  That is   *)
(* not inductive: a roster under way may make a client the creator later.  *)
(* It can do so only while the client still has the public key the roster  *)
(* was encrypted to, and then, unless a connection of the client closed,   *)
(* the relay has not elected another creator since.                        *)

SoundPacket(m) ==
  /\ m.type = "KEY_REQ" => m.from \in Member /\ m.pub \in Nat /\ m.pub <= client[m.from].inc
  /\ m.type = "MEMBER_INFO" =>
       /\ m.to \in Member /\ m.toPub \in Nat /\ m.toPub <= client[m.to].inc /\ m.creator \in BOOLEAN
       /\ m.creator /\ client[m.to].linked /\ m.toPub = client[m.to].inc => creator = m.to
  /\ m.type \in {"KEY_SHARE", "CHAIN_SHARE"} => m.epoch \in Nat

SoundClient(c) ==
  /\ Rec(client[c])
  /\ client[c].inc \in Nat /\ client[c].linked \in BOOLEAN /\ client[c].isCreator \in BOOLEAN
  /\ client[c].out = {}
  /\ client[c].linked /\ client[c].isCreator => creator = c

RoleInv ==
  /\ client = [c \in Member |-> client[c]]
  /\ \A c \in Member : SoundClient(c)
  /\ members = [c \in Member |-> members[c]]
  /\ \A c \in Member : members[c] \in Nat /\ members[c] <= client[c].inc
  /\ \A m \in net : SoundPacket(m)

\* No step takes back a start of a client.
KeepsStarts ==
  \A d \in Member : client[d].inc \in Nat /\ client'[d].inc \in Nat /\ client[d].inc <= client'[d].inc

\* A client's step, whatever it does, keeps RoleInv when it claims nothing new,
\* does not go back to an earlier public key, and sends shares and KeyReqs.
LEMMA BecomesKeepsRoles ==
  ASSUME RoleInv, NEW c \in Member, NEW st, NEW used, Becomes(c, st, used), UNCHANGED <<members, creator>>,
         Rec(st), st.inc \in Nat, st.inc >= client[c].inc, st.linked \in BOOLEAN, st.isCreator \in BOOLEAN,
         st.linked /\ st.isCreator => creator = c,
         st.inc = client[c].inc /\ st.linked => client[c].linked,
         \A m \in st.out : Share(m) \/ (m.type = "KEY_REQ" /\ m.from = c /\ m.pub = st.inc)
  PROVE  RoleInv' /\ KeepsStarts
  <1> DEFINE t == [st EXCEPT !.out = {}]
  <1>1. /\ Rec(t) /\ t.out = {} /\ t.inc = st.inc /\ t.linked = st.linked /\ t.isCreator = st.isCreator
    BY DEF Rec, Field
  <1>2. client' = [client EXCEPT ![c] = t] /\ net' = (net \ used) \union st.out
    BY DEF Becomes
  <1> HIDE DEF t
  <1>3. client' = [d \in Member |-> client'[d]] /\ client'[c] = t /\ \A d \in Member \ {c} : client'[d] = client[d]
    BY <1>2 DEF RoleInv
  <1>4. ASSUME NEW d \in Member PROVE SoundClient(d)'
    <2>1. SoundClient(d)
      BY DEF RoleInv
    <2>2. CASE d = c
      BY <1>1, <1>3, <2>1, <2>2 DEF SoundClient, Rec
    <2>3. CASE d # c
      BY <1>3, <2>1, <2>3 DEF SoundClient, Rec
    <2> QED BY <2>2, <2>3
  <1>5. \A d \in Member : client[d].inc \in Nat /\ client'[d].inc \in Nat /\ client'[d].inc >= client[d].inc
    BY <1>1, <1>3 DEF RoleInv, SoundClient
  <1>6. ASSUME NEW m \in net PROVE SoundPacket(m)'
    <2>1. SoundPacket(m)
      BY DEF RoleInv
    <2>2. ASSUME m.type = "KEY_REQ" PROVE m.from \in Member /\ m.pub \in Nat /\ m.pub <= client'[m.from].inc
      BY <2>1, <2>2, <1>5 DEF SoundPacket
    <2>3. ASSUME m.type = "MEMBER_INFO"
          PROVE  /\ m.to \in Member /\ m.toPub \in Nat /\ m.toPub <= client'[m.to].inc /\ m.creator \in BOOLEAN
                 /\ m.creator /\ client'[m.to].linked /\ m.toPub = client'[m.to].inc => creator' = m.to
      BY <2>1, <2>3, <1>1, <1>3, <1>5 DEF SoundPacket
    <2> QED BY <2>1, <2>2, <2>3 DEF SoundPacket
  <1>7. ASSUME NEW m \in st.out PROVE SoundPacket(m)'
    BY <1>1, <1>3 DEF SoundPacket, Share
  <1>8. \A d \in Member : members'[d] \in Nat /\ members'[d] <= client'[d].inc
    BY <1>5 DEF RoleInv
  <1>9. KeepsStarts
    BY <1>5 DEF KeepsStarts
  <1>10. RoleInv'
    BY <1>2, <1>3, <1>4, <1>6, <1>7, <1>8 DEF RoleInv
  <1> QED BY <1>9, <1>10

\* MEMBER_INFO sets the role; what follows in the handler keeps it.
LEMMA MemberInfoRole ==
  ASSUME NEW c \in Member, NEW m, Rec(client[c])
  PROVE  \E e \in Nat : /\ e >= client[c].epoch
                        /\ SameRole([client[c] EXCEPT !.isCreator = m.creator], AfterMemberInfo(c, m), e)
  <1> DEFINE st == client[c]
             role == [st EXCEPT !.isCreator = m.creator]
             changed == {x \in Member : st.roster[x] # 0 /\ m.roster[x] # 0 /\ st.roster[x] # m.roster[x]}
             a == [st EXCEPT !.roster = m.roster, !.isCreator = m.creator, !.sharedWith = @ \ changed,
                             !.chainSharedWith = @ \ changed]
             b == IF m.creator /\ st.epoch = 0 THEN adoptKey(c, a, 1, NewKey(c, a, 1)) ELSE shareWithNewMembers(c, a)
             d == IF m.creator /\ ~st.isCreator /\ st.epoch # 0 THEN rekey(c, b) ELSE b
             f == shareChainWithMembers(c, d)
  <1>1. AfterMemberInfo(c, m) = [f EXCEPT !.rekeyTimer = TRUE]
    BY DEF AfterMemberInfo
  <1>2. st.epoch \in Nat /\ SameRole(role, a, st.epoch)
    BY DEF SameRole, Rec, Field
  <1> HIDE DEF a
  <1>3. PICK e1 \in Nat : e1 >= st.epoch /\ SameRole(role, b, e1)
    <2>1. Rec(a) /\ a.epoch = st.epoch
      BY <1>2 DEF SameRole
    <2>2. CASE m.creator /\ st.epoch = 0
      <3>1. SameRole(a, adoptKey(c, a, 1, NewKey(c, a, 1)), 1)
        BY <2>1, AdoptKeyRole
      <3>2. SameRole(role, adoptKey(c, a, 1, NewKey(c, a, 1)), 1)
        BY <1>2, <3>1, SameRoleTransitive
      <3> QED BY <2>2, <3>2
    <2>3. CASE ~(m.creator /\ st.epoch = 0)
      <3>1. SameRole(a, shareWithNewMembers(c, a), st.epoch)
        BY <2>1, ShareKeyRole
      <3>2. SameRole(role, shareWithNewMembers(c, a), st.epoch)
        BY <1>2, <3>1, SameRoleTransitive
      <3> QED BY <1>2, <2>3, <3>2
    <2> QED BY <2>2, <2>3
  <1> HIDE DEF b
  <1>4. PICK e2 \in Nat : e2 >= st.epoch /\ SameRole(role, d, e2)
    <2>1. Rec(b) /\ b.epoch = e1
      BY <1>3 DEF SameRole
    <2>2. PICK e \in Nat : e >= e1 /\ SameRole(b, rekey(c, b), e)
      BY <2>1, RekeyRole
    <2>3. SameRole(role, rekey(c, b), e)
      BY <1>3, <2>2, SameRoleTransitive
    <2>4. e >= st.epoch
      BY <1>2, <1>3, <2>2
    <2> QED BY <1>3, <2>3, <2>4
  <1> HIDE DEF d
  <1>5. SameRole(d, f, e2)
    <2>1. Rec(d) /\ d.epoch = e2
      BY <1>4 DEF SameRole
    <2> QED BY <2>1, ShareChainRole
  <1>6. SameRole(role, f, e2)
    BY <1>4, <1>5, SameRoleTransitive
  <1> HIDE DEF f, role
  <1>7. SameRole(role, [f EXCEPT !.rekeyTimer = TRUE], e2)
    BY <1>6 DEF SameRole, Rec, Field
  <1> QED BY <1>1, <1>4, <1>7 DEF role

\* A handler that keeps its client's role.
LEMMA SameRoleKeepsRoles ==
  ASSUME RoleInv, NEW c \in Member, NEW st, NEW e \in Nat, NEW used,
         SameRole(client[c], st, e), Becomes(c, st, used), UNCHANGED <<members, creator>>
  PROVE  RoleInv' /\ KeepsStarts
  <1>1. SoundClient(c)
    BY DEF RoleInv
  <1>2. /\ Rec(st) /\ st.inc = client[c].inc /\ st.linked = client[c].linked /\ st.isCreator = client[c].isCreator
        /\ \A m \in st.out : Share(m)
    BY <1>1 DEF SameRole, SoundClient
  <1>3. /\ st.inc \in Nat /\ st.inc >= client[c].inc /\ st.linked \in BOOLEAN /\ st.isCreator \in BOOLEAN
        /\ st.linked /\ st.isCreator => creator = c
    BY <1>1, <1>2 DEF SoundClient
  <1> QED BY <1>2, <1>3, BecomesKeepsRoles

\* The epoch of a client whose handler has run to st.
LEMMA BecomesEpoch ==
  ASSUME RoleInv, NEW c \in Member, NEW st, NEW used, Becomes(c, st, used), Rec(st)
  PROVE  /\ client'[c].epoch = st.epoch
         /\ \A d \in Member \ {c} : client'[d] = client[d]
  BY DEF RoleInv, Becomes, Rec, Field

\* A handler that keeps the role and ends in no earlier epoch.
LEMMA SameRoleKeepsEpochs ==
  ASSUME RoleInv, NEW c \in Member, NEW st, NEW e \in Nat, NEW used,
         SameRole(client[c], st, e), e >= client[c].epoch, Becomes(c, st, used)
  PROVE  KeepsEpochs
  <1>1. client'[c].epoch = e /\ \A d \in Member \ {c} : client'[d] = client[d]
    BY BecomesEpoch DEF SameRole
  <1>2. \A d \in Member : client[d].epoch \in Nat
    BY DEF RoleInv, SoundClient, Rec
  <1> QED BY <1>1, <1>2 DEF KeepsEpochs

-----------------------------------------------------------------------------
(* One lemma per action.                                                   *)

\* joinConversation: a new process, with a new public key, claims nothing.
LEMMA JoinStep ==
  ASSUME RoleInv, NEW c \in Member, joinConversation(c)
  PROVE  RoleInv' /\ KeepsStarts /\ KeepsEpochs
  <1> DEFINE st == Fresh(client[c].inc + 1)
             t == [st EXCEPT !.out = {KeyReqPkt(c, st)}]
  <1>1. Becomes(c, t, {}) /\ UNCHANGED <<members, creator>>
    BY DEF joinConversation
  <1>2. client[c].inc \in Nat
    BY DEF RoleInv, SoundClient
  <1>3. /\ Rec(t) /\ t.inc = client[c].inc + 1 /\ t.linked = TRUE /\ t.isCreator = FALSE
        /\ \A m \in t.out : m.type = "KEY_REQ" /\ m.from = c /\ m.pub = t.inc
    <2>1. Rec(st) /\ st.inc = client[c].inc + 1 /\ st.linked = TRUE /\ st.isCreator = FALSE
      BY DEF Fresh, Rec, Field
    <2> HIDE DEF st
    <2> QED BY <2>1 DEF Rec, Field, KeyReqPkt
  <1> HIDE DEF t
  <1>4. RoleInv' /\ KeepsStarts
    <2>1. t.inc \in Nat /\ t.inc >= client[c].inc /\ t.inc # client[c].inc
      BY <1>2, <1>3
    <2> QED BY <1>1, <1>3, <2>1, BecomesKeepsRoles
  <1>5. client'[c].inc # client[c].inc /\ \A d \in Member \ {c} : client'[d] = client[d]
    BY <1>1, <1>2, <1>3 DEF Becomes, RoleInv, Rec, Field
  <1>6. \A d \in Member : client[d].epoch \in Nat
    BY DEF RoleInv, SoundClient, Rec
  <1> QED BY <1>4, <1>5, <1>6 DEF KeepsEpochs

\* A repeated KeyReq (joinConversation).
LEMMA RetryJoinStep ==
  ASSUME RoleInv, NEW c \in Member, RetryJoin(c)
  PROVE  RoleInv' /\ KeepsStarts /\ KeepsEpochs
  <1> DEFINE st == [client[c] EXCEPT !.joins = @ - 1]
             t == [st EXCEPT !.out = {KeyReqPkt(c, st)}]
  <1>1. Becomes(c, t, {}) /\ UNCHANGED <<members, creator>>
    BY DEF RetryJoin
  <1>2. SoundClient(c)
    BY DEF RoleInv
  <1>3. /\ Rec(t) /\ t.inc = client[c].inc /\ t.linked = client[c].linked /\ t.isCreator = client[c].isCreator
        /\ t.epoch = client[c].epoch
        /\ \A m \in t.out : m.type = "KEY_REQ" /\ m.from = c /\ m.pub = t.inc
    <2>1. /\ Rec(st) /\ st.inc = client[c].inc /\ st.linked = client[c].linked /\ st.isCreator = client[c].isCreator
          /\ st.epoch = client[c].epoch
      BY <1>2 DEF SoundClient, Rec, Field
    <2> HIDE DEF st
    <2> QED BY <2>1 DEF Rec, Field, KeyReqPkt
  <1> HIDE DEF t
  <1>4. /\ t.inc \in Nat /\ t.inc >= client[c].inc /\ t.linked \in BOOLEAN /\ t.isCreator \in BOOLEAN
        /\ t.linked /\ t.isCreator => creator = c
    BY <1>2, <1>3 DEF SoundClient
  <1>5. RoleInv' /\ KeepsStarts
    BY <1>1, <1>3, <1>4, BecomesKeepsRoles
  <1>6. client'[c].epoch = client[c].epoch /\ \A d \in Member \ {c} : client'[d] = client[d]
    BY <1>1, <1>3, BecomesEpoch
  <1>7. \A d \in Member : client[d].epoch \in Nat
    BY DEF RoleInv, SoundClient, Rec
  <1> QED BY <1>5, <1>6, <1>7 DEF KeepsEpochs

\* A repeated share (the timers of doShare).
LEMMA RetryShareStep ==
  ASSUME RoleInv, NEW c \in Member, NEW job \in client[c].retries, RetryShare(c, job)
  PROVE  RoleInv' /\ KeepsStarts /\ KeepsEpochs
  <1> DEFINE rest == client[c].retries \ {job}
             again == IF job.left > 1 THEN {[job EXCEPT !.left = @ - 1]} ELSE {}
             t == [client[c] EXCEPT !.retries = rest \union again, !.out = Round(c, client[c], job)]
  <1>1. Becomes(c, t, {}) /\ UNCHANGED <<members, creator>>
    BY DEF RetryShare
  <1>2. Rec(client[c]) /\ Job(job) /\ client[c].epoch \in Nat
    BY DEF RoleInv, SoundClient, Rec
  <1>3. \A j \in again : Job(j)
    BY <1>2 DEF Job
  <1>4. \A m \in Round(c, client[c], job) : Share(m)
    BY <1>2, RoundIsShares
  <1> HIDE DEF again
  <1>5. SameRole(client[c], t, client[c].epoch)
    BY <1>2, <1>3, <1>4 DEF SameRole, Rec, Field
  <1> HIDE DEF t
  <1> QED BY <1>1, <1>2, <1>5, SameRoleKeepsRoles, SameRoleKeepsEpochs

\* The rotation timer (scheduleRekey).
LEMMA RekeyTimerStep ==
  ASSUME RoleInv, NEW c \in Member, RekeyTimer(c)
  PROVE  RoleInv' /\ KeepsStarts /\ KeepsEpochs
  <1> DEFINE fired == [client[c] EXCEPT !.rekeyTimer = FALSE]
             t == rekey(c, fired)
  <1>1. Becomes(c, t, {}) /\ UNCHANGED <<members, creator>>
    BY DEF RekeyTimer
  <1>2. Rec(client[c])
    BY DEF RoleInv, SoundClient
  <1>3. client[c].epoch \in Nat /\ SameRole(client[c], fired, client[c].epoch)
    BY <1>2 DEF SameRole, Rec, Field
  <1> HIDE DEF fired
  <1>4. PICK e \in Nat : e >= client[c].epoch /\ SameRole(fired, t, e)
    BY <1>3, RekeyRole DEF SameRole
  <1>5. SameRole(client[c], t, e)
    BY <1>3, <1>4, SameRoleTransitive
  <1> HIDE DEF t
  <1> QED BY <1>1, <1>4, <1>5, SameRoleKeepsRoles, SameRoleKeepsEpochs

\* handleMemberInfo: the one handler that changes the role.
LEMMA MemberInfoStep ==
  ASSUME RoleInv, NEW c \in Member, NEW m \in net, handleMemberInfo(c, m)
  PROVE  RoleInv' /\ KeepsStarts /\ KeepsEpochs
  <1> DEFINE t == AfterMemberInfo(c, m)
             role == [client[c] EXCEPT !.isCreator = m.creator]
  <1>1. m.type = "MEMBER_INFO" /\ m.to = c /\ UNCHANGED <<members, creator>>
    BY DEF handleMemberInfo
  <1>2. SoundClient(c) /\ SoundPacket(m) /\ Rec(client[c]) /\ client[c].epoch \in Nat
    BY DEF RoleInv, SoundClient, Rec
  <1>3. CASE m.toPub # client[c].inc
    <2>1. Becomes(c, client[c], {m})
      BY <1>3 DEF handleMemberInfo
    <2>2. SameRole(client[c], client[c], client[c].epoch)
      BY <1>2 DEF SameRole
    <2> QED BY <1>1, <1>2, <2>1, <2>2, SameRoleKeepsRoles, SameRoleKeepsEpochs
  <1>4. CASE m.toPub = client[c].inc
    <2>1. Becomes(c, t, {m})
      BY <1>4 DEF handleMemberInfo
    <2>2. PICK e \in Nat : e >= client[c].epoch /\ SameRole(role, t, e)
      BY <1>2, MemberInfoRole
    <2>3. /\ role.inc = client[c].inc /\ role.linked = client[c].linked /\ role.isCreator = m.creator
          /\ role.out = {}
      BY <1>2 DEF SoundClient, Rec, Field
    <2> HIDE DEF t, role
    <2>4. /\ Rec(t) /\ t.inc = client[c].inc /\ t.linked = client[c].linked /\ t.isCreator = m.creator /\ t.epoch = e
          /\ \A n \in t.out : Share(n)
      BY <2>2, <2>3 DEF SameRole
    <2>5. m.creator \in BOOLEAN /\ (client[c].linked /\ m.creator => creator = c)
      BY <1>1, <1>2, <1>4 DEF SoundPacket
    <2>6. RoleInv' /\ KeepsStarts
      <3>1. /\ t.inc \in Nat /\ t.inc >= client[c].inc /\ t.linked \in BOOLEAN /\ t.isCreator \in BOOLEAN
            /\ t.linked /\ t.isCreator => creator = c
        BY <1>2, <2>4, <2>5 DEF SoundClient
      <3> QED BY <1>1, <2>1, <2>4, <3>1, BecomesKeepsRoles
    <2>7. client'[c].epoch = e /\ \A d \in Member \ {c} : client'[d] = client[d]
      BY <2>1, <2>4, BecomesEpoch
    <2>8. \A d \in Member : client[d].epoch \in Nat
      BY DEF RoleInv, SoundClient, Rec
    <2> QED BY <2>2, <2>6, <2>7, <2>8 DEF KeepsEpochs
  <1> QED BY <1>3, <1>4

\* handleKeyShare: here the guard on the epoch is used.
LEMMA KeyShareStep ==
  ASSUME RoleInv, NEW c \in Member, NEW m \in net, handleKeyShare(c, m)
  PROVE  RoleInv' /\ KeepsStarts /\ KeepsEpochs
  <1> DEFINE t == adoptKey(c, client[c], m.epoch, m.key)
  <1>1. UNCHANGED <<members, creator>>
    BY DEF handleKeyShare
  <1>2. Rec(client[c]) /\ client[c].epoch \in Nat /\ m.epoch \in Nat
    BY DEF RoleInv, SoundClient, Rec, SoundPacket, handleKeyShare
  <1>3. CASE Readable(c, m) /\ Adopts(client[c], m)
    <2>1. Becomes(c, t, {m})
      BY <1>3 DEF handleKeyShare
    <2>2. SameRole(client[c], t, m.epoch)
      BY <1>2, AdoptKeyRole
    <2>3. m.epoch >= client[c].epoch
      BY <1>2, <1>3 DEF Adopts
    <2> HIDE DEF t
    <2> QED BY <1>1, <1>2, <2>1, <2>2, <2>3, SameRoleKeepsRoles, SameRoleKeepsEpochs
  <1>4. CASE ~(Readable(c, m) /\ Adopts(client[c], m))
    <2>1. Becomes(c, client[c], {m})
      BY <1>4 DEF handleKeyShare
    <2>2. SameRole(client[c], client[c], client[c].epoch)
      BY <1>2 DEF SameRole
    <2> QED BY <1>1, <1>2, <2>1, <2>2, SameRoleKeepsRoles, SameRoleKeepsEpochs
  <1> QED BY <1>3, <1>4

\* handleChainShare.
LEMMA ChainShareStep ==
  ASSUME RoleInv, NEW c \in Member, NEW m \in net, handleChainShare(c, m)
  PROVE  RoleInv' /\ KeepsStarts /\ KeepsEpochs
  <1> DEFINE t == IF Readable(c, m) THEN [client[c] EXCEPT !.senderChains[m.epoch][m.from] = m.seed]
                  ELSE client[c]
  <1>1. Becomes(c, t, {m}) /\ UNCHANGED <<members, creator>>
    BY DEF handleChainShare
  <1>2. Rec(client[c]) /\ client[c].epoch \in Nat
    BY DEF RoleInv, SoundClient, Rec
  <1>3. SameRole(client[c], t, client[c].epoch)
    BY <1>2 DEF SameRole, Rec, Field
  <1> HIDE DEF t
  <1> QED BY <1>1, <1>2, <1>3, SameRoleKeepsRoles, SameRoleKeepsEpochs

\* What the relay sends makes a client the creator only if it is.
LEMMA NotifySound ==
  ASSUME RoleInv, RoleInv!3', RoleInv!4',
         NEW m \in notifyMembers(members', creator')
  PROVE  SoundPacket(m)'
  <1>1. PICK d \in Member : /\ m.type = "MEMBER_INFO" /\ m.to = d /\ m.toPub = members'[d]
                            /\ m.creator = (creator' = d)
    BY DEF notifyMembers
  <1> QED BY <1>1 DEF SoundPacket

\* The relay reads a KeyReq: it elects the sender only when there is no creator.
LEMMA KeyReqStep ==
  ASSUME RoleInv, NEW m \in net, RelayKeyReq(m)
  PROVE  RoleInv' /\ KeepsStarts /\ KeepsEpochs
  <1>1. /\ m.from \in Member /\ m.pub \in Nat /\ m.pub <= client[m.from].inc
    BY DEF RoleInv, SoundPacket, RelayKeyReq
  <1>2. /\ client' = client /\ members' = [members EXCEPT ![m.from] = m.pub]
        /\ net' = (net \ {m}) \union notifyMembers(members', creator')
    BY DEF RelayKeyReq
  <1>3. \A c \in Member : creator = c => creator' = c
    BY KeysAssumption DEF RelayKeyReq, CreatorOnKeyReq
  <1>4. /\ members' = [c \in Member |-> members'[c]]
        /\ \A c \in Member : members'[c] \in Nat /\ members'[c] <= client'[c].inc
    BY <1>1, <1>2 DEF RoleInv
  <1>5. \A c \in Member : SoundClient(c)'
    BY <1>2, <1>3 DEF RoleInv, SoundClient, Rec
  <1>6. \A n \in net : SoundPacket(n)'
    BY <1>2, <1>3 DEF RoleInv, SoundPacket
  <1>7. \A n \in notifyMembers(members', creator') : SoundPacket(n)'
    BY <1>4, NotifySound
  <1>8. RoleInv'
    BY <1>2, <1>4, <1>5, <1>6, <1>7 DEF RoleInv
  <1>9. KeepsStarts /\ KeepsEpochs
    BY <1>2 DEF KeepsStarts, KeepsEpochs, RoleInv, SoundClient, Rec
  <1> QED BY <1>8, <1>9

\* A client that does not run.
LEMMA DownFacts ==
  ASSUME NEW i
  PROVE  /\ Rec(Down(i)) /\ Down(i).inc = i /\ Down(i).up = FALSE /\ Down(i).linked = FALSE
         /\ Down(i).isCreator = FALSE /\ Down(i).out = {}
  <1>1. /\ Rec(Fresh(i)) /\ Fresh(i).inc = i /\ Fresh(i).isCreator = FALSE /\ Fresh(i).out = {}
    BY DEF Fresh, Rec, Field
  <1> QED BY <1>1 DEF Down, Rec, Field

\* The relay evicts c, and c goes on as st, or not at all.
LEMMA RemovePeerStep ==
  ASSUME RoleInv, NEW c \in Member, NEW st, removePeer(c, st),
         Rec(st), st.inc = client[c].inc, st.linked = FALSE, st.isCreator \in BOOLEAN, st.out = {},
         st.up => st.epoch = client[c].epoch
  PROVE  RoleInv' /\ KeepsStarts /\ KeepsEpochs
  <1>1. /\ client' = [client EXCEPT ![c] = st] /\ members' = [members EXCEPT ![c] = 0]
        /\ net' = net \union notifyMembers(members', creator')
        /\ creator # c => creator' = creator
    BY DEF removePeer
  <1>2. client[c].inc \in Nat
    BY DEF RoleInv, SoundClient
  <1>3. /\ client' = [d \in Member |-> client'[d]] /\ client'[c] = st
        /\ \A d \in Member \ {c} : client'[d] = client[d]
    BY <1>1 DEF RoleInv
  <1>4. /\ members' = [d \in Member |-> members'[d]]
        /\ \A d \in Member : members'[d] \in Nat /\ members'[d] <= client'[d].inc
    BY <1>1, <1>2, <1>3 DEF RoleInv
  <1>5. \A d \in Member : SoundClient(d)'
    BY <1>1, <1>2, <1>3 DEF RoleInv, SoundClient, Rec
  <1>6. \A n \in net : SoundPacket(n)'
    BY <1>1, <1>3 DEF RoleInv, SoundPacket
  <1>7. \A n \in notifyMembers(members', creator') : SoundPacket(n)'
    BY <1>4, NotifySound
  <1>8. RoleInv'
    BY <1>1, <1>3, <1>4, <1>5, <1>6, <1>7 DEF RoleInv
  <1>9. \A d \in Member : client[d].epoch \in Nat
    BY DEF RoleInv, SoundClient, Rec
  <1>10. KeepsStarts /\ KeepsEpochs
    <2>1. \A d \in Member : client[d].inc \in Nat /\ client'[d].inc = client[d].inc
      BY <1>3 DEF RoleInv, SoundClient
    <2> QED BY <1>3, <1>9, <2>1 DEF KeepsStarts, KeepsEpochs
  <1> QED BY <1>8, <1>10

\* The client ends.
LEMMA LeaveStep ==
  ASSUME RoleInv, NEW c \in Member, Leave(c)
  PROVE  RoleInv' /\ KeepsStarts /\ KeepsEpochs
  <1> DEFINE st == Down(client[c].inc)
  <1>1. removePeer(c, st)
    BY DEF Leave
  <1>2. /\ Rec(st) /\ st.inc = client[c].inc /\ st.up = FALSE /\ st.linked = FALSE
        /\ st.isCreator = FALSE /\ st.out = {}
    BY DownFacts
  <1> HIDE DEF st
  <1> QED BY <1>1, <1>2, RemovePeerStep

\* The client goes on.
LEMMA FallbackStep ==
  ASSUME RoleInv, NEW c \in Member, disableFallback(c)
  PROVE  RoleInv' /\ KeepsStarts /\ KeepsEpochs
  <1> DEFINE st == [client[c] EXCEPT !.linked = FALSE]
  <1>1. removePeer(c, st)
    BY DEF disableFallback
  <1>2. SoundClient(c)
    BY DEF RoleInv
  <1>3. /\ Rec(st) /\ st.inc = client[c].inc /\ st.linked = FALSE
        /\ st.isCreator \in BOOLEAN /\ st.out = {} /\ st.epoch = client[c].epoch
    BY <1>2 DEF SoundClient, Rec, Field
  <1> HIDE DEF st
  <1> QED BY <1>1, <1>3, RemovePeerStep

\* Nothing happens to the clients and the relay, and no packet is new.
LEMMA IdleStep ==
  ASSUME RoleInv, UNCHANGED <<client, members, creator>>, net' \subseteq net
  PROVE  RoleInv' /\ KeepsStarts /\ KeepsEpochs
  BY DEF RoleInv, KeepsStarts, KeepsEpochs, SoundClient, SoundPacket, Rec

\* All steps.
LEMMA RoleStep ==
  ASSUME RoleInv, [Next]_vars
  PROVE  RoleInv' /\ KeepsStarts /\ KeepsEpochs
  <1>1. ASSUME NEW c \in Member, joinConversation(c) \/ RetryJoin(c) \/ RekeyTimer(c) \/ Leave(c) \/ disableFallback(c)
        PROVE  RoleInv' /\ KeepsStarts /\ KeepsEpochs
    BY <1>1, JoinStep, RetryJoinStep, RekeyTimerStep, LeaveStep, FallbackStep
  <1>2. ASSUME NEW c \in Member, NEW job \in client[c].retries, RetryShare(c, job)
        PROVE  RoleInv' /\ KeepsStarts /\ KeepsEpochs
    BY <1>2, RetryShareStep
  <1>3. ASSUME NEW m \in net, RelayKeyReq(m)
        PROVE  RoleInv' /\ KeepsStarts /\ KeepsEpochs
    BY <1>3, KeyReqStep
  <1>4. ASSUME NEW m \in net, Lose(m)
        PROVE  RoleInv' /\ KeepsStarts /\ KeepsEpochs
    BY <1>4, IdleStep DEF Lose
  <1>5. ASSUME NEW m \in net, NEW c \in Member, Handle(c, m)
        PROVE  RoleInv' /\ KeepsStarts /\ KeepsEpochs
    BY <1>5, MemberInfoStep, KeyShareStep, ChainShareStep DEF Handle
  <1>6. CASE UNCHANGED vars
    BY <1>6, IdleStep DEF vars
  <1> QED BY <1>1, <1>2, <1>3, <1>4, <1>5, <1>6 DEF Next

\* The invariant holds in every reachable state.
LEMMA RoleInvAlways == Spec => []RoleInv
  <1>1. Init => RoleInv
    <2> SUFFICES ASSUME Init PROVE RoleInv
      OBVIOUS
    <2>1. ASSUME NEW c \in Member
          PROVE  /\ Rec(client[c]) /\ client[c].inc = 0 /\ client[c].linked = FALSE
                 /\ client[c].isCreator = FALSE /\ client[c].out = {}
      BY DownFacts DEF Init
    <2>6. \A c \in Member : client[c].inc = 0
      BY <2>1
    <2>2. ASSUME NEW c \in Member PROVE SoundClient(c)
      <3>1. client[c].inc \in Nat
        BY <2>6
      <3>2. client[c].linked \in BOOLEAN /\ client[c].isCreator \in BOOLEAN
        BY <2>1
      <3> QED BY <2>1, <3>1, <3>2 DEF SoundClient
    <2>3. client = [c \in Member |-> client[c]] /\ net = {}
      BY DEF Init
    <2>4. members = [c \in Member |-> members[c]] /\ \A c \in Member : members[c] = 0
      BY DEF Init, NoRoster
    <2>5. \A c \in Member : members[c] \in Nat /\ members[c] <= client[c].inc
      BY <2>6, <2>4
    <2> QED BY <2>2, <2>3, <2>4, <2>5 DEF RoleInv
  <1> QED BY <1>1, RoleStep, PTL DEF Spec

-----------------------------------------------------------------------------

\* Two running clients whose connections held never both take themselves for the
\* creator (handleMemberInfo's isCreator), for every set of members, however
\* rosters are lost, delayed and reordered and clients leave and restart.
THEOREM NeverTwoCreators == Spec => []OneCreator
  <1>1. RoleInv => OneCreator
    BY DEF RoleInv, SoundClient, OneCreator, Up
  <1> QED BY <1>1, RoleInvAlways, PTL

\* No roster, share, repeat or rotation takes a running client back to an earlier
\* epoch (adoptedEpochs of the client).
THEOREM EpochsNeverGoBack == Spec => EpochsAdvance
  <1>1. RoleInv /\ [Next]_vars => KeepsEpochs
    BY RoleStep
  <1> QED BY <1>1, RoleInvAlways, PTL DEF Spec, EpochsAdvance

-----------------------------------------------------------------------------
(* What the parts of the handlers do to a client's record, in the terms    *)
(* the invariants need.                                                    *)

\* A repeat and a share of st's current key or chain.
CurrentJob(c, st, job, kind) ==
  /\ Job(job) /\ job.kind = kind /\ job.epoch = st.epoch
  /\ kind = "KEY" => job.key = st.roomKeys[st.epoch]
  /\ kind = "CHAIN" => job.seed = st.senderChains[st.epoch][c]

CurrentShare(c, st, m, kind) ==
  /\ m.from = c /\ m.epoch = st.epoch
  /\ kind = "KEY" => m.type = "KEY_SHARE" /\ m.key = st.roomKeys[st.epoch]
  /\ kind = "CHAIN" => m.type = "CHAIN_SHARE" /\ m.seed = st.senderChains[st.epoch][c]

\* t is st after at most one first round of the current key, or chain.
Shares(c, st, t, kind) ==
  /\ t = [f \in Field |-> t[f]]
  /\ \A f \in Field \ {"sharedWith", "chainSharedWith", "retries", "out"} : t[f] = st[f]
  /\ t.sharedWith \subseteq st.sharedWith \union (Member \ {c})
  /\ t.chainSharedWith \subseteq st.chainSharedWith \union (Member \ {c})
  /\ \A job \in t.retries : job \in st.retries \/ (st.epoch # 0 /\ CurrentJob(c, st, job, kind))
  /\ \A m \in t.out : m \in st.out \/ (st.epoch # 0 /\ CurrentShare(c, st, m, kind))

\* What Shares says of the single fields.
LEMMA SharesKeeps ==
  ASSUME NEW c, NEW st, NEW t, NEW kind, Shares(c, st, t, kind)
  PROVE  /\ t.inc = st.inc /\ t.up = st.up /\ t.linked = st.linked /\ t.roster = st.roster
         /\ t.isCreator = st.isCreator /\ t.epoch = st.epoch /\ t.roomKeys = st.roomKeys
         /\ t.senderChains = st.senderChains /\ t.inits = st.inits /\ t.rekeyTimer = st.rekeyTimer
         /\ t.joins = st.joins
  BY DEF Shares, Field

\* shareWithNewMembers.
LEMMA KeyShares ==
  ASSUME NEW c, NEW st, Rec(st)
  PROVE  Shares(c, st, shareWithNewMembers(c, st), "KEY")
  <1> DEFINE targets == Others(c, st) \ st.sharedWith
             job == [kind |-> "KEY", targets |-> targets, pubs |-> st.roster, epoch |-> st.epoch,
                     key |-> st.roomKeys[st.epoch], left |-> SHARE_RETRIES]
             marked == [st EXCEPT !.sharedWith = @ \union targets]
             t == doShare(c, marked, job)
  <1>1. CASE st.epoch = 0 \/ targets = {}
    <2>1. shareWithNewMembers(c, st) = st
      BY <1>1 DEF shareWithNewMembers
    <2> QED BY <2>1 DEF Shares, Rec
  <1>2. CASE ~(st.epoch = 0 \/ targets = {})
    <2>1. shareWithNewMembers(c, st) = t
      BY <1>2 DEF shareWithNewMembers
    <2>2. CurrentJob(c, st, job, "KEY")
      BY DEF CurrentJob, Job, Rec
    <2>3. \A m \in Round(c, marked, job) : CurrentShare(c, st, m, "KEY")
      BY DEF Round, CurrentShare
    <2>4. targets \subseteq Member \ {c}
      BY DEF Others
    <2>5. /\ marked = [f \in Field |-> marked[f]] /\ marked.out = st.out /\ marked.retries = st.retries
          /\ \A f \in Field \ {"sharedWith"} : marked[f] = st[f]
          /\ marked.sharedWith = st.sharedWith \union targets
      BY DEF Rec, Field
    <2> HIDE DEF marked, job, targets
    <2>6. /\ t = [f \in Field |-> t[f]] /\ \A f \in Field \ {"out", "retries"} : t[f] = marked[f]
          /\ t.out = st.out \union Round(c, marked, job)
          /\ \A j \in t.retries : j \in st.retries \/ j = job
      BY <2>5 DEF doShare, Field
    <2> HIDE DEF t
    <2>7. \A f \in Field \ {"sharedWith", "chainSharedWith", "retries", "out"} : t[f] = st[f]
      BY <2>5, <2>6
    <2>8. t.sharedWith = st.sharedWith \union targets /\ t.chainSharedWith = st.chainSharedWith
      BY <2>5, <2>6 DEF Field
    <2> QED BY <1>2, <2>1, <2>2, <2>3, <2>4, <2>6, <2>7, <2>8 DEF Shares
  <1> QED BY <1>1, <1>2

\* shareChainWithMembers.
LEMMA ChainShares ==
  ASSUME NEW c, NEW st, Rec(st)
  PROVE  Shares(c, st, shareChainWithMembers(c, st), "CHAIN")
  <1> DEFINE targets == Others(c, st) \ st.chainSharedWith
             job == [kind |-> "CHAIN", targets |-> targets, epoch |-> st.epoch,
                     seed |-> st.senderChains[st.epoch][c], left |-> SHARE_RETRIES]
             marked == [st EXCEPT !.chainSharedWith = @ \union targets]
             t == doShare(c, marked, job)
  <1>1. CASE st.epoch = 0 \/ targets = {}
    <2>1. shareChainWithMembers(c, st) = st
      BY <1>1 DEF shareChainWithMembers
    <2> QED BY <2>1 DEF Shares, Rec
  <1>2. CASE ~(st.epoch = 0 \/ targets = {})
    <2>1. shareChainWithMembers(c, st) = t
      BY <1>2 DEF shareChainWithMembers
    <2>2. CurrentJob(c, st, job, "CHAIN")
      BY DEF CurrentJob, Job, Rec
    <2>3. \A m \in Round(c, marked, job) : CurrentShare(c, st, m, "CHAIN")
      BY DEF Round, CurrentShare
    <2>4. targets \subseteq Member \ {c}
      BY DEF Others
    <2>5. /\ marked = [f \in Field |-> marked[f]] /\ marked.out = st.out /\ marked.retries = st.retries
          /\ \A f \in Field \ {"chainSharedWith"} : marked[f] = st[f]
          /\ marked.chainSharedWith = st.chainSharedWith \union targets
      BY DEF Rec, Field
    <2> HIDE DEF marked, job, targets
    <2>6. /\ t = [f \in Field |-> t[f]] /\ \A f \in Field \ {"out", "retries"} : t[f] = marked[f]
          /\ t.out = st.out \union Round(c, marked, job)
          /\ \A j \in t.retries : j \in st.retries \/ j = job
      BY <2>5 DEF doShare, Field
    <2> HIDE DEF t
    <2>7. \A f \in Field \ {"sharedWith", "chainSharedWith", "retries", "out"} : t[f] = st[f]
      BY <2>5, <2>6
    <2>8. t.sharedWith = st.sharedWith /\ t.chainSharedWith = st.chainSharedWith \union targets
      BY <2>5, <2>6 DEF Field
    <2> QED BY <1>2, <2>1, <2>2, <2>3, <2>4, <2>6, <2>7, <2>8 DEF Shares
  <1> QED BY <1>1, <1>2

\* The two assignments of adoptKey between which the key is shared: the key and
\* the epoch, and the new chain.
Adopted(st, a, epoch, key) ==
  /\ a = [f \in Field |-> a[f]]
  /\ a.roomKeys = [st.roomKeys EXCEPT ![epoch] = key] /\ a.epoch = epoch /\ a.sharedWith = {} /\ a.rekeyTimer = TRUE
  /\ \A f \in Field \ {"roomKeys", "epoch", "sharedWith", "rekeyTimer"} : a[f] = st[f]

Chained(c, b, d) ==
  /\ d = [f \in Field |-> d[f]]
  /\ d.senderChains = [b.senderChains EXCEPT ![b.epoch][c] = (b.inc - 1) * MaxInits + b.inits + 1]
  /\ d.inits = b.inits + 1 /\ d.chainSharedWith = {}
  /\ \A f \in Field \ {"senderChains", "inits", "chainSharedWith"} : d[f] = b[f]

LEMMA AdoptKeyParts ==
  ASSUME NEW c, NEW st, Rec(st), NEW epoch \in Nat, NEW key
  PROVE  \E a, b, d : /\ Adopted(st, a, epoch, key) /\ Shares(c, a, b, "KEY") /\ Chained(c, b, d)
                      /\ Shares(c, d, adoptKey(c, st, epoch, key), "CHAIN")
  <1> DEFINE a == [st EXCEPT !.roomKeys[epoch] = key, !.epoch = epoch, !.sharedWith = {}, !.rekeyTimer = TRUE]
             b == shareWithNewMembers(c, a)
             seed == (b.inc - 1) * MaxInits + b.inits + 1
             d == [b EXCEPT !.senderChains[b.epoch][c] = seed, !.inits = @ + 1, !.chainSharedWith = {}]
  <1>1. adoptKey(c, st, epoch, key) = shareChainWithMembers(c, d)
    BY DEF adoptKey, initOwnChain
  <1>2. Adopted(st, a, epoch, key)
    BY DEF Adopted, Rec, Field
  <1>3. Rec(a)
    BY DEF Rec, Field
  <1> HIDE DEF a
  <1>4. Shares(c, a, b, "KEY") /\ Rec(b)
    BY <1>3, KeyShares, ShareKeyRole DEF SameRole
  <1> HIDE DEF b
  <1>5. Chained(c, b, d)
    <2> HIDE DEF seed
    <2> QED BY <1>4 DEF Chained, Rec, Field, seed
  <1>6. Rec(d)
    <2> HIDE DEF seed
    <2> QED BY <1>4 DEF Rec, Field
  <1> HIDE DEF d
  <1>7. Shares(c, d, shareChainWithMembers(c, d), "CHAIN")
    BY <1>6, ChainShares
  <1> QED BY <1>1, <1>2, <1>4, <1>5, <1>7

\* The fields adoptKey leaves alone.
Kept(st, t) ==
  t.inc = st.inc /\ t.up = st.up /\ t.linked = st.linked /\ t.roster = st.roster /\ t.isCreator = st.isCreator
  /\ t.joins = st.joins

LEMMA AdoptKeyKept ==
  ASSUME NEW c, NEW st, Rec(st), NEW epoch \in Nat, NEW key
  PROVE  Kept(st, adoptKey(c, st, epoch, key))
  <1>1. PICK a, b, d : /\ Adopted(st, a, epoch, key) /\ Shares(c, a, b, "KEY") /\ Chained(c, b, d)
                       /\ Shares(c, d, adoptKey(c, st, epoch, key), "CHAIN")
    BY AdoptKeyParts
  <1>2. Kept(st, a)
    BY <1>1 DEF Adopted, Kept, Field
  <1>3. Kept(a, b) /\ Kept(d, adoptKey(c, st, epoch, key))
    BY <1>1, SharesKeeps DEF Kept
  <1>4. Kept(b, d)
    BY <1>1 DEF Chained, Kept, Field
  <1> QED BY <1>2, <1>3, <1>4 DEF Kept

-----------------------------------------------------------------------------
(* Types.                                                                  *)

TypedPacket(m) ==
  /\ m.type = "KEY_REQ" => m.from \in Member /\ m.pub \in 0 .. MaxStarts
  /\ m.type = "MEMBER_INFO" => m.roster \in [Member -> 0 .. MaxStarts]
  /\ m.type \in {"KEY_SHARE", "CHAIN_SHARE"} => m.from \in Member /\ m.epoch \in Epoch
  /\ m.type = "KEY_SHARE" => m.key \in Key
  /\ m.type = "CHAIN_SHARE" => m.seed \in Seed

TypedJob(job) ==
  /\ Job(job) /\ job.epoch \in Epoch
  /\ job.kind = "KEY" => job.key \in Key
  /\ job.kind = "CHAIN" => job.seed \in Seed

\* The client record of TypeOK, in the middle of a handler too.  Only a started
\* client runs: this is what makes the bounds of a new seed hold.
TypedRec(c, st) ==
  /\ Rec(st)
  /\ st.inc \in 0 .. MaxStarts
  /\ st.up \in BOOLEAN /\ st.linked \in BOOLEAN /\ st.isCreator \in BOOLEAN /\ st.rekeyTimer \in BOOLEAN
  /\ st.roster \in [Member -> 0 .. MaxStarts]
  /\ st.epoch \in 0 .. MaxEpoch /\ st.inits \in 0 .. MaxInits
  /\ st.roomKeys \in [Epoch -> Key \union {NoKey}]
  /\ st.epoch # 0 => st.roomKeys[st.epoch] # NoKey
  /\ st.sharedWith \subseteq Member \ {c} /\ st.chainSharedWith \subseteq Member \ {c}
  /\ st.senderChains \in [Epoch -> [Member -> Seed]]
  /\ st.joins \in 0 .. JOIN_RETRIES
  /\ st.up => st.inc # 0
  /\ \A job \in st.retries : TypedJob(job)
  /\ \A m \in st.out : TypedPacket(m)

\* Only a client with a key is a creator: it makes no first key twice.
TypeInv ==
  /\ \A c \in Member : /\ TypedRec(c, client[c]) /\ client[c].out = {}
                       /\ client[c].isCreator => client[c].epoch # 0
  /\ members \in [Member -> 0 .. MaxStarts]
  /\ creator \in Member \union {NoOne}
  /\ \A m \in net : TypedPacket(m)

LEMMA TypeInvGivesTypeOK ==
  ASSUME TypeInv
  PROVE  TypeOK
  <1> SUFFICES ASSUME NEW c \in Member
               PROVE  LET st == client[c]
                      IN  /\ st.inc \in 0 .. MaxStarts
                          /\ {st.up, st.linked, st.isCreator, st.rekeyTimer} \subseteq BOOLEAN
                          /\ st.roster \in [Member -> 0 .. MaxStarts]
                          /\ st.epoch \in 0 .. MaxEpoch /\ st.inits \in 0 .. MaxInits
                          /\ st.roomKeys \in [Epoch -> Key \union {NoKey}]
                          /\ st.epoch # 0 => st.roomKeys[st.epoch] # NoKey
                          /\ st.sharedWith \union st.chainSharedWith \subseteq Member \ {c}
                          /\ st.senderChains \in [Epoch -> [Member -> Seed]]
                          /\ st.joins \in 0 .. JOIN_RETRIES /\ st.out = {}
    BY DEF TypeInv, TypeOK
  <1>1. TypedRec(c, client[c]) /\ client[c].out = {}
    BY DEF TypeInv
  <1> QED BY <1>1 DEF TypedRec

\* A round of shares is well typed when the state is.
LEMMA SharesTyped ==
  ASSUME NEW c \in Member, NEW st, NEW t, NEW kind \in {"KEY", "CHAIN"}, TypedRec(c, st), Shares(c, st, t, kind)
  PROVE  TypedRec(c, t)
  <1>1. /\ t.inc = st.inc /\ t.up = st.up /\ t.linked = st.linked /\ t.roster = st.roster
        /\ t.isCreator = st.isCreator /\ t.epoch = st.epoch /\ t.roomKeys = st.roomKeys
        /\ t.senderChains = st.senderChains /\ t.inits = st.inits /\ t.rekeyTimer = st.rekeyTimer
        /\ t.joins = st.joins
    BY SharesKeeps
  <1>2. st.epoch # 0 =>
          st.epoch \in Epoch /\ st.roomKeys[st.epoch] \in Key /\ st.senderChains[st.epoch][c] \in Seed
    <2> SUFFICES ASSUME st.epoch # 0
                 PROVE  st.epoch \in Epoch /\ st.roomKeys[st.epoch] \in Key /\ st.senderChains[st.epoch][c] \in Seed
      OBVIOUS
    <2>1. st.epoch \in Epoch
      BY KeysAssumption DEF TypedRec, Epoch
    <2>2. st.roomKeys[st.epoch] \in Key
      BY <2>1 DEF TypedRec
    <2>3. st.senderChains[st.epoch][c] \in Seed
      BY <2>1 DEF TypedRec
    <2> QED BY <2>1, <2>2, <2>3
  <1>3. ASSUME NEW job \in t.retries PROVE TypedJob(job)
    BY <1>2 DEF TypedRec, Shares, CurrentJob, TypedJob, Job
  <1>4. ASSUME NEW m \in t.out PROVE TypedPacket(m)
    BY <1>2 DEF TypedRec, Shares, CurrentShare, TypedPacket
  <1>5. Rec(t)
    BY <1>1, <1>3 DEF Rec, Shares, TypedRec, TypedJob
  <1>6. t.sharedWith \subseteq Member \ {c} /\ t.chainSharedWith \subseteq Member \ {c}
    BY DEF TypedRec, Shares
  <1> QED BY <1>1, <1>3, <1>4, <1>5, <1>6 DEF TypedRec

\* The seed of an incarnation's next chain stays below the bound.
LEMMA SeedBound ==
  ASSUME NEW inc \in 1 .. MaxStarts, NEW inits \in 0 .. MaxInits, inits < MaxInits
  PROVE  (inc - 1) * MaxInits + inits + 1 \in Seed
  <1>1. MaxInits \in Nat /\ MaxStarts \in Nat
    BY KeysAssumption
  <1>2. MaxStarts * MaxInits = (inc - 1) * MaxInits + MaxInits + (MaxStarts - inc) * MaxInits
    BY <1>1
  <1>3. (inc - 1) * MaxInits \in Nat /\ (MaxStarts - inc) * MaxInits \in Nat
    BY <1>1
  <1> QED BY <1>1, <1>2, <1>3 DEF Seed

\* The parts of adoptKey with a key for the epoch and room for a chain.
LEMMA AdoptPartsTyped ==
  ASSUME NEW c \in Member, NEW st, TypedRec(c, st), st.up, st.inits < MaxInits,
         NEW epoch \in Epoch, NEW key \in Key, NEW a, NEW b, NEW d,
         Adopted(st, a, epoch, key), Shares(c, a, b, "KEY"), Chained(c, b, d)
  PROVE  TypedRec(c, a) /\ TypedRec(c, b) /\ TypedRec(c, d)
  <1>1. Rec(st) /\ epoch \in Nat /\ epoch \in 0 .. MaxEpoch /\ epoch # 0 /\ key # NoKey
    <2>1. Rec(st)
      BY DEF TypedRec
    <2>2. MaxEpoch \in Nat /\ key \in [by : Member, inc : Nat, epoch : Nat]
      BY KeysAssumption DEF Key, Epoch
    <2>3. key # NoKey
      BY <2>2, KeysAssumption
    <2> QED BY <2>1, <2>2, <2>3 DEF Epoch
  <1>2. Adopted(st, a, epoch, key) /\ Shares(c, a, b, "KEY") /\ Chained(c, b, d)
    OBVIOUS
  <1>3. TypedRec(c, a) /\ a.up /\ a.inits < MaxInits /\ a.epoch = epoch
    <2>1. a.roomKeys \in [Epoch -> Key \union {NoKey}] /\ a.roomKeys[a.epoch] # NoKey
      BY <1>1, <1>2 DEF TypedRec, Adopted
    <2>2. /\ a.inc = st.inc /\ a.up = st.up /\ a.linked = st.linked /\ a.roster = st.roster
          /\ a.isCreator = st.isCreator /\ a.senderChains = st.senderChains /\ a.inits = st.inits
          /\ a.joins = st.joins /\ a.retries = st.retries /\ a.out = st.out
          /\ a.chainSharedWith = st.chainSharedWith
          /\ a.epoch = epoch /\ a.sharedWith = {} /\ a.rekeyTimer = TRUE
      BY <1>2 DEF Adopted, Field
    <2>3. Rec(a)
      BY <1>1, <1>2, <2>2 DEF Rec, Adopted
    <2> QED BY <1>1, <2>1, <2>2, <2>3 DEF TypedRec
  <1>4. TypedRec(c, b) /\ b.up /\ b.inits < MaxInits /\ b.epoch = epoch
    BY <1>2, <1>3, SharesTyped, SharesKeeps
  <1>5. TypedRec(c, d)
    <2> DEFINE seed == (b.inc - 1) * MaxInits + b.inits + 1
    <2>1. seed \in Seed
      <3>1. b.inc \in 1 .. MaxStarts /\ b.inits \in 0 .. MaxInits
        BY <1>4 DEF TypedRec
      <3> QED BY <1>4, <3>1, SeedBound
    <2>2. d.senderChains = [b.senderChains EXCEPT ![epoch][c] = seed]
      BY <1>2, <1>4 DEF Chained
    <2> HIDE DEF seed
    <2>3. /\ d.inc = b.inc /\ d.up = b.up /\ d.linked = b.linked /\ d.roster = b.roster
          /\ d.isCreator = b.isCreator /\ d.epoch = b.epoch /\ d.roomKeys = b.roomKeys /\ d.rekeyTimer = b.rekeyTimer
          /\ d.joins = b.joins /\ d.retries = b.retries /\ d.out = b.out /\ d.sharedWith = b.sharedWith
          /\ d.inits = b.inits + 1 /\ d.chainSharedWith = {}
      BY <1>2 DEF Chained, Field
    <2>4. d.senderChains \in [Epoch -> [Member -> Seed]]
      <3>1. b.senderChains \in [Epoch -> [Member -> Seed]]
        BY <1>4 DEF TypedRec
      <3> QED BY <2>1, <2>2, <3>1
    <2>5. d.inits \in 0 .. MaxInits
      <3>1. b.inits \in 0 .. MaxInits /\ b.inits < MaxInits
        BY <1>4 DEF TypedRec
      <3>2. d.inits = b.inits + 1
        BY <2>3
      <3>3. MaxInits \in Nat
        BY KeysAssumption
      <3> QED BY <3>1, <3>2, <3>3
    <2>6. Rec(d)
      BY <1>2, <1>4, <2>3 DEF TypedRec, Rec, Chained
    <2> QED BY <1>4, <2>3, <2>4, <2>5, <2>6 DEF TypedRec
  <1> QED BY <1>3, <1>4, <1>5

LEMMA AdoptKeyTyped ==
  ASSUME NEW c \in Member, NEW st, TypedRec(c, st), st.up, st.inits < MaxInits,
         NEW epoch \in Epoch, NEW key \in Key
  PROVE  TypedRec(c, adoptKey(c, st, epoch, key))
  <1>1. Rec(st) /\ epoch \in Nat
    BY KeysAssumption DEF TypedRec, Epoch
  <1>2. PICK a, b, d : /\ Adopted(st, a, epoch, key) /\ Shares(c, a, b, "KEY") /\ Chained(c, b, d)
                       /\ Shares(c, d, adoptKey(c, st, epoch, key), "CHAIN")
    BY <1>1, AdoptKeyParts
  <1>3. TypedRec(c, d)
    BY <1>2, AdoptPartsTyped
  <1> QED BY <1>2, <1>3, SharesTyped

\* pruneOldEpochs keeps the current key.
LEMMA PruneTyped ==
  ASSUME NEW c \in Member, NEW st, TypedRec(c, st)
  PROVE  TypedRec(c, pruneOldEpochs(st))
  <1> DEFINE t == pruneOldEpochs(st)
  <1>1. /\ t = [f \in Field |-> t[f]] /\ \A f \in Field \ {"roomKeys"} : t[f] = st[f]
        /\ t.roomKeys = [e \in Epoch |-> IF e + KEEP_EPOCHS < st.epoch THEN NoKey ELSE st.roomKeys[e]]
    BY DEF pruneOldEpochs, TypedRec, Rec, Field
  <1> HIDE DEF t
  <1>2. /\ t.inc = st.inc /\ t.up = st.up /\ t.linked = st.linked /\ t.roster = st.roster
        /\ t.isCreator = st.isCreator /\ t.epoch = st.epoch /\ t.rekeyTimer = st.rekeyTimer
        /\ t.senderChains = st.senderChains /\ t.inits = st.inits /\ t.joins = st.joins
        /\ t.retries = st.retries /\ t.out = st.out /\ t.sharedWith = st.sharedWith
        /\ t.chainSharedWith = st.chainSharedWith
    BY <1>1 DEF Field
  <1>3. t.roomKeys \in [Epoch -> Key \union {NoKey}]
    BY <1>1 DEF TypedRec
  <1>4. t.epoch # 0 => t.roomKeys[t.epoch] # NoKey
    <2> SUFFICES ASSUME st.epoch # 0 PROVE t.roomKeys[st.epoch] # NoKey
      BY <1>2
    <2>1. st.epoch \in Epoch /\ ~(st.epoch + KEEP_EPOCHS < st.epoch)
      BY KeysAssumption DEF TypedRec, Epoch
    <2>2. st.roomKeys[st.epoch] # NoKey
      BY DEF TypedRec
    <2> QED BY <1>1, <2>1, <2>2
  <1>5. Rec(t)
    BY <1>1, <1>2 DEF TypedRec, Rec
  <1>6. /\ \A job \in t.retries : TypedJob(job)
        /\ \A m \in t.out : TypedPacket(m)
        /\ t.up => t.inc # 0
        /\ t.sharedWith \subseteq Member \ {c} /\ t.chainSharedWith \subseteq Member \ {c}
    BY <1>2 DEF TypedRec
  <1>7. /\ t.inc \in 0 .. MaxStarts
        /\ t.up \in BOOLEAN /\ t.linked \in BOOLEAN /\ t.isCreator \in BOOLEAN /\ t.rekeyTimer \in BOOLEAN
        /\ t.roster \in [Member -> 0 .. MaxStarts]
        /\ t.epoch \in 0 .. MaxEpoch /\ t.inits \in 0 .. MaxInits
        /\ t.senderChains \in [Epoch -> [Member -> Seed]]
        /\ t.joins \in 0 .. JOIN_RETRIES
    BY <1>2 DEF TypedRec
  <1>8. TypedRec(c, t)
    BY <1>3, <1>4, <1>5, <1>6, <1>7 DEF TypedRec
  <1> QED BY <1>8 DEF t

\* rekey, with room for another epoch and another chain.
LEMMA RekeyTyped ==
  ASSUME NEW c \in Member, NEW st, TypedRec(c, st), st.up, MayAdopt(st)
  PROVE  TypedRec(c, rekey(c, st))
  <1> DEFINE key == NewKey(c, st, st.epoch + 1)
             a == adoptKey(c, st, st.epoch + 1, key)
  <1>1. st.epoch + 1 \in Epoch /\ st.inits < MaxInits
    <2>1. MaxEpoch \in Nat
      BY KeysAssumption
    <2>2. st.epoch \in 0 .. MaxEpoch /\ st.epoch < MaxEpoch /\ st.inits < MaxInits
      BY DEF TypedRec, MayAdopt
    <2> QED BY <2>1, <2>2 DEF Epoch
  <1>2. key \in Key
    BY <1>1 DEF NewKey, Key, TypedRec
  <1> HIDE DEF key
  <1>3. TypedRec(c, a)
    BY <1>1, <1>2, AdoptKeyTyped
  <1> HIDE DEF a
  <1>4. TypedRec(c, pruneOldEpochs(a))
    BY <1>3, PruneTyped
  <1>5. rekey(c, st) \in {st, pruneOldEpochs(a)}
    BY DEF rekey, a, key
  <1> QED BY <1>4, <1>5

LEMMA RekeyKept ==
  ASSUME NEW c, NEW st, Rec(st)
  PROVE  Kept(st, rekey(c, st))
  <1> DEFINE a == adoptKey(c, st, st.epoch + 1, NewKey(c, st, st.epoch + 1))
             t == pruneOldEpochs(a)
  <1>1. st.epoch + 1 \in Nat
    BY DEF Rec
  <1>2. Kept(st, a) /\ Rec(a)
    BY <1>1, AdoptKeyKept, AdoptKeyRole DEF SameRole
  <1>3. rekey(c, st) \in {st, t}
    BY DEF rekey
  <1> HIDE DEF a
  <1>4. Kept(a, t)
    BY <1>2 DEF pruneOldEpochs, Rec, Field, Kept
  <1> HIDE DEF t
  <1> QED BY <1>2, <1>3, <1>4 DEF Kept

\* A handler's other output.
LEMMA OutTyped ==
  ASSUME NEW c \in Member, NEW st, TypedRec(c, st), NEW out, \A m \in out : TypedPacket(m)
  PROVE  LET t == [st EXCEPT !.out = out]
         IN  TypedRec(c, t) /\ t.isCreator = st.isCreator /\ t.epoch = st.epoch
  <1> DEFINE t == [st EXCEPT !.out = out]
  <1>1. /\ t = [f \in Field |-> t[f]] /\ t.out = out /\ \A f \in Field \ {"out"} : t[f] = st[f]
    BY DEF TypedRec, Rec, Field
  <1> HIDE DEF t
  <1>2. /\ t.inc = st.inc /\ t.up = st.up /\ t.linked = st.linked /\ t.roster = st.roster
        /\ t.isCreator = st.isCreator /\ t.epoch = st.epoch /\ t.roomKeys = st.roomKeys
        /\ t.senderChains = st.senderChains /\ t.inits = st.inits /\ t.rekeyTimer = st.rekeyTimer
        /\ t.joins = st.joins /\ t.retries = st.retries /\ t.sharedWith = st.sharedWith
        /\ t.chainSharedWith = st.chainSharedWith
    BY <1>1 DEF Field
  <1>3. Rec(t)
    BY <1>1, <1>2 DEF TypedRec, Rec
  <1>4. TypedRec(c, t)
    BY <1>1, <1>2, <1>3 DEF TypedRec
  <1> QED BY <1>2, <1>4 DEF t

\* A handler has run to st: the invariant holds after it.
LEMMA BecomesTyped ==
  ASSUME RoleInv, TypeInv, NEW c \in Member, NEW st, NEW used, TypedRec(c, st), Becomes(c, st, used),
         st.isCreator => st.epoch # 0, UNCHANGED <<members, creator>>
  PROVE  TypeInv'
  <1> DEFINE t == [st EXCEPT !.out = {}]
  <1>1. t.out = {}
    BY DEF TypedRec, Rec, Field
  <1>2. client' = [client EXCEPT ![c] = t] /\ net' = (net \ used) \union st.out
    BY DEF Becomes
  <1>4. TypedRec(c, t) /\ t.isCreator = st.isCreator /\ t.epoch = st.epoch
    BY OutTyped
  <1> HIDE DEF t
  <1>3. client'[c] = t /\ \A d \in Member \ {c} : client'[d] = client[d]
    BY <1>2 DEF RoleInv
  <1>5. \A d \in Member : TypedRec(d, client'[d]) /\ client'[d].out = {} /\ (client'[d].isCreator => client'[d].epoch # 0)
    BY <1>1, <1>3, <1>4 DEF TypeInv
  <1>6. \A m \in net' : TypedPacket(m)
    BY <1>2 DEF TypeInv, TypedRec
  <1>7. members' \in [Member -> 0 .. MaxStarts] /\ creator' \in Member \union {NoOne}
    BY DEF TypeInv
  <1> QED BY <1>5, <1>6, <1>7 DEF TypeInv

\* A started process.
LEMMA FreshTyped ==
  ASSUME NEW c \in Member, NEW inc \in 0 .. MaxStarts
  PROVE  TypedRec(c, Down(inc)) /\ (inc # 0 => TypedRec(c, Fresh(inc)))
  <1>1. /\ 0 \in 0 .. MaxStarts /\ 0 \in 0 .. MaxEpoch /\ 0 \in 0 .. MaxInits /\ 0 \in Seed
        /\ 0 \in 0 .. JOIN_RETRIES /\ JOIN_RETRIES \in 0 .. JOIN_RETRIES
    <2>1. MaxStarts \in Nat /\ MaxEpoch \in Nat /\ MaxInits \in Nat /\ JOIN_RETRIES \in Nat
      BY KeysAssumption
    <2>2. MaxStarts * MaxInits \in Nat
      BY <2>1
    <2> QED BY <2>1, <2>2 DEF Seed
  <1>2. /\ NoRoster \in [Member -> 0 .. MaxStarts]
        /\ [e \in Epoch |-> NoKey] \in [Epoch -> Key \union {NoKey}]
        /\ [e \in Epoch |-> [m \in Member |-> 0]] \in [Epoch -> [Member -> Seed]]
    BY <1>1 DEF NoRoster
  <1>3. /\ Rec(Fresh(inc)) /\ Rec(Down(inc))
    BY DownFacts DEF Fresh, Rec, Field
  <1>4. LET st == Fresh(inc)
        IN  /\ st.inc = inc /\ st.roster = NoRoster /\ st.epoch = 0 /\ st.inits = 0
            /\ st.roomKeys = [e \in Epoch |-> NoKey] /\ st.senderChains = [e \in Epoch |-> [m \in Member |-> 0]]
            /\ st.sharedWith = {} /\ st.chainSharedWith = {} /\ st.retries = {} /\ st.out = {}
            /\ st.isCreator = FALSE /\ st.rekeyTimer = FALSE
            /\ st.up = TRUE /\ st.linked = TRUE /\ st.joins = JOIN_RETRIES
    BY DEF Fresh
  <1>5. LET st == Down(inc)
        IN  /\ st.inc = inc /\ st.roster = NoRoster /\ st.epoch = 0 /\ st.inits = 0
            /\ st.roomKeys = [e \in Epoch |-> NoKey] /\ st.senderChains = [e \in Epoch |-> [m \in Member |-> 0]]
            /\ st.sharedWith = {} /\ st.chainSharedWith = {} /\ st.retries = {} /\ st.out = {}
            /\ st.isCreator = FALSE /\ st.rekeyTimer = FALSE
            /\ st.up = FALSE /\ st.linked = FALSE /\ st.joins = 0
    BY DEF Fresh, Down
  <1>6. TypedRec(c, Down(inc))
    BY <1>1, <1>2, <1>3, <1>5 DEF TypedRec
  <1>7. ASSUME inc # 0 PROVE TypedRec(c, Fresh(inc))
    BY <1>1, <1>2, <1>3, <1>4, <1>7 DEF TypedRec
  <1> QED BY <1>6, <1>7

\* What a change of the timer, or of the roster and the role, leaves alone.
SameKeys(st, t) ==
  /\ t.epoch = st.epoch /\ t.roomKeys = st.roomKeys /\ t.senderChains = st.senderChains /\ t.inits = st.inits
  /\ t.retries = st.retries /\ t.out = st.out

LEMMA TimerTyped ==
  ASSUME NEW c \in Member, NEW st, TypedRec(c, st), NEW v \in BOOLEAN
  PROVE  LET t == [st EXCEPT !.rekeyTimer = v] IN TypedRec(c, t) /\ Kept(st, t) /\ SameKeys(st, t)
  <1> DEFINE t == [st EXCEPT !.rekeyTimer = v]
  <1>1. Rec(st)
    BY DEF TypedRec
  <1>2. /\ t = [f \in Field |-> t[f]] /\ t.rekeyTimer = v
        /\ t.inc = st.inc /\ t.up = st.up /\ t.linked = st.linked /\ t.roster = st.roster
        /\ t.isCreator = st.isCreator /\ t.joins = st.joins /\ t.sharedWith = st.sharedWith
        /\ t.chainSharedWith = st.chainSharedWith
    BY <1>1 DEF Rec, Field
  <1>3. SameKeys(st, t)
    BY <1>1 DEF Rec, Field, SameKeys
  <1> HIDE DEF t
  <1>4. Rec(t)
    BY <1>1, <1>2, <1>3 DEF Rec, SameKeys
  <1>5. TypedRec(c, t)
    BY <1>2, <1>3, <1>4 DEF TypedRec, SameKeys
  <1> QED BY <1>2, <1>3, <1>5 DEF Kept, t

-----------------------------------------------------------------------------
(* The stages of handleMemberInfo: the roster and the role, a first key    *)
(* for a new creator, a rotation for a successor; then the chain is shared *)
(* and the timer armed.                                                    *)

Informed(st, m) ==
  LET changed == {x \in Member : st.roster[x] # 0 /\ m.roster[x] # 0 /\ st.roster[x] # m.roster[x]}
  IN  [st EXCEPT !.roster = m.roster, !.isCreator = m.creator, !.sharedWith = @ \ changed,
                 !.chainSharedWith = @ \ changed]

Keyed(c, st, m) ==
  IF m.creator /\ st.epoch = 0
  THEN adoptKey(c, Informed(st, m), 1, NewKey(c, Informed(st, m), 1))
  ELSE shareWithNewMembers(c, Informed(st, m))

Rotated(c, st, m) ==
  IF m.creator /\ ~st.isCreator /\ st.epoch # 0 THEN rekey(c, Keyed(c, st, m)) ELSE Keyed(c, st, m)

LEMMA MemberInfoStages ==
  ASSUME NEW c, NEW m
  PROVE  AfterMemberInfo(c, m) = [shareChainWithMembers(c, Rotated(c, client[c], m)) EXCEPT !.rekeyTimer = TRUE]
  BY DEF AfterMemberInfo, Rotated, Keyed, Informed

\* A roster reaches the running client it is for.
InfoDue(c, st, m) ==
  /\ TypedRec(c, st) /\ st.up /\ (st.isCreator => st.epoch # 0)
  /\ m.roster \in [Member -> 0 .. MaxStarts] /\ m.creator \in BOOLEAN
  /\ m.creator /\ ~st.isCreator => MayAdopt(st)

\* The role of t is the roster's, and t is the process st was.
TookRole(st, t, m) ==
  t.isCreator = m.creator /\ t.up /\ t.inc = st.inc /\ t.linked = st.linked

LEMMA InformedTyped ==
  ASSUME NEW c \in Member, NEW st, NEW m, InfoDue(c, st, m)
  PROVE  TypedRec(c, Informed(st, m)) /\ TookRole(st, Informed(st, m), m) /\ SameKeys(st, Informed(st, m))
  <1> DEFINE changed == {x \in Member : st.roster[x] # 0 /\ m.roster[x] # 0 /\ st.roster[x] # m.roster[x]}
             a == [st EXCEPT !.roster = m.roster, !.isCreator = m.creator, !.sharedWith = @ \ changed,
                             !.chainSharedWith = @ \ changed]
  <1>1. Informed(st, m) = a
    BY DEF Informed
  <1>2. TypedRec(c, st) /\ st.up /\ m.roster \in [Member -> 0 .. MaxStarts] /\ m.creator \in BOOLEAN
    BY DEF InfoDue
  <1>3. Rec(st)
    BY <1>2 DEF TypedRec
  <1> HIDE DEF changed
  <1>4. /\ a = [x \in Field |-> a[x]] /\ a.roster = m.roster /\ a.isCreator = m.creator
        /\ a.sharedWith \subseteq st.sharedWith /\ a.chainSharedWith \subseteq st.chainSharedWith
        /\ a.inc = st.inc /\ a.up = st.up /\ a.linked = st.linked /\ a.rekeyTimer = st.rekeyTimer
        /\ a.joins = st.joins
    BY <1>3 DEF Rec, Field
  <1>5. SameKeys(st, a)
    BY <1>3 DEF Rec, Field, SameKeys
  <1> HIDE DEF a
  <1>6. Rec(a)
    BY <1>3, <1>4, <1>5 DEF Rec, SameKeys
  <1>7. TypedRec(c, a)
    BY <1>2, <1>4, <1>5, <1>6 DEF TypedRec, SameKeys
  <1>8. TookRole(st, a, m)
    BY <1>2, <1>4 DEF TookRole
  <1> QED BY <1>1, <1>5, <1>7, <1>8

\* A first key can be made when it is due.
LEMMA FirstKeyDue ==
  ASSUME NEW c \in Member, NEW st, NEW m, InfoDue(c, st, m), m.creator, st.epoch = 0, NEW a, TypedRec(c, a),
         TookRole(st, a, m), SameKeys(st, a)
  PROVE  1 \in Epoch /\ a.up /\ a.inits < MaxInits /\ a.epoch = 0 /\ NewKey(c, a, 1) \in Key
  <1>1. MaxEpoch \in Nat /\ MayAdopt(st)
    BY KeysAssumption DEF InfoDue
  <1>2. 1 \in Epoch
    BY <1>1 DEF MayAdopt, Epoch
  <1>3. a.inits < MaxInits /\ a.epoch = 0
    BY <1>1 DEF MayAdopt, SameKeys
  <1>4. a.up /\ a.inc \in 1 .. MaxStarts
    BY DEF TookRole, TypedRec
  <1>5. NewKey(c, a, 1) \in Key
    BY <1>2, <1>4 DEF NewKey, Key
  <1> QED BY <1>2, <1>3, <1>4, <1>5

LEMMA KeyedTyped ==
  ASSUME NEW c \in Member, NEW st, NEW m, InfoDue(c, st, m)
  PROVE  /\ TypedRec(c, Keyed(c, st, m)) /\ TookRole(st, Keyed(c, st, m), m)
         /\ m.creator => Keyed(c, st, m).epoch # 0
         /\ m.creator /\ ~st.isCreator /\ st.epoch # 0 => MayAdopt(Keyed(c, st, m))
  <1> DEFINE a == Informed(st, m)
             b == Keyed(c, st, m)
  <1>1. TypedRec(c, a) /\ TookRole(st, a, m) /\ SameKeys(st, a)
    BY InformedTyped
  <1>2. Rec(a)
    BY <1>1 DEF TypedRec
  <1>3. CASE m.creator /\ st.epoch = 0
    <2>1. b = adoptKey(c, a, 1, NewKey(c, a, 1))
      BY <1>3 DEF Keyed
    <2> HIDE DEF a, b
    <2>2. 1 \in Epoch /\ a.up /\ a.inits < MaxInits /\ NewKey(c, a, 1) \in Key
      BY <1>1, <1>3, FirstKeyDue
    <2>3. TypedRec(c, b)
      BY <1>1, <2>1, <2>2, AdoptKeyTyped
    <2>4. SameRole(a, b, 1) /\ Kept(a, b)
      BY <1>2, <2>1, AdoptKeyRole, AdoptKeyKept
    <2>5. TookRole(st, b, m)
      BY <1>1, <2>4 DEF TookRole, Kept
    <2>6. b.epoch # 0
      BY <2>4 DEF SameRole
    <2> QED BY <1>3, <2>3, <2>5, <2>6 DEF b
  <1>4. CASE ~(m.creator /\ st.epoch = 0)
    <2>1. Shares(c, a, b, "KEY")
      BY <1>2, <1>4, KeyShares DEF Keyed
    <2> HIDE DEF a, b
    <2>2. TypedRec(c, b)
      BY <1>1, <2>1, SharesTyped
    <2>3. /\ b.isCreator = a.isCreator /\ b.up = a.up /\ b.inc = a.inc /\ b.linked = a.linked
          /\ b.epoch = a.epoch /\ b.inits = a.inits
      BY <2>1, SharesKeeps
    <2>4. TookRole(st, b, m)
      BY <1>1, <2>3 DEF TookRole
    <2>5. b.epoch = st.epoch /\ b.inits = st.inits
      BY <1>1, <2>3 DEF SameKeys
    <2>6. m.creator /\ ~st.isCreator => MayAdopt(b)
      BY <2>5 DEF InfoDue, MayAdopt
    <2> QED BY <1>4, <2>2, <2>4, <2>5, <2>6 DEF b
  <1> QED BY <1>3, <1>4

LEMMA RotatedTyped ==
  ASSUME NEW c \in Member, NEW st, NEW m, InfoDue(c, st, m)
  PROVE  /\ TypedRec(c, Rotated(c, st, m)) /\ TookRole(st, Rotated(c, st, m), m)
         /\ m.creator => Rotated(c, st, m).epoch # 0
  <1> DEFINE b == Keyed(c, st, m)
             d == Rotated(c, st, m)
  <1>1. /\ TypedRec(c, b) /\ TookRole(st, b, m) /\ (m.creator => b.epoch # 0)
        /\ m.creator /\ ~st.isCreator /\ st.epoch # 0 => MayAdopt(b)
    BY KeyedTyped
  <1>2. d = IF m.creator /\ ~st.isCreator /\ st.epoch # 0 THEN rekey(c, b) ELSE b
    BY DEF Rotated
  <1> HIDE DEF b, d
  <1>3. CASE m.creator /\ ~st.isCreator /\ st.epoch # 0
    <2>1. d = rekey(c, b) /\ b.up /\ MayAdopt(b) /\ b.epoch # 0
      BY <1>1, <1>2, <1>3 DEF TookRole
    <2>2. Rec(b) /\ b.epoch \in Nat
      BY <1>1 DEF TypedRec, Rec
    <2>3. TypedRec(c, d)
      BY <1>1, <2>1, RekeyTyped
    <2>4. PICK e \in Nat : e >= b.epoch /\ SameRole(b, d, e)
      BY <2>1, <2>2, RekeyRole
    <2>5. d.epoch # 0
      <3>1. d.epoch = e
        BY <2>4 DEF SameRole
      <3> QED BY <2>1, <2>2, <2>4, <3>1
    <2>6. Kept(b, d)
      BY <2>1, <2>2, RekeyKept
    <2>7. TookRole(st, d, m)
      BY <1>1, <2>6 DEF TookRole, Kept
    <2> QED BY <2>3, <2>5, <2>7 DEF d
  <1>4. CASE ~(m.creator /\ ~st.isCreator /\ st.epoch # 0)
    BY <1>1, <1>2, <1>4 DEF d
  <1> QED BY <1>3, <1>4

LEMMA MemberInfoTyped ==
  ASSUME NEW c \in Member, NEW m, InfoDue(c, client[c], m)
  PROVE  TypedRec(c, AfterMemberInfo(c, m)) /\ (AfterMemberInfo(c, m).isCreator => AfterMemberInfo(c, m).epoch # 0)
  <1> DEFINE d == Rotated(c, client[c], m)
             f == shareChainWithMembers(c, d)
             t == [f EXCEPT !.rekeyTimer = TRUE]
  <1>1. AfterMemberInfo(c, m) = t
    BY MemberInfoStages
  <1>2. TypedRec(c, d) /\ TookRole(client[c], d, m) /\ (m.creator => d.epoch # 0)
    BY RotatedTyped
  <1> HIDE DEF d
  <1>3. Shares(c, d, f, "CHAIN")
    BY <1>2, ChainShares DEF TypedRec
  <1> HIDE DEF f
  <1>4. TypedRec(c, f) /\ f.isCreator = d.isCreator /\ f.epoch = d.epoch
    BY <1>2, <1>3, SharesTyped, SharesKeeps
  <1>5. TypedRec(c, t) /\ Kept(f, t) /\ SameKeys(f, t)
    BY <1>4, TimerTyped
  <1> HIDE DEF t
  <1>6. t.isCreator = m.creator /\ t.epoch = d.epoch
    BY <1>2, <1>4, <1>5 DEF TookRole, Kept, SameKeys
  <1> QED BY <1>1, <1>2, <1>5, <1>6

-----------------------------------------------------------------------------
(* One lemma per action.                                                   *)

\* The smallest id exists.
LEMMA SmallestId ==
  ASSUME NEW S \in SUBSET Nat, S # {}
  PROVE  \E m \in S : \A n \in S : m <= n
  <1>1. PICK m \in S : \A n \in S : ~(<<n, m>> \in OpToRel(<, Nat))
    BY NatLessThanWellFounded, WFMin
  <1>2. \A n \in S : ~(n < m)
    BY <1>1 DEF OpToRel
  <1> QED BY <1>2

\* What the relay tells the members is well typed when its state is.
LEMMA NotifyTyped ==
  ASSUME members' \in [Member -> 0 .. MaxStarts], NEW m \in notifyMembers(members', creator')
  PROVE  TypedPacket(m)
  BY DEF notifyMembers, TypedPacket

LEMMA KeyReqTyped ==
  ASSUME NEW c \in Member, NEW st, st.inc \in 0 .. MaxStarts
  PROVE  \A m \in {KeyReqPkt(c, st)} : TypedPacket(m)
  <1> DEFINE m == KeyReqPkt(c, st)
  <1>1. m.type = "KEY_REQ" /\ m.from = c /\ m.pub = st.inc
    BY DEF KeyReqPkt
  <1> HIDE DEF m
  <1>2. TypedPacket(m)
    BY <1>1 DEF TypedPacket
  <1> QED BY <1>2 DEF m

LEMMA JoinTyped ==
  ASSUME RoleInv, TypeInv, NEW c \in Member, joinConversation(c) \/ RetryJoin(c)
  PROVE  TypeInv'
  <1>1. TypedRec(c, client[c]) /\ client[c].inc \in 0 .. MaxStarts /\ client[c].joins \in 0 .. JOIN_RETRIES
    BY DEF TypeInv, TypedRec
  <1>2. CASE joinConversation(c)
    <2> DEFINE st == Fresh(client[c].inc + 1)
               t == [st EXCEPT !.out = {KeyReqPkt(c, st)}]
    <2>1. st.inc = client[c].inc + 1 /\ st.isCreator = FALSE
      BY DEF Fresh
    <2>2. client[c].inc + 1 <= MaxStarts /\ Becomes(c, t, {}) /\ UNCHANGED <<members, creator>>
      BY <1>2, <2>1 DEF joinConversation
    <2>3. client[c].inc + 1 \in 0 .. MaxStarts /\ client[c].inc + 1 # 0
      BY <1>1, <2>2, KeysAssumption
    <2>4. TypedRec(c, st)
      BY <2>3, FreshTyped
    <2> HIDE DEF st
    <2>5. \A m \in {KeyReqPkt(c, st)} : TypedPacket(m)
      BY <2>1, <2>3, KeyReqTyped
    <2>6. TypedRec(c, t) /\ t.isCreator = FALSE
      BY <2>1, <2>4, <2>5, OutTyped
    <2> HIDE DEF t
    <2> QED BY <2>2, <2>6, BecomesTyped
  <1>3. CASE RetryJoin(c)
    <2> DEFINE st == [client[c] EXCEPT !.joins = @ - 1]
               t == [st EXCEPT !.out = {KeyReqPkt(c, st)}]
    <2>1. client[c].joins > 0 /\ Becomes(c, t, {}) /\ UNCHANGED <<members, creator>>
      BY <1>3 DEF RetryJoin
    <2>2. /\ st = [f \in Field |-> st[f]] /\ st.joins = client[c].joins - 1
          /\ \A f \in Field \ {"joins"} : st[f] = client[c][f]
      BY <1>1 DEF TypedRec, Rec, Field
    <2> HIDE DEF st
    <2>3. /\ st.inc = client[c].inc /\ st.up = client[c].up /\ st.linked = client[c].linked /\ st.roster = client[c].roster
          /\ st.isCreator = client[c].isCreator /\ st.epoch = client[c].epoch /\ st.roomKeys = client[c].roomKeys
          /\ st.senderChains = client[c].senderChains /\ st.inits = client[c].inits /\ st.rekeyTimer = client[c].rekeyTimer
          /\ st.retries = client[c].retries /\ st.out = client[c].out /\ st.sharedWith = client[c].sharedWith
          /\ st.chainSharedWith = client[c].chainSharedWith
      BY <2>2 DEF Field
    <2>4. st.joins \in 0 .. JOIN_RETRIES
      BY <1>1, <2>1, <2>2, KeysAssumption
    <2>5. Rec(st)
      BY <1>1, <2>2, <2>3 DEF TypedRec, Rec
    <2>6. TypedRec(c, st)
      BY <1>1, <2>3, <2>4, <2>5 DEF TypedRec
    <2>9. \A m \in {KeyReqPkt(c, st)} : TypedPacket(m)
      BY <1>1, <2>3, KeyReqTyped
    <2>7. TypedRec(c, t) /\ t.isCreator = client[c].isCreator /\ t.epoch = client[c].epoch
      <3>1. TypedRec(c, t) /\ t.isCreator = st.isCreator /\ t.epoch = st.epoch
        BY <2>6, <2>9, OutTyped, Zenon
      <3> HIDE DEF t
      <3> QED BY <2>3, <3>1
    <2> HIDE DEF t
    <2>8. t.isCreator => t.epoch # 0
      BY <2>7 DEF TypeInv
    <2> QED BY <2>1, <2>7, <2>8, BecomesTyped
  <1> QED BY <1>2, <1>3

LEMMA RetryShareTyped ==
  ASSUME RoleInv, TypeInv, NEW c \in Member, NEW job \in client[c].retries, RetryShare(c, job)
  PROVE  TypeInv'
  <1> DEFINE rest == client[c].retries \ {job}
             again == IF job.left > 1 THEN {[job EXCEPT !.left = @ - 1]} ELSE {}
             out == Round(c, client[c], job)
             a == [client[c] EXCEPT !.retries = rest \union again]
             t == [client[c] EXCEPT !.retries = rest \union again, !.out = out]
  <1>1. Becomes(c, t, {}) /\ UNCHANGED <<members, creator>>
    BY DEF RetryShare
  <1>2. TypedRec(c, client[c]) /\ TypedJob(job) /\ (client[c].isCreator => client[c].epoch # 0)
    BY DEF TypeInv, TypedRec
  <1>3. \A j \in again : TypedJob(j)
    BY <1>2 DEF TypedJob, Job
  <1>4. \A m \in out : TypedPacket(m)
    BY <1>2 DEF Round, TypedJob, Job, TypedPacket
  <1> HIDE DEF again, out
  <1>5. /\ t = [f \in Field |-> t[f]] /\ t.out = out /\ t.retries = rest \union again
        /\ \A f \in Field \ {"out", "retries"} : t[f] = client[c][f]
    BY <1>2 DEF TypedRec, Rec, Field
  <1> HIDE DEF t
  <1>6. /\ t.inc = client[c].inc /\ t.up = client[c].up /\ t.linked = client[c].linked /\ t.roster = client[c].roster
        /\ t.isCreator = client[c].isCreator /\ t.epoch = client[c].epoch /\ t.roomKeys = client[c].roomKeys
        /\ t.senderChains = client[c].senderChains /\ t.inits = client[c].inits /\ t.rekeyTimer = client[c].rekeyTimer
        /\ t.joins = client[c].joins /\ t.sharedWith = client[c].sharedWith
        /\ t.chainSharedWith = client[c].chainSharedWith
    BY <1>5 DEF Field
  <1>7. \A j \in t.retries : TypedJob(j)
    BY <1>2, <1>3, <1>5 DEF TypedRec
  <1>8. Rec(t)
    BY <1>2, <1>5, <1>6, <1>7 DEF TypedRec, Rec, TypedJob
  <1>9. TypedRec(c, t)
    BY <1>2, <1>4, <1>5, <1>6, <1>7, <1>8 DEF TypedRec
  <1> QED BY <1>1, <1>2, <1>6, <1>9, BecomesTyped

LEMMA RekeyTimerTyped ==
  ASSUME RoleInv, TypeInv, NEW c \in Member, RekeyTimer(c)
  PROVE  TypeInv'
  <1> DEFINE st == client[c]
             fired == [st EXCEPT !.rekeyTimer = FALSE]
             t == rekey(c, fired)
  <1>1. Becomes(c, t, {}) /\ UNCHANGED <<members, creator>> /\ st.up /\ MayAdopt(st)
    BY DEF RekeyTimer
  <1>2. TypedRec(c, st) /\ (st.isCreator => st.epoch # 0)
    BY DEF TypeInv
  <1>3. TypedRec(c, fired) /\ Kept(st, fired) /\ SameKeys(st, fired)
    BY <1>2, TimerTyped
  <1> HIDE DEF fired, st
  <1>4. Rec(fired) /\ fired.epoch \in Nat
    BY <1>3 DEF TypedRec, Rec
  <1>5. fired.up /\ MayAdopt(fired)
    BY <1>1, <1>3 DEF MayAdopt, Kept, SameKeys
  <1>6. TypedRec(c, t)
    BY <1>3, <1>5, RekeyTyped
  <1>7. PICK e \in Nat : e >= fired.epoch /\ SameRole(fired, t, e)
    BY <1>4, RekeyRole
  <1> HIDE DEF t
  <1>8. t.isCreator = st.isCreator /\ t.epoch = e /\ fired.epoch = st.epoch
    BY <1>3, <1>7 DEF SameRole, Kept, SameKeys
  <1>9. t.isCreator => t.epoch # 0
    BY <1>2, <1>4, <1>7, <1>8
  <1> QED BY <1>1, <1>6, <1>9, BecomesTyped

LEMMA HandleTyped ==
  ASSUME RoleInv, TypeInv, NEW c \in Member, NEW m \in net, Handle(c, m)
  PROVE  TypeInv'
  <1> DEFINE st == client[c]
  <1>1. TypedRec(c, st) /\ (st.isCreator => st.epoch # 0) /\ TypedPacket(m) /\ UNCHANGED <<members, creator>>
    BY DEF TypeInv, Handle, handleMemberInfo, handleKeyShare, handleChainShare
  <1>2. CASE Becomes(c, st, {m})
    BY <1>1, <1>2, BecomesTyped
  <1>3. CASE handleMemberInfo(c, m) /\ ~Becomes(c, st, {m})
    <2>1. /\ m.type = "MEMBER_INFO" /\ m.to = c /\ st.up /\ Becomes(c, AfterMemberInfo(c, m), {m})
          /\ m.creator /\ ~st.isCreator => MayAdopt(st)
      BY <1>3 DEF handleMemberInfo
    <2>2. m.roster \in [Member -> 0 .. MaxStarts]
      BY <1>1, <2>1 DEF TypedPacket
    <2>3. m.creator \in BOOLEAN
      BY <2>1 DEF RoleInv, SoundPacket
    <2>5. InfoDue(c, st, m)
      BY <1>1, <2>1, <2>2, <2>3 DEF InfoDue
    <2>4. TypedRec(c, AfterMemberInfo(c, m)) /\ (AfterMemberInfo(c, m).isCreator => AfterMemberInfo(c, m).epoch # 0)
      BY <2>5, MemberInfoTyped
    <2> QED BY <1>1, <2>1, <2>4, BecomesTyped
  <1>4. CASE handleKeyShare(c, m) /\ ~Becomes(c, st, {m})
    <2> DEFINE t == adoptKey(c, st, m.epoch, m.key)
    <2>1. m.type = "KEY_SHARE" /\ st.up /\ st.inits < MaxInits /\ Becomes(c, t, {m})
      BY <1>4 DEF handleKeyShare
    <2>2. m.epoch \in Epoch /\ m.key \in Key /\ m.epoch \in Nat /\ m.epoch # 0
      <3>1. m.epoch \in Epoch /\ m.key \in Key
        BY <1>1, <2>1 DEF TypedPacket
      <3>2. MaxEpoch \in Nat
        BY KeysAssumption
      <3> QED BY <3>1, <3>2 DEF Epoch
    <2>3. TypedRec(c, t)
      BY <1>1, <2>1, <2>2, AdoptKeyTyped
    <2>4. SameRole(st, t, m.epoch)
      BY <1>1, <2>2, AdoptKeyRole DEF TypedRec
    <2> HIDE DEF t, st
    <2>5. t.epoch # 0
      BY <2>2, <2>4 DEF SameRole
    <2> QED BY <1>1, <2>1, <2>3, <2>5, BecomesTyped
  <1>5. CASE handleChainShare(c, m) /\ ~Becomes(c, st, {m})
    <2> DEFINE t == [st EXCEPT !.senderChains[m.epoch][m.from] = m.seed]
    <2>1. m.type = "CHAIN_SHARE" /\ Becomes(c, t, {m})
      BY <1>5 DEF handleChainShare
    <2>2. m.epoch \in Epoch /\ m.from \in Member /\ m.seed \in Seed
      BY <1>1, <2>1 DEF TypedPacket
    <2>3. /\ t = [f \in Field |-> t[f]] /\ t.senderChains = [st.senderChains EXCEPT ![m.epoch][m.from] = m.seed]
          /\ t.inc = st.inc /\ t.up = st.up /\ t.linked = st.linked /\ t.roster = st.roster
          /\ t.isCreator = st.isCreator /\ t.epoch = st.epoch /\ t.roomKeys = st.roomKeys
          /\ t.inits = st.inits /\ t.joins = st.joins /\ t.rekeyTimer = st.rekeyTimer
          /\ t.retries = st.retries /\ t.out = st.out /\ t.sharedWith = st.sharedWith
          /\ t.chainSharedWith = st.chainSharedWith
      BY <1>1 DEF TypedRec, Rec, Field
    <2> HIDE DEF t, st
    <2>4. t.senderChains \in [Epoch -> [Member -> Seed]]
      <3>1. st.senderChains \in [Epoch -> [Member -> Seed]]
        BY <1>1 DEF TypedRec
      <3> QED BY <2>2, <2>3, <3>1
    <2>5. Rec(t)
      BY <1>1, <2>3 DEF TypedRec, Rec
    <2>6. TypedRec(c, t)
      BY <1>1, <2>3, <2>4, <2>5 DEF TypedRec
    <2> QED BY <1>1, <2>1, <2>3, <2>6, BecomesTyped
  <1> QED BY <1>2, <1>3, <1>4, <1>5 DEF Handle

LEMMA RelayTyped ==
  ASSUME RoleInv, TypeInv, NEW m \in net, RelayKeyReq(m)
  PROVE  TypeInv'
  <1>1. m.from \in Member /\ m.pub \in 0 .. MaxStarts
    BY DEF TypeInv, TypedPacket, RelayKeyReq
  <1>2. /\ client' = client /\ members' = [members EXCEPT ![m.from] = m.pub]
        /\ net' = (net \ {m}) \union notifyMembers(members', creator')
        /\ creator' \in {m.from, creator}
    BY DEF RelayKeyReq, CreatorOnKeyReq
  <1>3. members' \in [Member -> 0 .. MaxStarts] /\ creator' \in Member \union {NoOne}
    BY <1>1, <1>2 DEF TypeInv
  <1>4. \A n \in net' : TypedPacket(n)
    BY <1>2, <1>3, NotifyTyped DEF TypeInv
  <1> QED BY <1>2, <1>3, <1>4 DEF TypeInv

LEMMA LeaveTyped ==
  ASSUME RoleInv, TypeInv, NEW c \in Member, Leave(c) \/ disableFallback(c)
  PROVE  TypeInv'
  <1>1. TypedRec(c, client[c]) /\ (client[c].isCreator => client[c].epoch # 0) /\ client[c].inc \in 0 .. MaxStarts
        /\ client[c].out = {}
    BY DEF TypeInv, TypedRec
  <1>2. PICK st : TypedRec(c, st) /\ (st.isCreator => st.epoch # 0) /\ st.out = {} /\ removePeer(c, st)
    <2>1. CASE Leave(c)
      <3>1. removePeer(c, Down(client[c].inc))
        BY <2>1 DEF Leave
      <3>2. TypedRec(c, Down(client[c].inc)) /\ Down(client[c].inc).isCreator = FALSE /\ Down(client[c].inc).out = {}
        BY <1>1, FreshTyped, DownFacts
      <3> QED BY <3>1, <3>2
    <2>2. CASE disableFallback(c)
      <3> DEFINE st == [client[c] EXCEPT !.linked = FALSE]
      <3>1. removePeer(c, st)
        BY <2>2 DEF disableFallback
      <3>2. /\ st = [f \in Field |-> st[f]] /\ st.linked = FALSE
            /\ st.inc = client[c].inc /\ st.up = client[c].up /\ st.roster = client[c].roster
            /\ st.isCreator = client[c].isCreator /\ st.epoch = client[c].epoch /\ st.roomKeys = client[c].roomKeys
            /\ st.senderChains = client[c].senderChains /\ st.inits = client[c].inits /\ st.joins = client[c].joins
            /\ st.rekeyTimer = client[c].rekeyTimer
            /\ st.retries = client[c].retries /\ st.out = client[c].out /\ st.sharedWith = client[c].sharedWith
            /\ st.chainSharedWith = client[c].chainSharedWith
        BY <1>1 DEF TypedRec, Rec, Field
      <3> HIDE DEF st
      <3>3. Rec(st)
        BY <1>1, <3>2 DEF TypedRec, Rec
      <3>4. TypedRec(c, st)
        BY <1>1, <3>2, <3>3 DEF TypedRec
      <3> QED BY <1>1, <3>1, <3>2, <3>4
    <2> QED BY <2>1, <2>2
  <1>3. /\ client' = [client EXCEPT ![c] = st] /\ members' = [members EXCEPT ![c] = 0]
        /\ net' = net \union notifyMembers(members', creator')
        /\ creator' = IF creator = c THEN successor({m \in Member \ {c} : members[m] # 0}) ELSE creator
    BY <1>2 DEF removePeer
  <1>4. \A d \in Member : TypedRec(d, client'[d]) /\ client'[d].out = {} /\ (client'[d].isCreator => client'[d].epoch # 0)
    BY <1>2, <1>3 DEF TypeInv, RoleInv
  <1>5. members' \in [Member -> 0 .. MaxStarts]
    <2>1. 0 \in 0 .. MaxStarts
      BY KeysAssumption
    <2> QED BY <1>3, <2>1 DEF TypeInv
  <1>6. creator' \in Member \union {NoOne}
    <2> DEFINE left == {m \in Member \ {c} : members[m] # 0}
    <2>1. left \subseteq Nat /\ left \subseteq Member
      BY KeysAssumption
    <2>2. left # {} => \E m \in left : \A n \in left : m <= n
      BY <2>1, SmallestId
    <2> HIDE DEF left
    <2>3. successor(left) \in Member \union {NoOne}
      BY <2>1, <2>2 DEF successor
    <2> QED BY <1>3, <2>3 DEF TypeInv, left
  <1>7. \A n \in net' : TypedPacket(n)
    BY <1>3, <1>5, NotifyTyped DEF TypeInv
  <1> QED BY <1>4, <1>5, <1>6, <1>7 DEF TypeInv

LEMMA TypeStep ==
  ASSUME RoleInv, TypeInv, [Next]_vars
  PROVE  TypeInv'
  <1>1. ASSUME NEW c \in Member, joinConversation(c) \/ RetryJoin(c) \/ RekeyTimer(c) \/ Leave(c) \/ disableFallback(c)
        PROVE  TypeInv'
    BY <1>1, JoinTyped, RekeyTimerTyped, LeaveTyped
  <1>2. ASSUME NEW c \in Member, NEW job \in client[c].retries, RetryShare(c, job)
        PROVE  TypeInv'
    BY <1>2, RetryShareTyped
  <1>3. ASSUME NEW m \in net, RelayKeyReq(m)
        PROVE  TypeInv'
    BY <1>3, RelayTyped
  <1>4. ASSUME UNCHANGED <<client, members, creator>>, net' \subseteq net
        PROVE  TypeInv'
    BY <1>4 DEF TypeInv
  <1>5. ASSUME NEW m \in net, NEW c \in Member, Handle(c, m)
        PROVE  TypeInv'
    BY <1>5, HandleTyped
  <1>6. ASSUME NEW m \in net, Lose(m)
        PROVE  TypeInv'
    BY <1>4, <1>6 DEF Lose
  <1>7. CASE UNCHANGED vars
    BY <1>4, <1>7 DEF vars
  <1> QED BY <1>1, <1>2, <1>3, <1>5, <1>6, <1>7 DEF Next

LEMMA TypeInvAlways == Spec => []TypeInv
  <1>1. Init => TypeInv
    <2> SUFFICES ASSUME Init PROVE TypeInv
      OBVIOUS
    <2>1. 0 \in 0 .. MaxStarts
      BY KeysAssumption
    <2>2. ASSUME NEW c \in Member
          PROVE  TypedRec(c, client[c]) /\ client[c].out = {} /\ client[c].isCreator = FALSE
      <3>1. client[c] = Down(0)
        BY DEF Init
      <3> QED BY <2>1, <3>1, FreshTyped, DownFacts
    <2>3. members \in [Member -> 0 .. MaxStarts] /\ creator = NoOne /\ net = {}
      BY <2>1 DEF Init, NoRoster
    <2> QED BY <2>2, <2>3 DEF TypeInv
  <1> QED BY <1>1, TypeStep, RoleInvAlways, PTL DEF Spec

\* The clients' maps hold what their declarations say, for every bound.
THEOREM TypeCorrect == Spec => []TypeOK
  BY TypeInvAlways, TypeInvGivesTypeOK, PTL
=============================================================================
