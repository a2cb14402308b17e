------------------------ MODULE LossyDeliveryProofs -------------------------
(***************************************************************************)
(* What LossyDelivery, which NativeStream implements, guarantees a reader  *)
(* of the command-line client, for any receivers and any number of         *)
(* messages.                                                               *)
(***************************************************************************)
EXTENDS LossyDelivery, TLAPS

\* A receiver's application is never handed a message twice, or after a later
\* one, and never one its stream has not reached.
NeverBack ==
  \A r \in Receiver :
    /\ \A i, j \in 1 .. Len(handed[r]) : i < j => handed[r][i] < handed[r][j]
    /\ \A i \in 1 .. Len(handed[r]) : handed[r][i] <= position[r]

TypeOK ==
  /\ sent \in Nat
  /\ position \in [Receiver -> Nat]
  /\ handed \in [Receiver -> Seq(Nat)]

IInv == TypeOK /\ NeverBack

\* The stream starts with nothing handed up.
LEMMA InitInv == ASSUME Prior \in Nat PROVE Init => IInv
  BY DEF Init, IInv, TypeOK, NeverBack

\* Two numbers on either side of a third.
LEMMA Between == \A a, b, m \in Nat : a <= m /\ m + 1 <= b => a < b
  OBVIOUS

\* Numbers above the position continue a rising sequence below it.
LEMMA ContinuesRising ==
  ASSUME NEW old \in Seq(Nat), NEW new \in Seq(Nat), NEW at \in Nat, NEW to \in Nat, at < to,
         \A i, j \in 1 .. Len(old) : i < j => old[i] < old[j],
         \A i \in 1 .. Len(old) : old[i] <= at,
         Continues(old, new, at + 1, to)
  PROVE  /\ \A i, j \in 1 .. Len(new) : i < j => new[i] < new[j]
         /\ \A i \in 1 .. Len(new) : new[i] <= to
<1>1. Len(old) \in Nat /\ Len(new) \in Nat /\ Len(old) <= Len(new)
  BY DEF Continues
<1>2. ASSUME NEW i \in 1 .. Len(new) PROVE new[i] \in Nat
  OBVIOUS
<1>3. ASSUME NEW i \in 1 .. Len(old) PROVE i \in 1 .. Len(new) /\ new[i] = old[i] /\ old[i] <= at
  BY <1>1 DEF Continues
<1>4. ASSUME NEW i \in Len(old) + 1 .. Len(new) PROVE i \in 1 .. Len(new) /\ at + 1 <= new[i] /\ new[i] <= to
  BY <1>1 DEF Continues
<1>5. ASSUME NEW i \in 1 .. Len(new) PROVE i \in 1 .. Len(old) \/ i \in Len(old) + 1 .. Len(new)
  BY <1>1
<1>6. ASSUME NEW i \in 1 .. Len(new) PROVE new[i] <= to
  <2>1. CASE i \in 1 .. Len(old)
    <3>1. new[i] \in Nat
      BY <1>2
    <3>2. new[i] <= at
      BY <1>3, <2>1
    <3> QED BY <3>1, <3>2
  <2>2. CASE i \in Len(old) + 1 .. Len(new)
    BY <1>4, <2>2
  <2> QED BY <1>5, <2>1, <2>2
<1>7. ASSUME NEW i \in 1 .. Len(new), NEW j \in 1 .. Len(new), i < j PROVE new[i] < new[j]
  <2>1. CASE i \in 1 .. Len(old) /\ j \in 1 .. Len(old)
    BY <1>3, <1>7, <2>1
  <2>2. CASE i \in 1 .. Len(old) /\ j \in Len(old) + 1 .. Len(new)
    <3>1. new[i] \in Nat /\ new[j] \in Nat
      BY <1>2
    <3>2. new[i] <= at /\ at + 1 <= new[j]
      BY <1>3, <1>4, <2>2
    <3> QED BY <3>1, <3>2, Between
  <2>3. CASE i \in Len(old) + 1 .. Len(new)
    <3>1. j \in Len(old) + 1 .. Len(new)
      BY <1>1, <1>7, <2>3
    <3> QED BY <1>7, <2>3, <3>1 DEF Continues
  <2> QED BY <1>5, <2>1, <2>2, <2>3
<1> QED BY <1>6, <1>7

\* Neither sending nor advancing disturbs what a receiver was promised.
LEMMA NextInv == IInv /\ [Next]_vars => IInv'
<1> SUFFICES ASSUME IInv, [Next]_vars PROVE IInv'
  OBVIOUS
<1>1. CASE Send
  BY <1>1 DEF Send, IInv, TypeOK, NeverBack
<1>2. ASSUME NEW r \in Receiver, NEW to \in position[r] + 1 .. sent, Advance(r, to) PROVE IInv'
  <2>1. position[r] \in Nat /\ to \in Nat /\ position[r] < to
    BY <1>2 DEF IInv, TypeOK
  <2>2. TypeOK'
    BY <1>2, <2>1 DEF Advance, IInv, TypeOK
  <2>3. /\ \A i, j \in 1 .. Len(handed'[r]) : i < j => handed'[r][i] < handed'[r][j]
        /\ \A i \in 1 .. Len(handed'[r]) : handed'[r][i] <= to
    <3>1. handed[r] \in Seq(Nat) /\ handed'[r] \in Seq(Nat)
      BY <2>2 DEF IInv, TypeOK
    <3>2. Continues(handed[r], handed'[r], position[r] + 1, to)
      BY <1>2 DEF Advance
    <3>3. /\ \A i, j \in 1 .. Len(handed[r]) : i < j => handed[r][i] < handed[r][j]
          /\ \A i \in 1 .. Len(handed[r]) : handed[r][i] <= position[r]
      BY DEF IInv, NeverBack
    <3> HIDE DEF IInv
    <3> QED BY <2>1, <3>1, <3>2, <3>3, ContinuesRising
  <2>4. position'[r] = to
    BY <1>2 DEF Advance, IInv, TypeOK
  <2>5. ASSUME NEW q \in Receiver, q # r PROVE position'[q] = position[q] /\ handed'[q] = handed[q]
    BY <1>2, <2>5 DEF Advance, IInv, TypeOK
  <2>6. NeverBack'
    BY <2>3, <2>4, <2>5 DEF IInv, NeverBack
  <2> QED BY <2>2, <2>6 DEF IInv
<1>3. CASE UNCHANGED vars
  BY <1>3 DEF vars, IInv, TypeOK, NeverBack
<1> QED BY <1>1, <1>2, <1>3 DEF Next

\* What giving up on gaps leaves of the promise: nothing twice, nothing late.
THEOREM NothingTwice == ASSUME Prior \in Nat PROVE Spec => []NeverBack
<1>1. Init => IInv
  BY InitInv
<1>2. IInv => NeverBack
  BY DEF IInv
<1> QED BY <1>1, <1>2, NextInv, PTL DEF Spec
=============================================================================
