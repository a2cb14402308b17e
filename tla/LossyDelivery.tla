--------------------------- MODULE LossyDelivery ----------------------------
(***************************************************************************)
(* What a client that gives up on a gap after four seconds still promises: *)
(* each receiver moves forward through the sender's messages and never     *)
(* back, and is handed a message only on passing it, unaltered and in      *)
(* order.  What it passes without a hand-up it never gets.                 *)
(***************************************************************************)
EXTENDS Integers, Sequences

CONSTANTS Receiver, Prior

VARIABLES sent,       \* messages the sender has put on the wire
          position,   \* per receiver, the newest message handed up or given up
          handed      \* per receiver, the messages handed to its application

vars == <<sent, position, handed>>

Init ==
  /\ sent = Prior
  /\ position = [r \in Receiver |-> Prior]
  /\ handed = [r \in Receiver |-> <<>>]

Send ==
  /\ sent' \in Nat /\ sent' > sent
  /\ UNCHANGED <<position, handed>>

\* The sequence `new` is `old` followed by numbers from `from` to `to`, rising.
Continues(old, new, from, to) ==
  /\ Len(old) <= Len(new)
  /\ \A i \in 1 .. Len(old) : new[i] = old[i]
  /\ \A i \in Len(old) + 1 .. Len(new) : from <= new[i] /\ new[i] <= to
  /\ \A i, j \in Len(old) + 1 .. Len(new) : i < j => new[i] < new[j]

\* The messages up to `to` are passed; some of them are handed up.
Advance(r, to) ==
  /\ position' = [position EXCEPT ![r] = to]
  /\ handed' \in [Receiver -> Seq(Nat)]
  /\ \A q \in Receiver \ {r} : handed'[q] = handed[q]
  /\ Continues(handed[r], handed'[r], position[r] + 1, to)
  /\ UNCHANGED sent

Next == Send \/ \E r \in Receiver : \E to \in position[r] + 1 .. sent : Advance(r, to)

Spec == Init /\ [][Next]_vars
=============================================================================
