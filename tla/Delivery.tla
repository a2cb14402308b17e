------------------------------ MODULE Delivery ------------------------------
(***************************************************************************)
(* What a sender's stream promises its group, whatever the network does:   *)
(* a receiver is handed consecutive messages of that sender, each one once *)
(* and unaltered, starting with the first message after it joined the      *)
(* stream.  Nothing is promised about where a newcomer starts.             *)
(***************************************************************************)
EXTENDS Integers, Sequences

CONSTANTS Receiver, Newcomer, Prior

VARIABLES sends,      \* messages the sender has numbered
          delivered   \* per receiver, the messages handed to its application

Init ==
  /\ sends = Prior
  /\ delivered = [r \in Receiver |-> <<>>]

Send ==
  /\ sends' = sends + 1
  /\ UNCHANGED delivered

Starts(r) ==
  CASE delivered[r] # <<>> -> {delivered[r][Len(delivered[r])] + 1}
    [] delivered[r] = <<>> /\ r \in Newcomer -> 1 .. sends
    [] OTHER -> {Prior + 1}

\* One packet can release a run of packets that were waiting for it.
Deliver(r) ==
  /\ \E from \in Starts(r) : \E to \in from .. sends :
       delivered' = [delivered EXCEPT ![r] = @ \o [i \in 1 .. to - from + 1 |-> from + i - 1]]
  /\ UNCHANGED sends

Next == Send \/ \E r \in Receiver : Deliver(r)

Spec == Init /\ [][Next]_<<sends, delivered>>
=============================================================================
