------------------------------- MODULE Roster -------------------------------
(***************************************************************************)
(* What a relay promises about membership, without addresses, packets or   *)
(* threads: who is on a conversation's roster with which public key, and   *)
(* which member is its creator, who makes and rotates the group key.  The  *)
(* first to join creates the conversation.  Creatorship passes on only     *)
(* when the creator leaves, and then to the smallest remaining id.         *)
(***************************************************************************)
EXTENDS Naturals

CONSTANTS Conv, Sender, PubKey, NoOne, NoKey

VARIABLES members,   \* conv -> sender -> public key (NoKey: not a member)
          creator    \* conv -> sender (NoOne: no conversation)

vars == <<members, creator>>

MembersOf(c) == {s \in Sender : members[c][s] # NoKey}

Empty ==
  /\ members = [c \in Conv |-> [s \in Sender |-> NoKey]]
  /\ creator = [c \in Conv |-> NoOne]

\* A member joins, or comes back with a new key.
Join(c, s, k) ==
  /\ members' = [members EXCEPT ![c][s] = k]
  /\ creator' = [creator EXCEPT ![c] = IF MembersOf(c) = {} THEN s ELSE @]

Successor(c, s) ==
  LET left == MembersOf(c) \ {s}
  IN  CASE creator[c] # s -> creator[c]
        [] creator[c] = s /\ left = {} -> NoOne
        [] OTHER -> CHOOSE m \in left : \A n \in left : m <= n

\* A member leaves the conversations C together.
Leave(C, s) ==
  /\ members' = [c \in Conv |-> IF c \in C THEN [members[c] EXCEPT ![s] = NoKey] ELSE members[c]]
  /\ creator' = [c \in Conv |-> IF c \in C THEN Successor(c, s) ELSE creator[c]]

Next ==
  \/ \E c \in Conv, s \in Sender, k \in PubKey : Join(c, s, k)
  \/ \E C \in SUBSET Conv, s \in Sender : Leave(C, s)
  \/ Empty'     \* the relay stops

Spec == Empty /\ [][Next]_vars
=============================================================================
