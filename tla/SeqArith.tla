------------------------------ MODULE SeqArith ------------------------------
(***************************************************************************)
(* The modular arithmetic on 24-bit sequence numbers that the server and   *)
(* every client share (src/core.ts).  The modulus is a parameter so that a *)
(* wrap is within reach of a small instance; the code has SEQ_MOD = 2^24.  *)
(***************************************************************************)
EXTENDS Integers

CONSTANT SEQ_MOD

ASSUME SeqModAssumption == SEQ_MOD \in Nat /\ SEQ_MOD > 3

Seq24 == 0 .. SEQ_MOD - 1

\* How many steps `to` lies beyond `from`, in 0 .. SEQ_MOD-1.
seqDelta(from, to) == (to - from) % SEQ_MOD

seqNextUnmasked(seq) == seq + 1

seqNext(seq) == (seq + 1) % SEQ_MOD

\* The verdicts every handler derives from a delta: 0 is a duplicate, half of
\* the number space or more is stale (behind), anything else is ahead.
IsStale(delta) == 2 * delta >= SEQ_MOD

IsAhead(delta) == delta > 0 /\ ~IsStale(delta)
=============================================================================
