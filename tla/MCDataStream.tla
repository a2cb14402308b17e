---------------------------- MODULE MCDataStream ----------------------------
(* Instances of DataStream for TLC; the .cfg files give the constants.     *)
EXTENDS DataStream, TLC

\* Receivers that all join at the same time are interchangeable.
ReceiverSymmetry == Permutations(Receiver)
=============================================================================
