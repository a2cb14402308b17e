--------------------------- MODULE MCNativeStream ---------------------------
(* Instances of NativeStream for TLC; the .cfg files give the constants.   *)
EXTENDS NativeStream, TLC

\* Receivers that all join at the same time are interchangeable.
ReceiverSymmetry == Permutations(Receiver)
=============================================================================
