----------------------------- MODULE MCGoRelay ------------------------------
(* An instance of GoRelay for TLC.  Member 1 has a UDP address and a TCP   *)
(* one, member 2 a WebSocket, member 3 a UDP address.                      *)
EXTENDS GoRelay, TLC

MCOwner == ("udp1" :> 1) @@ ("tcp1" :> 1) @@ ("ws2" :> 2) @@ ("udp3" :> 3)
MCPeer == {"udp1", "tcp1", "ws2", "udp3"}
MCStream == {"tcp1", "ws2"}

\* Goroutines differ only in the packet they handle.
Threads == Permutations(Thread)
=============================================================================
