--------------------------- MODULE MCRelayServer ----------------------------
(* Instances of RelayServer for TLC.  Member 1 has a UDP address and a TCP *)
(* one (the fallback of src/client.ts), members 2 and 3 a WebSocket each.  *)
EXTENDS RelayServer, TLC

MCOwner == ("udp1" :> 1) @@ ("tcp1" :> 1) @@ ("ws2" :> 2) @@ ("ws3" :> 3)
MCPeer == {"udp1", "tcp1", "ws2", "ws3"}
MCStream == {"tcp1", "ws2", "ws3"}

\* Two members who also send data.
MCDataOwner == ("udp1" :> 1) @@ ("tcp1" :> 1) @@ ("ws2" :> 2)
MCDataPeer == {"udp1", "tcp1", "ws2"}
MCDataStream == {"tcp1", "ws2"}
=============================================================================
