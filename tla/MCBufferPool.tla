---------------------------- MODULE MCBufferPool ----------------------------
(* Small switches: one or two network ports and the host, a bufid offered to
   each first, and one more, parked or in the FIFO. *)
EXTENDS BufferPool, TLC

MCPorts == {0, 1, 8}
MCIds == 0 .. 3
MCFirstOffer == 0 :> 0 @@ 1 :> 1 @@ 8 :> 2

MCPortsLive == {0, 8}
MCIdsLive == 0 .. 2
MCFirstOfferLive == 0 :> 0 @@ 8 :> 1
=============================================================================
