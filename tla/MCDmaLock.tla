----------------------------- MODULE MCDmaLock -----------------------------
(***************************************************************************)
(* Three processes contend for the DMA circuit, one of them with two       *)
(* threads (as z11xe, whose transmit and receive threads share dmamutex).  *)
(***************************************************************************)
EXTENDS DmaLock, TLC

CONSTANTS p1, p2, p3, t1a, t1b, t2, t3

MCPidOf == (t1a :> p1) @@ (t1b :> p1) @@ (t2 :> p2) @@ (t3 :> p3)
=============================================================================
