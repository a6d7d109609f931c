------------------------------ MODULE MCKyDma ------------------------------
(***************************************************************************)
(* Two processes of one thread each, a word that reads with bad parity,    *)
(* and an address nothing answers to.                                     *)
(***************************************************************************)
EXTENDS KyDma, TLC

CONSTANTS p1, p2, t1, t2

MCPidOf == (t1 :> p1) @@ (t2 :> p2)
=============================================================================
