----------------------------- MODULE MCKmWait -----------------------------
(***************************************************************************)
(* Two daemons with an interrupt of their own and a z11ctrl script that    *)
(* waits for either.                                                       *)
(***************************************************************************)
EXTENDS KmWait, TLC

CONSTANTS rl, tm, z11rl, z11tm, z11ctrl

MCMask == (z11rl :> {rl}) @@ (z11tm :> {tm}) @@ (z11ctrl :> {rl, tm})
=============================================================================
