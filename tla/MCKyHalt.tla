------------------------------ MODULE MCKyHalt ------------------------------
(***************************************************************************)
(* All console operations, with snapshots of up to two registers.          *)
(***************************************************************************)
EXTENDS KyHalt, TLC
=============================================================================
