------------------------------ MODULE MCShmMS ------------------------------
(***************************************************************************)
(* A few clients and server incarnations on one drive.                     *)
(***************************************************************************)
EXTENDS ShmMS, TLC

CONSTANTS a, b, c3, s1, s2, s3

SymmetryC == Permutations({a, b})
=============================================================================
