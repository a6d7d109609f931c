---------------------------- MODULE MCTapeDrive ----------------------------
(* Two drives; one tape has a record and a mark on it, the other a mark    *)
(* and a record.                                                           *)
EXTENDS TapeDrive

McImages == {<<1, Word, 1, 0>>}
=============================================================================
