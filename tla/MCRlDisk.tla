----------------------------- MODULE MCRlDisk -----------------------------
(***************************************************************************)
(* Two drives and two image files, named in the configurations.            *)
(***************************************************************************)
EXTENDS RlDisk
=============================================================================
