------------------------------ MODULE MCRhDisk ------------------------------
(* Two drives, two packs: an RP06 of 2 cylinders, and an RP04 of 1         *)
(* cylinder that is read only; 2 tracks of 2 sectors of 2 words each; the  *)
(* word counter counts modulo 8.                                           *)
EXTENDS RhDisk

CONSTANTS p6, p4
MCFiles == {p6, p4}
MCBig == {p6}
MCReadOnly == {p4}

MCAsks ==
  { [at |-> <<0, 1, 1>>, wc |-> 5, ba |-> 1, inh |-> FALSE],     \* over the end of a track and a cylinder
    [at |-> <<1, 1, 1>>, wc |-> 0, ba |-> 4, inh |-> TRUE] }     \* over the end of the pack
=============================================================================
