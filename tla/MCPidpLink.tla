----------------------------- MODULE MCPidpLink -----------------------------
(* Instance of PidpLink.                                                   *)
EXTENDS PidpLink

\* START is pressed first, then CONTINUE.
StartThenContinue ==
  \A n \in DOMAIN keyof : keyof[n] = <<"STRT", "CONT">>[n]
=============================================================================
