------------------------------ MODULE MCDlLine ------------------------------
(* Two prompts that begin alike, with replies of two keys. *)
EXTENDS DlLine

MCPrompt == [date |-> <<"T", "d", "?">>, time |-> <<"T", "t", "?">>]
MCReply  == [date |-> <<"1", "cr">>, time |-> <<"2", "cr">>]
=============================================================================
