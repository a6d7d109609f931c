----------------------------- MODULE MCShmMutex -----------------------------
(***************************************************************************)
(* Two clients and a server with two threads (command and i/o thread).     *)
(***************************************************************************)
EXTENDS ShmMutex, TLC

CONSTANTS client1, client2, server, c1, c2, cmd, io

MCPidOf == (c1 :> client1) @@ (c2 :> client2) @@ (cmd :> server) @@ (io :> server)
=============================================================================
