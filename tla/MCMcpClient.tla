----------------------------- MODULE MCMcpClient -----------------------------
(* Two workers on one server that may be started twice, a pool of two       *)
(* threads, and calls that may share a millisecond.  An execution begins     *)
(* only while fewer than three requests are sent, so that the last two may   *)
(* start the server or call it side by side.                                 *)
EXTENDS McpClient
=============================================================================
