-------------------------------- MODULE MCP2 --------------------------------
(* An instance of P2Polling for TLC.  The transport carries no user.       *)
EXTENDS P2Polling

MCUsers == {}
MCNoUser == ""
=============================================================================
