-------------------------------- MODULE MCP5 --------------------------------
(* An instance of P5Nats for TLC.  The transport carries no user.          *)
EXTENDS P5Nats

MCUsers == {}
MCNoUser == ""
=============================================================================
