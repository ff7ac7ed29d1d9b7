-------------------------------- MODULE MCP6 --------------------------------
(* An instance of P6PubSub for TLC.  The transport carries no user.        *)
EXTENDS P6PubSub

MCUsers == {}
MCNoUser == ""
=============================================================================
