-------------------------------- MODULE MCP1 --------------------------------
(* Instances of P1Channels for TLC: the anonymous user alone, or with one  *)
(* named user and a page of hers.                                          *)
EXTENDS P1Channels

MCUsers == {"alice"}
MCNoUsers == {}
MCNoUser == ""
MCNoPage == {}
MCOnePage == {"page_alice"}
MCClientUser == [c \in Clients |-> IF c = "page_alice" THEN "alice" ELSE ""]
=============================================================================
