-------------------------------- MODULE MCP3 --------------------------------
(* Instances of P3WebSocket for TLC: the anonymous user only, because the  *)
(* transport carries no user.                                              *)
EXTENDS P3WebSocket

MCUsers == {}
MCNoUser == ""

Symmetry == Permutations(Tasks) \cup Permutations(Workers) \cup Permutations(Conns \ Fragile)
=============================================================================
