-------------------------------- MODULE MCP4 --------------------------------
(* Instances of P4Streams for TLC.  The streams carry no user of their     *)
(* own.                                                                    *)
EXTENDS P4Streams, TLC

MCUsers == {}
MCNoUser == ""
MCConns == 1..3
MCConnsBreaks == 1..4
MCLoops == 1..2
MCLoopsBreaks == 1..4

Symmetry == Permutations(Tasks) \cup Permutations(Workers)
=============================================================================
