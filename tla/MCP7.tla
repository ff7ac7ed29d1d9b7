-------------------------------- MODULE MCP7 --------------------------------
(* An instance of P7Bootstrap for TLC.  Managers differ in nothing.        *)
EXTENDS P7Bootstrap, TLC

Symmetry == Permutations(Managers)
=============================================================================
