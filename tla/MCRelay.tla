------------------------------- MODULE MCRelay -------------------------------
(* An instance of EventRelay for TLC: one user, so no user is told apart.  *)
EXTENDS EventRelay

MCUsers == {}
MCNoUser == ""
=============================================================================
