------------------------------ MODULE MCBridge ------------------------------
(* Instances of Bridge for TLC.                                            *)
EXTENDS Bridge

CONSTANTS s1, s2   \* two sessions of one client

=============================================================================
