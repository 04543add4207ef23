---------------------------- MODULE MCRecvQueue -----------------------------
(* RecvQueue on small instances: see the cfg files.                        *)
EXTENDS RecvQueue

=============================================================================
