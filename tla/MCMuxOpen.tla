----------------------------- MODULE MCMuxOpen ------------------------------
(* MuxOpen on a small instance: see the cfg file.                          *)
EXTENDS MuxOpen

=============================================================================
