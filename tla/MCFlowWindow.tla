---------------------------- MODULE MCFlowWindow ----------------------------
(* FlowWindow on a small instance: see the cfg files for the bounds.       *)
EXTENDS FlowWindow

=============================================================================
