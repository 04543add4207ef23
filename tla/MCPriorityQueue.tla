-------------------------- MODULE MCPriorityQueue --------------------------
(* PriorityQueue on a small instance: see the cfg files for the bounds.    *)
EXTENDS PriorityQueue

=============================================================================
