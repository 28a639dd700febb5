----------------------------- MODULE MCTsnLight -----------------------------
(* Two nodes that are monitored and one beyond the monitor's bound; packets
   of an imac below MAX_NODE_NUM that no node has, of MAX_NODE_NUM itself,
   and of one beyond. *)
EXTENDS TsnLight

MCNodes == 0 .. 2
=============================================================================
