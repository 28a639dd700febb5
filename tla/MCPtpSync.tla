----------------------------- MODULE MCPtpSync -----------------------------
(* A small instance of PtpSync: two slaves, of which the entry check looks
   at one or at both, and offsets below both thresholds, between them, and
   above both. *)
EXTENDS PtpSync, TLC

MCOffsets == {0, 60, 120}
MCSymmetry == Permutations(Slaves)
=============================================================================
