---------------------------- MODULE MCTalkerCache ----------------------------
(* Instances of TalkerCache for TLC. *)
EXTENDS TalkerCache

\* The host step, steered for a frame, where allocations may fail; and the
\* fused step of a caller that starts every request cold.
MCModes ==
    {[fused |-> FALSE, cold |-> FALSE, steer |-> 1, fails |-> f] : f \in BOOLEAN}
    \cup {[fused |-> TRUE, cold |-> TRUE, steer |-> 0, fails |-> FALSE]}
=============================================================================
