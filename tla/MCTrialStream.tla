--------------------------- MODULE MCTrialStream ----------------------------
(* Two trials after a priming batch and one failure; or one trial, primed or *)
(* on connections as they come, for a target that may kill each of them.    *)
EXTENDS TrialStream
MCRuns == {[trials |-> 2, warmup |-> 1, faults |-> 1],
           [trials |-> 1, warmup |-> 1, faults |-> Unlimited],
           [trials |-> 1, warmup |-> 0, faults |-> Unlimited]}
=============================================================================
