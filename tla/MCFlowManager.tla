---------------------------- MODULE MCFlowManager ----------------------------
(* Flow keys and callers are interchangeable: no action or property of        *)
(* FlowManager names one of them.                                             *)
EXTENDS FlowManager, TLC

Symmetry == Permutations(Keys) \cup Permutations(Threads)
=============================================================================
