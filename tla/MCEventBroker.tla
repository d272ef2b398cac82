---------------------------- MODULE MCEventBroker ----------------------------
(* EventBroker with one page, two publishers and two devices *)
EXTENDS EventBroker, TLC

Symmetry == Permutations(Publishers)
=============================================================================
