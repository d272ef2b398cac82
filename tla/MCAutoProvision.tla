--------------------------- MODULE MCAutoProvision ---------------------------
(* AutoProvision with two boards, two threads, a customer and an          *)
(* administrator, restarts and failures unlimited.                         *)
EXTENDS AutoProvision, TLC

\* Tokens, AWS ids and threads are interchangeable.
Symmetry ==
    Permutations(Tokens) \cup Permutations(Wids) \cup Permutations(Requests)
=============================================================================
