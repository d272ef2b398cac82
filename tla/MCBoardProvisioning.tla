------------------------- MODULE MCBoardProvisioning -------------------------
(* Two boards with a device each; one slot more than flows that may overlap. *)
EXTENDS BoardProvisioning, TLC

CONSTANTS f1, f2, b1, b2, d1, d2

SlotSymmetry == Permutations(Flows)
OwnDevice == (b1 :> d1) @@ (b2 :> d2)
=============================================================================
