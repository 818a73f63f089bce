-------------------------------- MODULE MCUi --------------------------------
(* The web UI on small instances. *)
EXTENDS Ui, TLC

Symmetry == Permutations(ExId) \cup Permutations(Conv) \cup Permutations(Slot)
=============================================================================
