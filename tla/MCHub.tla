-------------------------------- MODULE MCHub --------------------------------
(* The hub on small instances. *)
EXTENDS Hub, TLC

Symmetry == Permutations(Conn) \cup Permutations(Conv)
=============================================================================
