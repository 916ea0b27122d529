------------------------------- MODULE MCLink -------------------------------
(* TLC instances of Link. *)
EXTENDS Link, TLC

Symmetry == Permutations(Channels) \cup Permutations(Controls)
=============================================================================
