------------------------------ MODULE MCVolume ------------------------------
(* Instances of Volume.                                                      *)
EXTENDS Volume, TLC

\* No name differs from another in what is done to it.
Symmetry == Permutations(Name)
=============================================================================
