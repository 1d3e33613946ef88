---------------------------- MODULE MCCondBuffer ----------------------------
(* Small instances of CondBuffer for TLC. *)
EXTENDS CondBuffer, TLC

\* Consumers run the same code, so safety runs may permute them.
Symmetry == Permutations(Consumers)
=============================================================================
