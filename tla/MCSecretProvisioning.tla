------------------------ MODULE MCSecretProvisioning ------------------------
(***************************************************************************)
(* Bounds for checking SecretProvisioning with TLC.                        *)
(***************************************************************************)
EXTENDS SecretProvisioning, TLC

\* A context is a number that nothing computes with: which of the free ones the
\* library takes makes no difference.
SlotSymmetry == Permutations(Slots)
=============================================================================
