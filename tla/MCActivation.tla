----------------------------- MODULE MCActivation -----------------------------
(* Small instances of Activation for TLC.                                    *)
EXTENDS Activation, TLC

(* Versions are told apart by nothing but their identity.                     *)
Symmetry == Permutations(Version)
=============================================================================
