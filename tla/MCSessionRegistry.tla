--------------------------- MODULE MCSessionRegistry ---------------------------
(* Small instances of SessionRegistry for TLC.                              *)
EXTENDS SessionRegistry, TLC

Symmetric == Permutations(Instance) \cup Permutations(Stream)
SymmetricInstances == Permutations(Instance)

Generations == {1, 2}
OneGeneration == {1}
=============================================================================
