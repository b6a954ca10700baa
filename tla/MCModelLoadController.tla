------------------------ MODULE MCModelLoadController ------------------------
(* Loads of two models, with requests that may come at any time.            *)
EXTENDS ModelLoadController, TLC

Symmetry == Permutations(Identities) \cup Permutations(Requests)
==============================================================================
