--------------------------- MODULE MCTaskVersions ---------------------------
(* Instances of TaskVersions for TLC.                                      *)
EXTENDS TaskVersions, TLC

Interchangeable == Permutations(Handlers) \cup Permutations(Groups)
=============================================================================
