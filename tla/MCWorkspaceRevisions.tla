------------------------ MODULE MCWorkspaceRevisions ------------------------
(* Instances of WorkspaceRevisions for TLC. *)
EXTENDS WorkspaceRevisions, TLC

\* Files and restore requests are only compared with each other.
Symmetry == Permutations(Files) \union Permutations(Restores)
=============================================================================
