------------------------------- MODULE MCFolders -------------------------------
(* Small instances of Folders for TLC. *)
EXTENDS Folders, TLC

\* Ids are interchangeable.
Symmetry == Permutations(Folders) \cup Permutations(Files) \cup Permutations(Requests)
=============================================================================
