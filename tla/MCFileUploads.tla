---------------------------- MODULE MCFileUploads ----------------------------
(* Small instances of FileUploads for TLC. *)
EXTENDS FileUploads, TLC

\* Uploads, names and listings are interchangeable.
Symmetry == Permutations(Uploads) \cup Permutations(Names) \cup Permutations(Listings)
=============================================================================
