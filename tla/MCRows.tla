------------------------------- MODULE MCRows -------------------------------
(***************************************************************************)
(* Rows and its refinement, for TLC.                                       *)
(***************************************************************************)
EXTENDS RowsRefinement, TLC

\* Files differ only in which of them is named and held: any permutation of
\* them is the same store directory (used by runs of invariants only).
FilesAlike == Permutations(Inodes)
=============================================================================
