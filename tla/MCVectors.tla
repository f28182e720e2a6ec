------------------------------ MODULE MCVectors ------------------------------
(***************************************************************************)
(* Vectors for TLC: no property is temporal and no definition tells two    *)
(* handles, indexes, keys, payloads or models apart.                       *)
(***************************************************************************)
EXTENDS Vectors, TLC

Symmetric ==
  Permutations(Handles) \cup Permutations(Indexes) \cup Permutations(Keys)
    \cup Permutations(Values) \cup Permutations(Models)
==============================================================================
