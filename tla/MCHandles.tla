----------------------------- MODULE MCHandles -----------------------------
(***************************************************************************)
(* Small heaps; what the blocks and variables are called does not matter.  *)
(***************************************************************************)
EXTENDS Handles, TLC

Symmetry ==
  Permutations(Buffers) \cup Permutations(Vectors) \cup Permutations(Messages)
    \cup Permutations(Pointers)

=============================================================================
