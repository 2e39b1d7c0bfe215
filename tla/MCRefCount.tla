----------------------------- MODULE MCRefCount -----------------------------
(***************************************************************************)
(* Instances of RefCount for TLC.  Threads, objects and slots are each     *)
(* interchangeable.                                                        *)
(***************************************************************************)
EXTENDS RefCountProofs, TLC

Symmetry == Permutations(Threads) \union Permutations(Objects) \union Permutations(Slots)
=============================================================================
