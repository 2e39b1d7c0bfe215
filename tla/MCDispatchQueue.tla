-------------------------- MODULE MCDispatchQueue --------------------------
(***************************************************************************)
(* Instances of DispatchQueue for TLC.  The clients other than the Owner   *)
(* are interchangeable, and so are the objects.                            *)
(***************************************************************************)
EXTENDS DispatchQueueProofs, TLC

Symmetry == Permutations(Clients \ {Owner}) \union Permutations(Tasks)
=============================================================================
