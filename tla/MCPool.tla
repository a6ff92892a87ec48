------------------------------- MODULE MCPool -------------------------------
(* Pool for TLC: its users are interchangeable. *)
EXTENDS Pool, TLC

Symmetry == Permutations(Users)

=============================================================================
