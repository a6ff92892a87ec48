------------------------------ MODULE MCClient ------------------------------
(* Client for TLC: the callers of a connection are interchangeable. *)
EXTENDS Client, TLC

Symmetry == Permutations(Callers)

\* Once a connection is suspect it stays so, and properties that speak of others
\* only need not be followed any further.
Unsuspected == ~suspect

=============================================================================
