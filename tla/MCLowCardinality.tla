-------------------------- MODULE MCLowCardinality --------------------------
(* LowCardinality for TLC: the values other than the zero are interchangeable. *)
EXTENDS LowCardinality, TLC

Symmetry == Permutations(Vals \ {Zero})

=============================================================================
