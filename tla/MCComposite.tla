---------------------------- MODULE MCComposite -----------------------------
(* Composite for TLC. *)
EXTENDS Composite

=============================================================================
