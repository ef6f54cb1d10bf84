------------------------------ MODULE MCEscrow ------------------------------
(* Escrow on a small instance: ids of orders and requests are interchangeable. *)
EXTENDS Escrow, TLC

Symmetry == Permutations(Orders) \cup Permutations(Calls)

=============================================================================
