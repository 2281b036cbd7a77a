------------------------- MODULE MCConnectionService -------------------------
(* TLC instance of ConnectionService, and the mutants of its properties. *)
EXTENDS ConnectionService, TLC

Symmetry == Permutations(Users) \cup Permutations(Handlers) \cup Permutations(RowIds)
=============================================================================
