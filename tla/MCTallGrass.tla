---------------------------- MODULE MCTallGrass ----------------------------
(* Instances of TallGrass for TLC. *)
EXTENDS TallGrassProofs, TLC

Simetria == Permutations(Pedido) \cup Permutations(Pokemon) \cup Permutations(Posicion)
=============================================================================
