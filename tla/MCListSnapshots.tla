-------------------------- MODULE MCListSnapshots --------------------------
(* Three rows, two of them with the same key, and two readers. *)
EXTENDS ListSnapshots
Symmetry == Permutations(Readers)
Keys == 1 :> 1 @@ 2 :> 1 @@ 3 :> 2
=============================================================================
