------------------------------ MODULE MCBattleApi ------------------------------
(* Model-checking instance of BattleApi: requests are model values. *)
EXTENDS BattleApi, TLC

\* Requests are interchangeable.
Symmetry == Permutations(Requests)

=============================================================================
