------------------------------ MODULE MCAuthLogin ------------------------------
(* Model-checking instance of AuthLogin: requests and players are model values. *)
EXTENDS AuthLogin, TLC

\* Requests are interchangeable, and so are players.
Symmetry == Permutations(Requests) \cup Permutations(Players)

=============================================================================
