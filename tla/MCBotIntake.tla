---------------------------- MODULE MCBotIntake ----------------------------
(* Model-checking instance of BotIntake: keys and requests are model values. *)
EXTENDS BotIntake, TLC

\* Keys and requests are interchangeable model values.
Symmetry == Permutations(Keys) \cup Permutations(Reqs)

=============================================================================
