------------------------ MODULE MCTournamentService ------------------------
EXTENDS TournamentService, TLC

\* Attempt counts around the boundary of AddAttempt's count check.
MCCounts == -1..2

\* Calls and tournament ids are interchangeable model values.
Symmetry == Permutations(Calls) \cup Permutations(Tids)

=============================================================================
