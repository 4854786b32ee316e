----------------------- MODULE MCNakamaTournamentRpc -----------------------
EXTENDS NakamaTournamentRpc, TLC

\* Counts around the boundary of the zero and sign checks.
MCCounts == -1..1

\* Calls, uuids and owners are interchangeable model values.
Symmetry == Permutations(Calls) \cup Permutations(Tids) \cup Permutations(Owners)

=============================================================================
