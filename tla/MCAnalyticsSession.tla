------------------------ MODULE MCAnalyticsSession -------------------------
EXTENDS AnalyticsSession, TLC

\* Calls (which also name the sessions they allocate) and users are
\* interchangeable model values.
Symmetry == Permutations(Calls) \cup Permutations(Users)

=============================================================================
