---------------------------- MODULE MCGroupApi ----------------------------
EXTENDS GroupApi, TLC

\* Concurrent requests are interchangeable model values.
Symmetry == Permutations(Requests)

=============================================================================
