\* Three overlapping calls on one tournament id; no failures: Create and
\* Delete of the same id run side by side.
CONSTANTS
    Tids = {t1}
    Players = {p1}
    Calls = {c1, c2, c3}
    Counts <- MCCounts
    RepoFaults = FALSE
    ProviderFaults = FALSE
    Serialized = FALSE
SPECIFICATION Spec
INVARIANTS RemoteImpliesLocal
SYMMETRY Symmetry
