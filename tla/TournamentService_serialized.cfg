\* Three calls on one tournament and one player, every repository and
\* provider call may fail; calls on one tournament are serialized.
CONSTANTS
    Tids = {t1}
    Players = {p1}
    Calls = {c1, c2, c3}
    Counts <- MCCounts
    RepoFaults = TRUE
    ProviderFaults = TRUE
    Serialized = TRUE
SPECIFICATION Spec
INVARIANTS TypeOK LocalCoversRemote RemoteImpliesLocal
SYMMETRY Symmetry
