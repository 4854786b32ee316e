\* Three concurrent StartBattle requests; CreateMatch and Save may fail or
\* time out after taking effect, and the provider may return a blank id.
CONSTANTS
    Requests = {r1, r2, r3}
    ProviderFaults = TRUE
    SaveFaults = TRUE
    EmptyIds = TRUE
SPECIFICATION Spec
INVARIANTS
    SavedBattleHasMatch
    AcceptedMeansRecorded
SYMMETRY Symmetry
