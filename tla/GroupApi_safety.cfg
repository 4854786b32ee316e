\* Three concurrent requests with every input shape, Nakama's CreateGroup
\* and Save failing or timing out, and SIGTERM at any point.
CONSTANTS
    Requests = {r1, r2, r3}
    ProviderFaults = TRUE
    SaveFaults = TRUE
    Signals = TRUE
    BlankNames = TRUE
SPECIFICATION Spec
INVARIANT CreatedMeansRecorded
SYMMETRY Symmetry
