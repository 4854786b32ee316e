\* Two logins of one player, one at a time, against a stored account that
\* may be suspended; Nakama and the repository do not fail.
CONSTANTS
    Requests = {r1, r2}
    Players = {p1}
    NoAccount = NoAccount
    ProviderFaults = FALSE
    RepoFaults = FALSE
    SuspendedAccounts = TRUE
    Serialized = TRUE
SPECIFICATION Spec
INVARIANT NoLoginWhileSuspended
SYMMETRY Symmetry
