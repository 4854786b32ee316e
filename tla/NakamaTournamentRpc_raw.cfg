\* Two concurrent RPCs of the registered raw set (tournament.go) over two
\* uuids and one owner, with counts -1..1; Nakama calls do not fail.
CONSTANTS
    Tids = {t1, t2}
    Owners = {o1}
    Counts <- MCCounts
    Calls = {c1, c2}
    RawRpcs = TRUE
    AdapterRpcs = FALSE
    NakamaFaults = FALSE
SPECIFICATION Spec
PROPERTY AttemptsOnlyGrow
SYMMETRY Symmetry
