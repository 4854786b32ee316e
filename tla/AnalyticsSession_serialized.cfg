\* Four calls on two users through one shared tracker adapter; Segment may
\* reject or time out; calls on one user are serialized.
CONSTANTS
    Users = {u1, u2}
    Calls = {c1, c2, c3, c4}
    NoSession = NoSession
    DispatchFaults = TRUE
    PerCallRepo = FALSE
    Serialized = TRUE
SPECIFICATION Spec
INVARIANT AtMostOneEnd
SYMMETRY Symmetry
