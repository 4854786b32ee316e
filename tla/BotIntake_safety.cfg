\* Three concurrent Handle calls over two keys; repository errors and blank
\* command ids possible; Enqueue either succeeds or fails cleanly.  The
\* intake also refines the abstract contract (BotIntakeContract).
CONSTANTS
    Keys = {k1, k2}
    Reqs = {r1, r2, r3}
    StoreFaults = TRUE
    InvalidInputs = TRUE
    LateDelivery = FALSE
SPECIFICATION Spec
INVARIANTS
    TypeOK
    AtMostOnceEnqueue
    AcceptedMeansEnqueued
PROPERTIES
    CompletedIsFinal
    ImplementsContract
