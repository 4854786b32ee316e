\* Reliable repository and valid inputs; Enqueue may still fail.  Every
\* reserved key must reach completed or failed.
CONSTANTS
    Keys = {k1, k2}
    Reqs = {r1, r2, r3}
    StoreFaults = FALSE
    InvalidInputs = FALSE
    LateDelivery = FALSE
SPECIFICATION Spec
PROPERTIES
    IntakeResolves
