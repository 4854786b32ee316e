\* Reliable repository; a request may carry a blank command id.
CONSTANTS
    Keys = {k1, k2}
    Reqs = {r1, r2}
    StoreFaults = FALSE
    InvalidInputs = TRUE
    LateDelivery = FALSE
SPECIFICATION Spec
PROPERTIES
    IntakeResolves
