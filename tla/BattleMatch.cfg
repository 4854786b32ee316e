CONSTANTS
    Presences = {p1, p2}
    EmptyAfter = 30
SPECIFICATION Spec

PROPERTIES EmptyMatchEnds
