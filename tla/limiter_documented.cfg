\* The documented rate against the code.
SPECIFICATION LimiterSpec
CONSTANTS
    Callers = {v1, v2, v3}
    Limit = 3
    Window = 4
SYMMETRY Symmetry
INVARIANTS DocumentedRate
