CONSTANTS
    Callers = {c1, c2}
    Checker = hc
    Cooldown = 2
    Interval = 2
SPECIFICATION Spec
PROPERTIES
    RejectsAfterFailure
    Recovers
