SPECIFICATION Spec
CONSTANTS
    Session = {s1, s2}
    User = {u1, u2}
    MaxGeneration = 2
    MaxEvents = 3
    None = None
PROPERTY SessionsAreIsolated
CHECK_DEADLOCK FALSE
