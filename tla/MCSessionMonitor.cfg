SPECIFICATION Spec
CONSTANTS
    Session = {s1, s2}
    User = {u1, u2}
    MaxGeneration = 3
    MaxEvents = 5
    None = None
INVARIANTS OneHostPerStore RuntimesMatchActors
PROPERTIES HostsFollowService LossIsNoticed
CHECK_DEADLOCK FALSE
