CONSTANTS
    Request = {r1}
    MaxLength = 4
    MaxBytes = 2
    MaxLines = 2
    None = None
SPECIFICATION Spec
INVARIANTS TailIsNewest
PROPERTIES StopIsHonoured AcceptedIsAnswered
