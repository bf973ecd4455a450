SPECIFICATION Spec
CONSTANTS
    User = {u1}
    MaxGeneration = 2
    Letters = 2
    Preferred = 1
    None = None
    Torn = Torn
INVARIANTS KeyGoesToHost ReportedLetterIsReal OneKeyPerStore
PROPERTIES LogonReturns AbandonedHostLeaves Monitored
CHECK_DEADLOCK FALSE
