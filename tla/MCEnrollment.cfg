SPECIFICATION Spec
CONSTANTS
    MaxToken = 3
    MaxSerial = 3
    MaxAttempt = 4
    None = None
INVARIANTS TablesAgree TokenIssuesOnce RevokedWasNamed
PROPERTIES RevokedStaysRevoked
CHECK_DEADLOCK FALSE
