SPECIFICATION Spec
CONSTANTS
    Conn = {c1, c2}
    MaxSerial = 2
    MaxSchema = 2
    MaxChange = 1
    None = None
INVARIANTS StartFailsClosed EffectIsAuthorized
PROPERTIES IssuedWasCorroborated ClientsAreTaken
