CONSTANTS
    Chunk = {z, a}
    Zero = z
    MaxChunks = 2
    MaxGeneration = 2
    MaxEvidence = 2
    None = None
    Torn = Torn
SPECIFICATION Spec
INVARIANT RetainsCommitted
