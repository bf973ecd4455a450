CONSTANTS
    Name = {a, b}
    MaxDepth = 1
    MaxFile = 1
    MaxEntries = 2
    Handle = {h1, h2}
    Context = {c1, c2}
    Faults = {"write", "marker"}
    None = None
SPECIFICATION DriveSpec
INVARIANTS ContextsHoldHandles
PROPERTIES WriteIsDurable
SYMMETRY Symmetry
VIEW View
