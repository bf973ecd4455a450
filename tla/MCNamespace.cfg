CONSTANTS
    Name = {a, b}
    MaxDepth = 2
    MaxFile = 2
    MaxEntries = 3
    Handle = {h1, h2}
    Faults = {"write", "marker"}
    None = None
SPECIFICATION Spec
INVARIANTS TreeIsRooted HandleKeepsFile IndexAgrees
SYMMETRY Symmetry
VIEW View
