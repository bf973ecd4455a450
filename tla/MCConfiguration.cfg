SPECIFICATION Spec
CONSTANTS
    MaxVersion = 3
    Call = {c1, c2, c3, c4}
    MaxMounts = 1
    None = None
    Bad = Bad
SYMMETRY Symmetry
INVARIANTS SelectedIsStaged LkgIsOlder
PROPERTY VersionNeverGoesBack
