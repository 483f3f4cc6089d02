SPECIFICATION Spec
CONSTANTS
    Sources <- MCSources
    Deps <- MCDeps
    Hashes = {h1, h2}
    None = None
SYMMETRY HashSymmetry
INVARIANTS
    InstalledMatchesLock
    NoneLost
    FailureKeepsInstalls
    FilesReadBack
PROPERTIES
    ImplementsStore
