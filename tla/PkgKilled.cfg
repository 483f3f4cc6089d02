SPECIFICATION Spec
CONSTANTS
    Sources <- MCSources
    Deps <- MCDeps
    Hashes = {h1, h2}
    None = None
INVARIANTS
    AtomicReplacement
