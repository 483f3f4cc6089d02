SPECIFICATION Spec
CONSTANTS
    Sessions <- MCSessions
    MaxCallDepth = 3
INVARIANTS
    ImportsFinishFirst
    AliasMeansImport
    NamespacesApart
PROPERTY
    CyclesAreReal
\* a session ends
CHECK_DEADLOCK FALSE
