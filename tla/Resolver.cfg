\* Every dependency graph over three packages and one missing name.
SPECIFICATION ResolverSpec
CONSTANTS
    Loadable = {a, b, c}
    Foreign = {ghost}
    MaxDeps = 2
INVARIANTS
    PlanInOrder
    VerdictIsRight
PROPERTY
    ResolutionEnds
CHECK_DEADLOCK FALSE
