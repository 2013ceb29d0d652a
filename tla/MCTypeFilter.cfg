CONSTANTS
    Size = 3
    TopNames <- MCTopNames
    OwnNames <- MCOwnNames
    Filters <- MCFilters
SPECIFICATION Spec
INVARIANTS SelectedByChain
CHECK_DEADLOCK FALSE
