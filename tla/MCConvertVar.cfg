SPECIFICATION ConvertSpec
CONSTANTS
    Begins <- MCBegins
    Tilde <- MCTilde
    Packages <- MCVarPackages
    Chains <- MCChains
INVARIANT OnlyIoFails
CHECK_DEADLOCK FALSE
