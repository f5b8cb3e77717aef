SPECIFICATION ConvertSpec
CONSTANTS
    Begins <- MCBegins
    Tilde <- MCTilde
    Packages <- MCPackages
    Chains <- MCChains
INVARIANTS
    RefsFollow
    EntitlementsKept
    PayloadKept
    RoundTrip
CHECK_DEADLOCK FALSE
