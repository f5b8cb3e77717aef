SPECIFICATION Spec
CONSTANTS
    Commands <- MCCommands
    Holds <- MCHolds
    Shims = {"swiftCore", "UIKit"}
    Loose <- MCLoose
    Debs <- MCDebs
    Repo <- MCRepo
INVARIANT InputNeverTouched
CHECK_DEADLOCK FALSE
