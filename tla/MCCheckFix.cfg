SPECIFICATION Spec
CONSTANTS
    Commands <- MCCommands
    Holds <- MCHolds
    Shims = {"swiftCore", "UIKit"}
    Loose <- MCLoose
    Debs <- MCDebs
    Repo <- MCRepo
INVARIANTS FixLandsWhereChecked SuccessMeansResolved OutputSigned
CHECK_DEADLOCK FALSE
