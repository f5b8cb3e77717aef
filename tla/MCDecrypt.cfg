SPECIFICATION Spec
CONSTANTS
    ann = ann
    bob = bob
    Accounts = {ann, bob}
    Urls = {"bag", "native"}
    Folders = {"games"}
    NoAccount = NoAccount
    NoSession = NoSession
    Torn = Torn
    Archives <- MCArchives
    Commands <- MCCommands
    MaxRuns = 2
    MaxGrants = 2
INVARIANTS BuysAsSignedIn ApprovalReported OutputRight
PROPERTIES ImplementsStore CommandEnds
CHECK_DEADLOCK FALSE
