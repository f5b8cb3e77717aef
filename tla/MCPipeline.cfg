SPECIFICATION OptionsSpec
CONSTANTS
    e0 = e0
    e1 = e1
    e2 = e2
    NoEnts = e0
    Unset = Unset
    Lines <- MCLines
    Runs <- MCRuns
INVARIANTS RefsShipped OneRuntime SignatureSurvives InputSurvives SavedIsAsked ExtensionsFollow OwnExtensionsStay LastNamedWins LandsWhereItWas
