SPECIFICATION ProvSpec
CONSTANTS
    r1 = r1
    Layout <- SetupSteps
    Runs = {r1}
    HangUps = {r1}
    ApiOps = {"setup", "teardown", "add", "remove"}
    Entries <- MCEntries
    Existing <- MCExisting
    Copies = 2
    MaxFaults = 1
INVARIANT ReportIsTrue
PROPERTY OperatorEntriesSurvive
