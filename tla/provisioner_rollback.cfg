SPECIFICATION ProvSpec
CONSTANTS
    r1 = r1
    Layout <- SetupSteps
    Runs = {r1}
    HangUps = {}
    ApiOps = {"setup"}
    Entries <- MCEntries
    Existing <- MCExisting
    Copies = 2
    MaxFaults = 1
INVARIANT RollbackOwnObjects
