SPECIFICATION FairSpec
CONSTANTS
    Checks = {framework}
    Frameworks = {framework}
    Suppressed = {}
    Pins = {pin}
    PageSize = 2
    MaxAttempts = 2
    MaxFaults = 2
    MaxChanges = 2
INVARIANTS
    TypeOK
    DuplicateIsExplained
    CleanRunCovers
PROPERTIES
    ClosingIsExplained
    AlertsFollowConditions
