SPECIFICATION Spec
CONSTANTS
    NBuilds = 1
    NPolls = 1
    NConns = 1
    RETRIES = 3
    MaxReports = 0
    Plans <- OneBuild
PROPERTIES
    SucceedMeansNotified
CHECK_DEADLOCK FALSE
