CONSTANTS
    MaxTcp = 1
    MaxGns = 2
SPECIFICATION ReportSpec
INVARIANT ReportUsesOwnInstances
