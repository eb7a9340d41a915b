CONSTANTS MaxRuns = 8 MaxDay = 2 MaxRelease = 1 MaxManual = 0 MaxFaults = 1
SPECIFICATION FairSpec
PROPERTIES SessionSettles
CHECK_DEADLOCK FALSE
