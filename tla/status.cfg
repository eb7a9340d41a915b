CONSTANTS MaxRuns = 3 MaxDay = 1 MaxRelease = 2 MaxManual = 2 MaxFaults = 1
          Identity <- MCIdentity ServerRelease = 0
SPECIFICATION StatusSpec
INVARIANTS NothingForgotten AutomatedFirst
PROPERTIES NothingNewerHidden GateIsNewestCycle
CHECK_DEADLOCK FALSE
