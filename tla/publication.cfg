CONSTANTS MaxRuns = 3 MaxIntents = 3 MaxFaults = 4
SPECIFICATION Spec
INVARIANTS IntentsKept HealthIsEarned OneFailurePublished
PROPERTIES AtomicSpec
CHECK_DEADLOCK FALSE
