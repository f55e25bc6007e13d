SPECIFICATION FairSchedSpec
CONSTANTS
    task_count = 5
    priority <- MCTopShared
    OS_PRIORITY_LOWEST = 1
INVARIANTS
    SchedTypeOK
    BestTaskRuns
    ScanIsRoundRobin
    ContextsIntact
PROPERTIES
    TopTasksTakeTurns
