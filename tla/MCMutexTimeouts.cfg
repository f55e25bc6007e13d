SPECIFICATION MtxSpec
CONSTANTS
    m1 = m1
    m2 = m2
    NULL = NULL
    NoTask = NoTask
    task_count = 4
    base_priority <- MCBasePriority
    Waitlists = {m1, m2}
    schedule_policy <- MCSchedulePolicy
    Delays <- MCDelays
    TickModulus = 4
    Mutexes = {m1, m2}
    OS_MAX_MTX_PER_TASK = 2
    OS_MAX_TASKS = 4
    FlashBytes = {0}
    Timeouts <- MCTimeouts
    LockLimit = 2
    Uses <- MCUses
INVARIANTS
    OwnershipConsistent
    WaitersHaveOwner
    ResultTellsOwnership
PROPERTIES
    InheritanceKept
    BestRunsUnlessStored
