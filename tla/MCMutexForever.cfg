SPECIFICATION MtxSpec
CONSTANTS
    m1 = m1
    m2 = m2
    NULL = NULL
    NoTask = NoTask
    task_count = 5
    base_priority <- MCFourPriorities
    Waitlists = {m1, m2}
    schedule_policy <- MCSchedulePolicy
    Delays <- MCFourDelays
    TickModulus = 4
    Mutexes = {m1, m2}
    OS_MAX_MTX_PER_TASK = 2
    OS_MAX_TASKS = 5
    FlashBytes = {0}
    Timeouts <- MCFourForever
    LockLimit = 2
    Uses <- MCFourChain
INVARIANTS
    BoostEnds
    NeverBelowBase
