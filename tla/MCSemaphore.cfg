SPECIFICATION SemSpec
CONSTANTS
    fifo = fifo
    prio = prio
    NULL = NULL
    task_count = 4
    base_priority <- MCBasePriority
    Waitlists = {fifo, prio}
    schedule_policy <- MCSchedulePolicy
    Delays <- MCDelays
    TickModulus = 4
    Sems = {fifo, prio}
    initial_count <- MCInitialCount
    CountModulus = 8
    Timeouts <- MCTimeouts
    MaxCount = 1
INVARIANTS
    TCBMatchesWaitlists
    NoIdlePermit
PROPERTIES
    PermitsConserved
    TurnComesCloser
    NoOvertaking
