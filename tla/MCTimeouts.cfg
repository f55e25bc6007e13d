SPECIFICATION FairTimeSpec
CONSTANTS
    list = list
    NULL = NULL
    task_count = 3
    base_priority <- MCBasePriority
    Waitlists = {list}
    schedule_policy <- MCSchedulePolicy
    Delays <- MCDelays
    TickModulus = 8
    WaitTicks <- MCWaitTicks
INVARIANTS
    NotLateOnceRecorded
PROPERTIES
    NeverEarly
    RecordedBlocksEnd
