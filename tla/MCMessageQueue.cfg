SPECIFICATION QueueSpec
CONSTANTS
    send = send
    recv = recv
    a = a
    b = b
    NULL = NULL
    NoItem = NoItem
    task_count = 4
    base_priority <- MCBasePriority
    Waitlists = {send, recv}
    schedule_policy <- MCSchedulePolicy
    Delays <- MCDelays
    TickModulus = 4
    send_waitlist = send
    recv_waitlist = recv
    max_items = 2
    Items = {a, b}
    IsrItems = {a}
    IsrReceives = TRUE
    SendTimeouts <- MCSendTimeouts
    RecvTimeouts <- MCRecvTimeouts
    MaxDropped = 1
INVARIANTS
    QueueTypeOK
    HighestPriorityRuns
    NoLostWakeup
    DeadlineKept
PROPERTIES
    IsBoundedFifo
