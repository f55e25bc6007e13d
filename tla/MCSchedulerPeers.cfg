SPECIFICATION FairSchedSpec
CONSTANTS
    task_count = 4
    priority <- MCBottomShared
    OS_PRIORITY_LOWEST = 1
PROPERTY
    PeersTakeTurns
