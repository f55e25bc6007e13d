------------------------------ MODULE MCSemaphore ------------------------------
\* Three tasks, two of one priority, a FIFO and a PRIORITY semaphore.
EXTENDS Semaphore, TLC

CONSTANTS fifo, prio

MCBasePriority   == 1 :> 1 @@ 2 :> 2 @@ 3 :> 2
MCSchedulePolicy == fifo :> "FIFO" @@ prio :> "PRIORITY"
MCTimeouts       == [t \in 1 .. 3 |-> {1, 3}]
MCDelays         == [t \in 1 .. 3 |-> {1}]
MCInitialCount   == fifo :> 0 @@ prio :> 1

=============================================================================
