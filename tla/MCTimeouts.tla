------------------------------ MODULE MCTimeouts ------------------------------
\* Two tasks and one waitlist; the counter wraps around every eight ticks.
EXTENDS Timeouts, TLC

CONSTANT list

MCBasePriority   == 1 :> 1 @@ 2 :> 2
MCSchedulePolicy == list :> "FIFO"
MCDelays         == 1 :> {0, 2} @@ 2 :> {3, 7}
MCWaitTicks      == 1 :> {1, 3, 7} @@ 2 :> {2, 3}

=============================================================================
