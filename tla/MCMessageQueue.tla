---------------------------- MODULE MCMessageQueue ----------------------------
\* Two senders, a receiver and an interrupt handler on a queue of two slots or one.
EXTENDS MessageQueue, TLC

CONSTANTS send, recv, a, b

MCBasePriority   == 1 :> 1 @@ 2 :> 2 @@ 3 :> 2
MCSchedulePolicy == send :> "FIFO" @@ recv :> "PRIORITY"
MCDelays         == 1 :> {1} @@ 2 :> {} @@ 3 :> {}
MCSendTimeouts   == 1 :> {1} @@ 2 :> {3} @@ 3 :> {}
MCRecvTimeouts   == 1 :> {} @@ 2 :> {1} @@ 3 :> {3}

=============================================================================
