-------------------------------- MODULE MCMutex --------------------------------
\* Three tasks of three priorities and two mutexes: chains of two owners, and the
\* cycle of two tasks that each wait for the other's mutex.
EXTENDS Mutex, TLC

CONSTANTS m1, m2

MCBasePriority  == 1 :> 1 @@ 2 :> 2 @@ 3 :> 3
MCUses == 1 :> {m1} @@ 2 :> {m1, m2} @@ 3 :> {m2}
MCForever   == [t \in 1 .. 3 |-> {3}]
MCTimeouts  == 1 :> {1} @@ 2 :> {3} @@ 3 :> {3}
MCDelays    == 1 :> {1} @@ 2 :> {1} @@ 3 :> {}
MCSchedulePolicy == m1 :> "PRIORITY" @@ m2 :> "PRIORITY"

\* Four tasks of four priorities: three of them on one mutex, and a second one that
\* makes chains.
MCFourPriorities == 1 :> 1 @@ 2 :> 2 @@ 3 :> 3 @@ 4 :> 4
MCFourForever == [t \in 1 .. 4 |-> {3}]
MCFourChain   == 1 :> {m1} @@ 2 :> {m2} @@ 3 :> {m1, m2} @@ 4 :> {m1}
MCFourDelays  == [t \in 1 .. 4 |-> {1}]
=============================================================================
