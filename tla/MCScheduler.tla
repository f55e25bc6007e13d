------------------------------ MODULE MCScheduler ------------------------------
\* Two tasks share a level, one is above them.
EXTENDS Scheduler, TLC

MCTopShared    == 1 :> 1 @@ 2 :> 0 @@ 3 :> 0 @@ 4 :> 0
MCBottomShared == 1 :> 0 @@ 2 :> 1 @@ 3 :> 1

=============================================================================
