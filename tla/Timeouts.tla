------------------------------- MODULE Timeouts -------------------------------
(***************************************************************************)
(* When blocks end: os_task_delay and a timed wait on a waitlist, against  *)
(* the number of ticks the caller asked for.  systick_count wraps around   *)
(* during every run.  The variable left counts the ticks still to go; the  *)
(* kernel has no such counter, only wakeup_tick.                           *)
(***************************************************************************)
EXTENDS KernelCore

CONSTANTS
    WaitTicks   \* the timeouts each task passes to a wait, none of them 0

ASSUME WaitTicksAssumption == WaitTicks \in [UserTasks -> SUBSET (Ticks \ {0})]

VARIABLE left   \* left[t]: ticks until t's block is due, Forever if it never is

Forever == TickModulus

timeVars == <<coreVars, left>>

TimeInit == CoreInit /\ left = [t \in UserTasks |-> 0]

-----------------------------------------------------------------------------
\* A delay of 0 ticks blocks, too, and is due at the next tick.
Ask(t, ticks) ==
    left' = [left EXCEPT ![t] = IF ticks = OS_WAIT_FOREVER THEN Forever
                                ELSE IF ticks = 0 THEN 1 ELSE ticks]

Delay(t, ticks) == os_task_delay(t, ticks) /\ Ask(t, ticks)

Wait(t, w, ticks) ==
    /\ InApplication(t)
    /\ waitlist_block_current(w, ticks, "SEM")
    /\ Ask(t, ticks)
    /\ UNCHANGED effective_priority

\* The other task's call that wakes a waiter before its deadline.
Release(t, w) ==
    /\ InApplication(t)
    /\ \E u \in UserTasks : waitlist_unblock(w, u)
    /\ port_yield
    /\ UNCHANGED <<current_task, effective_priority, systick_count, in_call, left>>

Return(t, w) ==
    /\ OnCpu(t)
    /\ in_call[t] = w
    /\ in_call' = [in_call EXCEPT ![t] = NULL]
    /\ UNCHANGED <<schedVars, effective_priority, wakeup_tick, block_reason, timeout,
                   systick_count, listVars, left>>

Tick ==
    /\ os_tick
    /\ left' = [t \in UserTasks |->
                  IF current_state[t] = "BLOCKED" /\ left[t] \in 1 .. Forever - 1
                  THEN left[t] - 1 ELSE left[t]]

Switch == PendSV_Handler /\ UNCHANGED left

TimeTaskStep(t) ==
    \/ \E ticks \in Delays[t] : Delay(t, ticks)
    \/ \E w \in Waitlists : \/ Release(t, w) \/ Return(t, w)
                            \/ \E ticks \in WaitTicks[t] : Wait(t, w, ticks)

TimeNext == Tick \/ Switch \/ \E t \in UserTasks : TimeTaskStep(t)

TimeSpec == TimeInit /\ [][TimeNext]_timeVars

\* The hardware timer does not stop.
FairTimeSpec == TimeSpec /\ WF_timeVars(Tick)

-----------------------------------------------------------------------------
\* A tick ends exactly the blocks that are due, and not one tick earlier, across the
\* wrap-around of the tick counter.  It holds for timeouts below half the range of
\* the counter.
NeverEarly ==
    [][\A t \in UserTasks :
          /\ systick_count' # systick_count
          /\ current_state[t] = "BLOCKED" /\ current_state'[t] = "READY"
          => left'[t] = 0]_timeVars

\* A block that recorded a deadline is over when the deadline comes.
NotLateOnceRecorded ==
    \A t \in UserTasks :
        current_state[t] = "BLOCKED" /\ wakeup_tick[t] # 0 => left[t] > 0

\* Every block with a deadline is over when the deadline comes (kernel.md, "Timeouts").
NeverLate == \A t \in UserTasks : current_state[t] = "BLOCKED" => left[t] > 0

\* A block that recorded a deadline ends, even if nobody releases it and no other
\* task ever runs.
RecordedBlocksEnd ==
    \A t \in UserTasks :
        (current_state[t] = "BLOCKED" /\ wakeup_tick[t] # 0) ~> current_state[t] # "BLOCKED"

=============================================================================
