------------------------------- MODULE Semaphore -------------------------------
(***************************************************************************)
(* Counting semaphores (os_sem_wait, os_sem_post): every interleaving of   *)
(* the tasks' calls with the tick, the deadlines and the context switch.   *)
(* A wait with timeout 0 that finds no permit changes nothing and is a     *)
(* stuttering step.                                                        *)
(***************************************************************************)
EXTENDS KernelCore

CONSTANTS
    Sems,           \* the semaphores, each identified with its waitlist
    initial_count,  \* the argument of os_sem_create for each
    CountModulus,   \* 2^8 in the code: semaphore_t.count is a uint8_t
    Timeouts,       \* the timeouts each task passes to os_sem_wait
    MaxCount        \* bound: a task posts only while count is below it

ASSUME SemsAssumption     == Sems \subseteq Waitlists
ASSUME CountAssumption    == CountModulus \in Nat /\ CountModulus > 1
ASSUME MaxCountAssumption == MaxCount \in Nat /\ MaxCount <= CountModulus
ASSUME InitialAssumption  == initial_count \in [Sems -> 0 .. CountModulus - 1]
ASSUME TimeoutsAssumption == Timeouts \in [UserTasks -> SUBSET Ticks]

VARIABLE count  \* semaphore_t.count

semVars == <<coreVars, count>>

SemTypeOK == CoreTypeOK /\ count \in [Sems -> 0 .. CountModulus - 1]

SemInit == CoreInit /\ count = initial_count

-----------------------------------------------------------------------------
\* os_sem_wait finding a permit.
SemTake(t, s) ==
    /\ InApplication(t)
    /\ count[s] > 0
    /\ count' = [count EXCEPT ![s] = @ - 1]
    /\ UNCHANGED coreVars

\* os_sem_wait finding none, up to the switch away from the caller.
SemBlock(t, s, ticks) ==
    /\ InApplication(t)
    /\ count[s] = 0
    /\ ticks # 0
    /\ waitlist_block_current(s, ticks, "SEM")
    /\ UNCHANGED <<effective_priority, count>>

\* os_sem_wait once the caller runs again: it returns OS_OK or, when its timeout
\* flag is set, OS_ERR_UNAVAILABLE.
SemReturn(t, s) ==
    /\ OnCpu(t)
    /\ in_call[t] = s
    /\ in_call' = [in_call EXCEPT ![t] = NULL]
    /\ UNCHANGED <<current_task, current_state, pendsv, effective_priority,
                   wakeup_tick, block_reason, timeout, systick_count, listVars, count>>

\* os_sem_post with a waiter, which is handed the permit.
SemHandOver(t, s) ==
    /\ InApplication(t)
    /\ \E u \in UserTasks : waitlist_unblock(s, u)
    /\ port_yield
    /\ UNCHANGED <<current_task, effective_priority, systick_count, in_call, count>>

\* os_sem_post without one; count is eight bits wide.
SemIncrement(t, s) ==
    /\ InApplication(t)
    /\ count[s] < MaxCount
    /\ NothingToUnblock(s)
    /\ count' = [count EXCEPT ![s] = (@ + 1) % CountModulus]
    /\ UNCHANGED <<current_task, pendsv, effective_priority, systick_count, in_call>>

SemDelay(t, ticks) == os_task_delay(t, ticks) /\ UNCHANGED count
SemTick            == os_tick /\ UNCHANGED count
SemSwitch          == PendSV_Handler /\ UNCHANGED count

SemTaskStep(t) ==
    \/ \E s \in Sems : \/ SemTake(t, s) \/ SemReturn(t, s)
                       \/ SemHandOver(t, s) \/ SemIncrement(t, s)
                       \/ \E ticks \in Timeouts[t] : SemBlock(t, s, ticks)
    \/ \E ticks \in Delays[t] : SemDelay(t, ticks)

SemNext == SemTick \/ SemSwitch \/ \E t \in UserTasks : SemTaskStep(t)

SemSpec == SemInit /\ [][SemNext]_semVars

-----------------------------------------------------------------------------
\* No permit lies idle while a call waits for one: a post with waiters hands its
\* permit over instead of counting it (kernel.c:150-158).
NoIdlePermit == \A s \in Sems : waiters[s] # {} => count[s] = 0

\* The calls that were handed a permit: woken, not by the deadline, not returned.
Granted(s) ==
    {t \in UserTasks : /\ in_call[t] = s
                       /\ blocked_waitlist[t] = NULL
                       /\ ~timeout[t]}

Abstract == INSTANCE AbstractSemaphore WITH
    Callers <- UserTasks, Semaphores <- Sems, InitialPermits <- initial_count,
    now <- systick_count, free <- count, waiting <- [s \in Sems |-> waiters[s]],
    granted <- [s \in Sems |-> Granted(s)]

\* The semaphores keep the promise of AbstractSemaphore: permits are neither lost
\* nor made up, whatever a post, a deadline and the return of a call do in between.
PermitsConserved == Abstract!Spec

=============================================================================
