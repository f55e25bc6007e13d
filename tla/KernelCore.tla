------------------------------ MODULE KernelCore ------------------------------
(***************************************************************************)
(* The task table, the waitlists, the tick and the context switch of the   *)
(* KoRTOS kernel (src/kernel/kernel.c), shared by the modules of the       *)
(* primitives (Semaphore, Mutex, MessageQueue).                            *)
(*                                                                         *)
(* One step is one critical section.  The API calls run with PRIMASK set   *)
(* (port_enter_critical), SysTick has the highest priority, and the switch *)
(* itself is taken when PendSV, pended by port_yield, becomes the only     *)
(* pending exception; module Scheduler opens that last step up.            *)
(*                                                                         *)
(* A waitlist's array task_waitlist[0 .. wait_count-1] is kept as the set  *)
(* of its entries, waiters[w], and for each entry t the set ahead[t] of    *)
(* the entries at lower indexes: appending puts every present entry ahead  *)
(* of the new one, shifting down removes the leaver from every ahead[t],   *)
(* and the index of t is Cardinality(ahead[t]).                            *)
(***************************************************************************)
EXTENDS Integers, FiniteSets

CONSTANTS
    task_count,       \* entries of user_tasks[] in use, the idle task included
    base_priority,    \* TCB_t.base_priority of each user task, lower is higher
    Waitlists,        \* every waitlist_t of the application's primitives
    schedule_policy,  \* waitlist_t.schedule_policy of each, "FIFO" or "PRIORITY"
    NULL,             \* no waitlist
    Delays,           \* the arguments each task passes to os_task_delay
    TickModulus       \* 2^32 in the code: systick_count is a uint32_t

IDLE_TASK_IDX == 0
UserTasks == 1 .. task_count - 1
Tasks     == 0 .. task_count - 1
Ticks     == 0 .. TickModulus - 1

\* (uint32_t)-1, the timeout that never expires.
OS_WAIT_FOREVER == TickModulus - 1

ASSUME TaskCountAssumption == task_count \in Nat /\ task_count > 1
ASSUME PriorityAssumption  == base_priority \in [UserTasks -> Nat]
ASSUME PolicyAssumption    == schedule_policy \in [Waitlists -> {"FIFO", "PRIORITY"}]
ASSUME NullAssumption      == NULL \notin Waitlists
ASSUME DelaysAssumption    == Delays \in [UserTasks -> SUBSET Ticks]
ASSUME TickAssumption      == /\ TickModulus \in Nat /\ TickModulus > 2
                              /\ TickModulus % 2 = 0

VARIABLES
    current_task,     \* index of the task on the processor
    current_state,    \* [Tasks -> {"READY", "RUNNING", "BLOCKED"}]
    pendsv,           \* TRUE while PendSV is pending (port_yield)
    effective_priority,
    wakeup_tick,      \* 0 stands for no deadline
    block_reason,
    blocked_waitlist, \* the waitlist the TCB says its task is on, or NULL
    timeout,          \* the last block ended by its deadline
    systick_count,
    in_call,          \* the waitlist of the blocking call on the task's stack, or NULL
    waiters,          \* waiters[w]: the entries of w.task_waitlist
    ahead             \* ahead[t]: the entries before t in the waitlist it is on

schedVars == <<current_task, current_state, pendsv>>
listVars  == <<waiters, ahead, blocked_waitlist>>
coreVars  == <<current_task, current_state, pendsv, effective_priority,
               wakeup_tick, block_reason, blocked_waitlist, timeout,
               systick_count, in_call, waiters, ahead>>

Reasons == {"NONE", "DELAY", "SEM", "MUTEX", "QUEUE_SEND", "QUEUE_RECV"}

CoreTypeOK ==
    /\ current_task \in Tasks
    /\ current_state \in [Tasks -> {"READY", "RUNNING", "BLOCKED"}]
    /\ pendsv \in BOOLEAN
    /\ effective_priority \in [UserTasks -> Nat]
    /\ wakeup_tick \in [UserTasks -> Ticks]
    /\ block_reason \in [UserTasks -> Reasons]
    /\ blocked_waitlist \in [UserTasks -> Waitlists \cup {NULL}]
    /\ timeout \in [UserTasks -> BOOLEAN]
    /\ systick_count \in Ticks
    /\ in_call \in [UserTasks -> Waitlists \cup {NULL}]
    /\ waiters \in [Waitlists -> SUBSET UserTasks]
    /\ ahead \in [UserTasks -> SUBSET UserTasks]

-----------------------------------------------------------------------------
(* os_schedule_next_task: the first task of highest effective priority in  *)
(* index order from the one after the current task, which comes last; the  *)
(* idle task when nothing is ready.  state is the table after the running  *)
(* task went back to READY.                                                *)

ReadyTasks(state) == {t \in UserTasks : state[t] = "READY"}

\* How many indexes the scan visits before it reaches t.
ScanDistance(t) ==
    IF t > current_task THEN t - current_task ELSE t + task_count - current_task

\* Fault: ties go to the lowest index.
ChosenByScan_LowestIndex(t, ready) ==
    /\ t \in ready
    /\ \A u \in ready :
          \/ effective_priority[t] < effective_priority[u]
          \/ effective_priority[t] = effective_priority[u] /\ t <= u

ChosenByScan(t, ready) ==
    /\ t \in ready
    /\ \A u \in ready :
          \/ effective_priority[t] < effective_priority[u]
          \/ effective_priority[t] = effective_priority[u]
             /\ ScanDistance(t) <= ScanDistance(u)

NextTask(next, ready) ==
    \/ ChosenByScan(next, ready)
    \/ ready = {} /\ next = IDLE_TASK_IDX

RunningToReady ==
    IF current_state[current_task] = "RUNNING"
    THEN [current_state EXCEPT ![current_task] = "READY"] ELSE current_state

os_schedule_next_task ==
    \E next \in Tasks :
        /\ NextTask(next, ReadyTasks(RunningToReady))
        /\ current_task' = next
        /\ current_state' = [RunningToReady EXCEPT ![next] = "RUNNING"]

\* PendSV: save the context, schedule, restore the chosen task's context.
PendSV_Handler ==
    /\ pendsv
    /\ os_schedule_next_task
    /\ pendsv' = FALSE
    /\ UNCHANGED <<effective_priority, wakeup_tick, block_reason, timeout,
                   systick_count, in_call, listVars>>

port_yield == pendsv' = TRUE

\* Task t executes thread-mode code: it is on the processor and no PendSV waits.
OnCpu(t) == current_task = t /\ ~pendsv

\* It executes the application's code, outside every call of the kernel.
InApplication(t) == OnCpu(t) /\ in_call[t] = NULL

-----------------------------------------------------------------------------
(* Blocking and waking.                                                     *)

\* Fault: no wrap-around.
Deadline_Unwrapped(ticks) ==
    IF ticks = OS_WAIT_FOREVER THEN 0 ELSE systick_count + ticks

\* The wakeup_tick a block of so many ticks stores; 0 when it is to last forever.
Deadline(ticks) ==
    IF ticks = OS_WAIT_FOREVER THEN 0 ELSE (systick_count + ticks) % TickModulus

\* The part of os_task_delay and waitlist_block_current that stops the caller.
BlockCurrent(ticks, reason) ==
    /\ current_state' = [current_state EXCEPT ![current_task] = "BLOCKED"]
    /\ block_reason' = [block_reason EXCEPT ![current_task] = reason]
    /\ wakeup_tick' = [wakeup_tick EXCEPT ![current_task] = Deadline(ticks)]
    /\ port_yield
    /\ UNCHANGED <<current_task, timeout, systick_count>>

os_task_delay(t, tick_count) ==
    /\ InApplication(t)
    /\ BlockCurrent(tick_count, "DELAY")
    /\ UNCHANGED <<effective_priority, in_call, listVars>>

\* wait_count never reaches OS_MAX_TASKS (see README), so the append always happens.
AppendCurrent(w) ==
    /\ waiters' = [waiters EXCEPT ![w] = @ \cup {current_task}]
    /\ ahead' = [ahead EXCEPT ![current_task] = waiters[w]]

waitlist_block_current(w, ticks, reason) ==
    /\ BlockCurrent(ticks, reason)
    /\ blocked_waitlist' = [blocked_waitlist EXCEPT ![current_task] = w]
    /\ in_call' = [in_call EXCEPT ![current_task] = w]
    /\ AppendCurrent(w)

\* Fault: <= in the search for the best entry, so that the last of equals is taken.
NextWaiter_LastOfEquals(t, w) ==
    /\ t \in waiters[w]
    /\ IF schedule_policy[w] = "FIFO"
       THEN ahead[t] = {}
       ELSE \A u \in waiters[w] :
               \/ effective_priority[t] < effective_priority[u]
               \/ effective_priority[t] = effective_priority[u] /\ t \notin ahead[u]

\* What waitlist_unblock picks: the entry at index 0, or the first one of
\* highest effective priority.
NextWaiter(t, w) ==
    /\ t \in waiters[w]
    /\ IF schedule_policy[w] = "FIFO"
       THEN ahead[t] = {}
       ELSE \A u \in waiters[w] :
               \/ effective_priority[t] < effective_priority[u]
               \/ effective_priority[t] = effective_priority[u] /\ u \notin ahead[t]

\* waitlist_remove_task for the tasks of a set: they leave their lists and the
\* entries behind them move down.
Remove(leavers) ==
    /\ waiters' = [w \in Waitlists |-> waiters[w] \ leavers]
    /\ ahead' = [u \in UserTasks |-> IF u \in leavers THEN {} ELSE ahead[u] \ leavers]

\* Fault: the flag of an earlier wait survives.
ClearTimeout_Not(t) == UNCHANGED timeout

ClearTimeout(t) == timeout' = [timeout EXCEPT ![t] = FALSE]

\* waitlist_unblock(w) waking t.
waitlist_unblock(w, t) ==
    /\ NextWaiter(t, w)
    /\ wakeup_tick' = [wakeup_tick EXCEPT ![t] = 0]
    /\ current_state' = [current_state EXCEPT ![t] = "READY"]
    /\ block_reason' = [block_reason EXCEPT ![t] = "NONE"]
    /\ blocked_waitlist' = [blocked_waitlist EXCEPT ![t] = NULL]
    /\ ClearTimeout(t)
    /\ Remove({t})

\* Fault: the waitlist is not looked at.
NothingToUnblock_Unchecked(w) ==
    UNCHANGED <<wakeup_tick, current_state, block_reason, timeout, listVars>>

\* waitlist_unblock(w) returning NULL.
NothingToUnblock(w) ==
    /\ waiters[w] = {}
    /\ UNCHANGED <<wakeup_tick, current_state, block_reason, timeout, listVars>>

-----------------------------------------------------------------------------
(* os_tick: the counter, then every block whose deadline has been reached.  *)

\* Fault: strict comparison.
Reached_Strict(tick, now) == (now - tick) % TickModulus \in 1 .. TickModulus \div 2 - 1

\* Fault: the ticks are compared, not their difference.
Reached_Unsigned(tick, now) == now >= tick

\* (int32_t)(now - tick) >= 0
Reached(tick, now) == (now - tick) % TickModulus < TickModulus \div 2

\* Fault: only delays end.
Expired_DelaysOnly(now) ==
    {t \in UserTasks : /\ block_reason[t] = "DELAY"
                       /\ wakeup_tick[t] # 0
                       /\ Reached(wakeup_tick[t], now)}

Expired(now) ==
    {t \in UserTasks : /\ current_state[t] = "BLOCKED"
                       /\ wakeup_tick[t] # 0
                       /\ Reached(wakeup_tick[t], now)}

\* Fault: the search stops before the last entry.
FoundInList_NotLast(t) ==
    /\ blocked_waitlist[t] # NULL
    /\ Cardinality(ahead[t]) < Cardinality(waiters[blocked_waitlist[t]]) - 1

\* The search of unblock_tasks for t in the list its TCB names.
FoundInList(t) ==
    blocked_waitlist[t] # NULL /\ t \in waiters[blocked_waitlist[t]]

unblock_tasks(expired) ==
    /\ current_state' = [t \in Tasks |->
                           IF t \in expired THEN "READY" ELSE current_state[t]]
    /\ block_reason' = [t \in UserTasks |->
                          IF t \in expired THEN "NONE" ELSE block_reason[t]]
    /\ wakeup_tick' = [t \in UserTasks |->
                         IF t \in expired THEN 0 ELSE wakeup_tick[t]]
    /\ timeout' = [t \in UserTasks |->
                     IF t \in expired THEN blocked_waitlist[t] # NULL ELSE timeout[t]]
    /\ blocked_waitlist' = [t \in UserTasks |->
                              IF t \in expired /\ FoundInList(t)
                              THEN NULL ELSE blocked_waitlist[t]]
    /\ Remove({t \in expired : FoundInList(t)})

\* Fault: the tasks it wakes have to wait for somebody else's switch.
os_tick_NoYield ==
    LET now == (systick_count + 1) % TickModulus
    IN  /\ systick_count' = now
        /\ unblock_tasks(Expired(now))
        /\ UNCHANGED <<pendsv, current_task, effective_priority, in_call>>

os_tick ==
    LET now == (systick_count + 1) % TickModulus
    IN  /\ systick_count' = now
        /\ unblock_tasks(Expired(now))
        /\ port_yield
        /\ UNCHANGED <<current_task, effective_priority, in_call>>

-----------------------------------------------------------------------------
\* After os_task_create for each task and os_kernel_start: nothing is blocked and
\* the first scan, made with current_task still 0, has picked the first task.
CoreInit ==
    /\ effective_priority = base_priority
    /\ wakeup_tick = [t \in UserTasks |-> 0]
    /\ block_reason = [t \in UserTasks |-> "NONE"]
    /\ blocked_waitlist = [t \in UserTasks |-> NULL]
    /\ timeout = [t \in UserTasks |-> FALSE]
    /\ systick_count = 0
    /\ in_call = [t \in UserTasks |-> NULL]
    /\ waiters = [w \in Waitlists |-> {}]
    /\ ahead = [t \in UserTasks |-> {}]
    /\ pendsv = FALSE
    /\ current_task \in UserTasks
    /\ \A t \in UserTasks :
          \/ base_priority[current_task] < base_priority[t]
          \/ base_priority[current_task] = base_priority[t] /\ current_task <= t
    /\ current_state = [t \in Tasks |-> IF t = current_task THEN "RUNNING" ELSE "READY"]

-----------------------------------------------------------------------------
(* What every component relies on.                                          *)

\* The TCB of a task and the waitlists tell the same story: a task is an entry of
\* exactly the list its blocked_waitlist names, it is blocked while it is one, and
\* the call on its stack is the one that put it there.  A task woken by a post and
\* by its deadline in the same instant must not stay behind in the list
\* (unblock_tasks, waitlist_unblock).
TCBMatchesWaitlists ==
    \A t \in UserTasks :
        /\ \A w \in Waitlists : t \in waiters[w] <=> blocked_waitlist[t] = w
        /\ blocked_waitlist[t] # NULL =>
              /\ current_state[t] = "BLOCKED"
              /\ in_call[t] = blocked_waitlist[t]

\* Only the current task is RUNNING, it is RUNNING whenever no switch is pending,
\* and block_reason is set exactly while a task is blocked.
ProcessorConsistent ==
    /\ \A t \in Tasks : current_state[t] = "RUNNING" => t = current_task
    /\ ~pendsv => current_state[current_task] = "RUNNING"
    /\ current_state[IDLE_TASK_IDX] # "BLOCKED"
    /\ \A t \in UserTasks : block_reason[t] = "NONE" <=> current_state[t] # "BLOCKED"

\* When no switch is pending the task on the processor has the highest effective
\* priority of all that could run: no call makes a better task ready, and no tick
\* wakes one, without pending PendSV (port_yield in os_sem_post, os_mutex_unlock,
\* the queue calls and os_tick).
HighestPriorityRuns ==
    ~pendsv => \A t \in ReadyTasks(current_state) :
                  /\ current_task # IDLE_TASK_IDX
                  /\ effective_priority[current_task] <= effective_priority[t]

\* A switch dispatches t, or the scan of the next switch comes to t sooner.
ServesTurnOf(t) == current_task' = t \/ ScanDistance(t)' < ScanDistance(t)

SwitchServesTurns ==
    pendsv /\ ~pendsv' =>
        \A t \in ReadyTasks(RunningToReady) :
            (\A u \in ReadyTasks(RunningToReady) :
                 effective_priority[t] <= effective_priority[u])
            => ServesTurnOf(t)

\* Round robin: a ready task that no other outranks comes strictly closer with every
\* switch, whether the task before it blocked, was preempted, or is the idle task; so
\* after at most task_count switches it runs (kernel.md, "Round-robin within a priority
\* level"), unless one outranks it meanwhile.
TurnComesCloser == [][SwitchServesTurns]_coreVars

\* Of two tasks waiting in a list, t before u, u leaves it first only by its deadline or, in
\* a PRIORITY list, because it is the better one.  While both wait, t stays before u.
LeavesTheirOrder(w, t, u) ==
    \/ u \in waiters'[w] /\ t \in ahead'[u]
    \/ u \notin waiters'[w] /\ timeout'[u]
    \/ /\ u \notin waiters'[w]
       /\ schedule_policy[w] = "PRIORITY" /\ effective_priority[u] < effective_priority[t]

\* Nobody is overtaken: releases follow the order of arrival, whatever deadlines take
\* entries from the middle of a list meanwhile (kernel.md, "Unblock Policies": FIFO releases
\* "the task that has been waiting longest"; kernel.c:679, the first of the best entries).
NoOvertaking ==
    [][\A w \in Waitlists : \A u \in waiters[w] : \A t \in ahead[u] \cap waiters'[w] :
          LeavesTheirOrder(w, t, u)]_coreVars

=============================================================================
