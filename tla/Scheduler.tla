------------------------------- MODULE Scheduler -------------------------------
(***************************************************************************)
(* The context switch at the granularity interrupts see it.  PendSV has    *)
(* the lowest exception priority and runs with interrupts enabled, so a    *)
(* tick or a device interrupt may make tasks ready between any two steps   *)
(* of PendSV_Handler and of the scan in os_schedule_next_task that it      *)
(* calls.  KernelCore takes the whole switch as one step; this module is   *)
(* what justifies that.                                                    *)
(***************************************************************************)
EXTENDS Integers, FiniteSets

CONSTANTS
    task_count,     \* entries of user_tasks[] in use, the idle task included
    priority,       \* the effective priority of each user task
    OS_PRIORITY_LOWEST

IDLE_TASK_IDX == 0
UserTasks == 1 .. task_count - 1
Tasks     == 0 .. task_count - 1

ASSUME SchedTaskCountAssumption == task_count \in Nat /\ task_count > 1
ASSUME SchedPriorityAssumption  == /\ OS_PRIORITY_LOWEST \in Nat
                                   /\ priority \in [UserTasks -> 0 .. OS_PRIORITY_LOWEST]

VARIABLES
    current_task,
    current_state,
    pendsv,           \* PendSV is pending
    at,               \* where PendSV_Handler is, "thread" when it is not active
    index,            \* i, in either of the two loops
    best,             \* highest_priority
    task_to_run,
    registers,        \* the task whose registers the processor holds
    saved,            \* the tasks whose registers their stack holds
    undisturbed       \* no interrupt has made a task ready since the scan began

schedVars == <<current_task, current_state, pendsv, at, index, best, task_to_run,
               registers, saved, undisturbed>>

\* The handler's steps, in order: save the context, demote the running task, the two
\* loops, store current_task, mark it running, load its context.
Places == {"thread", "save", "demote", "after", "before", "dispatch", "run", "load"}

SchedTypeOK ==
    /\ current_task \in Tasks
    /\ current_state \in [Tasks -> {"READY", "RUNNING", "BLOCKED"}]
    /\ pendsv \in BOOLEAN
    /\ at \in Places
    /\ index \in 0 .. task_count
    /\ best \in 0 .. OS_PRIORITY_LOWEST + 1
    /\ task_to_run \in Tasks
    /\ registers \in Tasks
    /\ saved \in SUBSET Tasks
    /\ undisturbed \in BOOLEAN

\* os_kernel_start: the first scan runs before any task and starts the chosen one.
SchedInit ==
    /\ current_task \in UserTasks
    /\ \A t \in UserTasks : \/ priority[current_task] < priority[t]
                            \/ priority[current_task] = priority[t] /\ current_task <= t
    /\ current_state = [t \in Tasks |-> IF t = current_task THEN "RUNNING" ELSE "READY"]
    /\ pendsv = FALSE /\ at = "thread"
    /\ index = 0 /\ best = 0 /\ task_to_run = 0
    /\ registers = current_task
    /\ saved = Tasks \ {current_task}  \* port_init_task_stack_frame
    /\ undisturbed = TRUE

Blocked == {t \in UserTasks : current_state[t] = "BLOCKED"}
Ready   == {t \in UserTasks : current_state[t] = "READY"}

locals == <<index, best, task_to_run>>

-----------------------------------------------------------------------------
\* Fault: PendSV is not pended again while it is active.
port_yield_NotNested == pendsv' = (pendsv \/ at = "thread")

port_yield == pendsv' = TRUE

\* SysTick, or a device interrupt that posts to a queue: any of the blocked tasks
\* become ready, and PendSV is pended.
Interrupt(woken) ==
    /\ current_state' = [t \in Tasks |-> IF t \in woken THEN "READY" ELSE current_state[t]]
    /\ port_yield
    /\ undisturbed' = (undisturbed /\ woken = {})
    /\ UNCHANGED <<current_task, at, locals, registers, saved>>

\* The running user task blocks (os_task_delay, waitlist_block_current).
Block ==
    /\ at = "thread" /\ ~pendsv
    /\ current_task # IDLE_TASK_IDX
    /\ current_state' = [current_state EXCEPT ![current_task] = "BLOCKED"]
    /\ port_yield
    /\ UNCHANGED <<current_task, at, locals, registers, saved, undisturbed>>

-----------------------------------------------------------------------------
Goto(place) == at' = place

Enter ==
    /\ at = "thread" /\ pendsv
    /\ pendsv' = FALSE
    /\ Goto("save")
    /\ UNCHANGED <<current_task, current_state, locals, registers, saved, undisturbed>>

\* Fault: the stack pointer goes to the wrong TCB.
SaveContext_WrongTask ==
    /\ at = "save"
    /\ saved' = saved \cup {task_to_run}
    /\ Goto("demote")
    /\ UNCHANGED <<current_task, current_state, pendsv, locals, registers, undisturbed>>

\* STMDB and os_save_sp_value, for the task in current_task.
SaveContext ==
    /\ at = "save"
    /\ saved' = saved \cup {current_task}
    /\ Goto("demote")
    /\ UNCHANGED <<current_task, current_state, pendsv, locals, registers, undisturbed>>

\* Fault: the scan always begins at index 1.
FirstIndex_Fixed == 1

\* Fault: off by one.
FirstIndex_OffByOne == current_task + 2

FirstIndex == current_task + 1

Demote ==
    /\ at = "demote"
    /\ IF current_state[current_task] = "RUNNING"
       THEN current_state' = [current_state EXCEPT ![current_task] = "READY"]
       ELSE UNCHANGED current_state
    /\ task_to_run' = IDLE_TASK_IDX
    /\ best' = OS_PRIORITY_LOWEST + 1
    /\ index' = FirstIndex
    /\ undisturbed' = TRUE
    /\ Goto("after")
    /\ UNCHANGED <<current_task, pendsv, registers, saved>>

\* Fault: the last of equals wins.
Better_NotStrict(i) == current_state[i] = "READY" /\ priority[i] <= best

Better(i) == current_state[i] = "READY" /\ priority[i] < best

\* One iteration: keep the task at index if it is ready and strictly better.
Visit ==
    /\ IF Better(index)
       THEN best' = priority[index] /\ task_to_run' = index
       ELSE UNCHANGED <<best, task_to_run>>
    /\ index' = index + 1

ScanAfterCurrent ==
    /\ at = "after"
    /\ IF index < task_count
       THEN Visit /\ UNCHANGED at
       ELSE index' = 1 /\ Goto("before") /\ UNCHANGED <<best, task_to_run>>
    /\ UNCHANGED <<current_task, current_state, pendsv, registers, saved, undisturbed>>

ScanUpToCurrent ==
    /\ at = "before"
    /\ IF index <= current_task
       THEN Visit /\ UNCHANGED at
       ELSE Goto("dispatch") /\ UNCHANGED locals
    /\ UNCHANGED <<current_task, current_state, pendsv, registers, saved, undisturbed>>

Dispatch ==
    /\ at = "dispatch"
    /\ current_task' = task_to_run
    /\ Goto("run")
    /\ UNCHANGED <<current_state, pendsv, locals, registers, saved, undisturbed>>

MarkRunning ==
    /\ at = "run"
    /\ current_state' = [current_state EXCEPT ![current_task] = "RUNNING"]
    /\ Goto("load")
    /\ UNCHANGED <<current_task, pendsv, locals, registers, saved, undisturbed>>

\* os_get_sp_value, LDMIA and the exception return.
LoadContext ==
    /\ at = "load"
    /\ registers' = current_task
    /\ saved' = saved \ {current_task}
    /\ index' = 0 /\ best' = 0 /\ task_to_run' = 0
    /\ Goto("thread")
    /\ UNCHANGED <<current_task, current_state, pendsv, undisturbed>>

SwitchStep ==
    \/ Enter \/ SaveContext \/ Demote \/ ScanAfterCurrent \/ ScanUpToCurrent
    \/ Dispatch \/ MarkRunning \/ LoadContext

Tick == \E woken \in SUBSET Blocked : Interrupt(woken)

SchedNext == Tick \/ Block \/ SwitchStep

SchedSpec == SchedInit /\ [][SchedNext]_schedVars

\* The tick does not stop, and a pending or running PendSV gets the processor.
FairSchedSpec == SchedSpec /\ WF_schedVars(Tick) /\ WF_schedVars(SwitchStep)

-----------------------------------------------------------------------------
\* Whenever no switch is pending or under way, the running task has the best
\* priority of all that are ready.  A task an interrupt wakes behind the back of the
\* scan is missed by it, and found by the switch the same interrupt has pended.
BestTaskRuns ==
    at = "thread" /\ ~pendsv =>
        /\ current_state[current_task] = "RUNNING"
        /\ \A t \in Ready : /\ current_task # IDLE_TASK_IDX
                            /\ priority[current_task] <= priority[t]

\* The two loops, when no interrupt makes a task ready meanwhile, pick the task that
\* KernelCore's os_schedule_next_task picks: best priority, then first in index order
\* after the current task.
ScanDistance(t) ==
    IF t > current_task THEN t - current_task ELSE t + task_count - current_task

ScanIsRoundRobin ==
    at = "dispatch" /\ undisturbed =>
        \/ Ready = {} /\ task_to_run = IDLE_TASK_IDX
        \/ /\ task_to_run \in Ready
           /\ \A t \in Ready :
                 \/ priority[task_to_run] < priority[t]
                 \/ priority[task_to_run] = priority[t]
                    /\ ScanDistance(task_to_run) <= ScanDistance(t)

\* No interrupt can make the switch dispatch a task that is blocked, and exactly one
\* task's registers are off its stack when a task runs: those of the current task.
ContextsIntact ==
    /\ at \in {"run", "load"} => current_state[current_task] # "BLOCKED"
    /\ at = "thread" => registers = current_task /\ saved = Tasks \ {current_task}

\* A ready task of the best priority there is gets the processor (kernel.md, "Round-
\* robin within a priority level"), whatever blocks and wakes around it.
TopPriority == {t \in UserTasks : \A u \in UserTasks : priority[t] <= priority[u]}

TopTasksTakeTurns ==
    \A t \in TopPriority : current_state[t] = "READY" ~> current_task = t

\* The same for every level: as long as one task of a level keeps being dispatched,
\* no other task of the level stays ready for ever.
PeersTakeTurns ==
    \A t, u \in UserTasks :
        t # u /\ priority[t] = priority[u] /\ []<>(current_task = t /\ at = "thread")
            => ~<>[](current_state[u] = "READY")

=============================================================================
