---------------------------- MODULE SchedulerProofs ----------------------------
(***************************************************************************)
(* The context switch under interrupts, for any number of tasks and any    *)
(* priorities: contexts stay intact, the scan is round robin, and the best *)
(* task runs whenever no switch is pending.                                *)
(***************************************************************************)
EXTENDS Scheduler, TLAPS

Scanning == {"after", "before", "dispatch"}

\* The user tasks the scan has looked at.
Visited(t) ==
    \/ at = "after" /\ current_task < t /\ t < index
    \/ at = "before" /\ (current_task < t \/ t < index)
    \/ at = "dispatch"

\* Only the current task is RUNNING, and none is while the scan looks for the next.
\* The idle task never blocks.
StatesFollowSwitch ==
    /\ \A t \in Tasks : current_state[t] = "RUNNING" =>
                           t = current_task /\ at \in {"thread", "save", "demote", "load"}
    /\ current_state[IDLE_TASK_IDX] # "BLOCKED"
    /\ at = "load" \/ (at = "thread" /\ ~pendsv) => current_state[current_task] = "RUNNING"
    /\ at = "run" => current_state[current_task] # "BLOCKED"

\* From SaveContext to LoadContext every task's registers are on its stack.
ContextsFollowSwitch ==
    /\ at \in {"thread", "save"} => saved = Tasks \ {current_task}
    /\ at \notin {"thread", "save"} => saved = Tasks
    /\ at = "thread" => registers = current_task

\* The indexes of the two loops.
IndexInLoop ==
    /\ at = "after" => index > current_task
    /\ at = "before" => 1 <= index /\ index <= current_task + 1

\* What the scan has kept: nothing yet, or a task that was and still is ready.
KeptIsReady ==
    at \in Scanning =>
        \/ task_to_run = IDLE_TASK_IDX /\ best = OS_PRIORITY_LOWEST + 1
        \/ /\ task_to_run \in Ready
           /\ Visited(task_to_run)
           /\ best = priority[task_to_run]

\* No task it has passed over comes before the one it kept, unless an interrupt has
\* changed the table meanwhile.
KeptIsBest ==
    at \in Scanning /\ undisturbed =>
        \A t \in Ready : Visited(t) =>
            /\ task_to_run # IDLE_TASK_IDX
            /\ \/ priority[task_to_run] < priority[t]
               \/ priority[task_to_run] = priority[t]
                  /\ ScanDistance(task_to_run) <= ScanDistance(t)

\* An interrupt that disturbs the scan leaves a switch pending behind it.
DisturbedIsPended == at \in Scanning /\ ~undisturbed => pendsv

\* From the dispatch on, unless a switch is pending, the current task is the best.
DispatchedIsBest ==
    at \in {"run", "load", "thread"} /\ ~pendsv =>
        \A t \in Ready : /\ current_task # IDLE_TASK_IDX
                         /\ priority[current_task] <= priority[t]

\* The inductive invariant.  BestTaskRuns alone says nothing of the scan that the
\* switch makes, ScanIsRoundRobin nothing of its middle.
SchedInv ==
    /\ SchedTypeOK /\ StatesFollowSwitch /\ ContextsFollowSwitch
    /\ IndexInLoop /\ KeptIsReady /\ KeptIsBest /\ DisturbedIsPended /\ DispatchedIsBest

\* Index 0 is the idle task's, all others are user tasks.
LEMMA TableOfTasks ==
    /\ IDLE_TASK_IDX = 0 /\ 0 \in Tasks
    /\ \A t : t \in UserTasks <=> t \in Tasks /\ t # 0
    /\ \A t \in Tasks : t \in Int /\ 0 <= t /\ t < task_count
    /\ \A t \in UserTasks : t \in Int /\ 1 <= t /\ t < task_count
    /\ \A t \in Int : 1 <= t /\ t < task_count => t \in UserTasks
BY SchedTaskCountAssumption DEF IDLE_TASK_IDX, Tasks, UserTasks

\* Priorities are numbers up to the lowest.
LEMMA PriorityOfTask ==
    /\ OS_PRIORITY_LOWEST \in Nat
    /\ \A t \in UserTasks : /\ priority[t] \in 0 .. OS_PRIORITY_LOWEST
                            /\ priority[t] \in Int
                            /\ 0 <= priority[t] /\ priority[t] < OS_PRIORITY_LOWEST + 1
BY SchedPriorityAssumption

\* What os_kernel_start leaves.
LEMMA SchedInitInv == SchedInit => SchedInv
<1> SUFFICES ASSUME SchedInit PROVE SchedInv
  OBVIOUS
<1> USE DEF SchedInit
<1>1. SchedTypeOK
  <2>1. current_task \in Tasks /\ 0 \in Tasks
    BY TableOfTasks
  <2>2. 0 \in 0 .. task_count /\ 0 \in 0 .. OS_PRIORITY_LOWEST + 1
    BY SchedTaskCountAssumption, PriorityOfTask
  <2> QED BY <2>1, <2>2 DEF SchedTypeOK, Places
<1>2. StatesFollowSwitch
  BY TableOfTasks DEF StatesFollowSwitch
<1>3. ContextsFollowSwitch
  BY DEF ContextsFollowSwitch
<1>4. IndexInLoop /\ KeptIsReady /\ KeptIsBest /\ DisturbedIsPended
  BY DEF IndexInLoop, KeptIsReady, KeptIsBest, DisturbedIsPended, Scanning
<1>5. DispatchedIsBest
  BY TableOfTasks, PriorityOfTask DEF DispatchedIsBest, Ready
<1> QED BY <1>1, <1>2, <1>3, <1>4, <1>5 DEF SchedInv

-----------------------------------------------------------------------------
\* An interrupt, at any point of the switch.
LEMMA InterruptKeeps ==
    ASSUME SchedInv, NEW woken \in SUBSET Blocked, Interrupt(woken)
    PROVE  SchedInv'
<1> USE DEF SchedInv, Interrupt, port_yield, locals
<1>0. woken \subseteq UserTasks /\ \A t \in woken : current_state[t] = "BLOCKED"
  BY DEF Blocked
<1>1. SchedTypeOK'
  BY <1>0 DEF SchedTypeOK
<1>2. StatesFollowSwitch'
  BY <1>0, TableOfTasks DEF StatesFollowSwitch, SchedTypeOK
<1>3. ContextsFollowSwitch' /\ IndexInLoop'
  BY DEF ContextsFollowSwitch, IndexInLoop
<1>4. KeptIsReady'
  BY <1>0, TableOfTasks DEF KeptIsReady, Visited, Ready, SchedTypeOK
<1>5. KeptIsBest'
  <2>1. undisturbed' => undisturbed /\ Ready' = Ready
    BY <1>0, TableOfTasks DEF Ready, SchedTypeOK
  <2> QED BY <2>1 DEF KeptIsBest, Visited, ScanDistance
<1>6. DisturbedIsPended' /\ DispatchedIsBest'
  BY DEF DisturbedIsPended, DispatchedIsBest
<1> QED BY <1>1, <1>2, <1>3, <1>4, <1>5, <1>6

\* The running task blocks.
LEMMA BlockKeeps ==
    ASSUME SchedInv, Block
    PROVE  SchedInv'
<1> USE DEF SchedInv, Block, port_yield, locals
<1>1. SchedTypeOK'
  BY DEF SchedTypeOK
<1>2. StatesFollowSwitch'
  BY TableOfTasks DEF StatesFollowSwitch, SchedTypeOK
<1>3. ContextsFollowSwitch' /\ IndexInLoop'
  BY DEF ContextsFollowSwitch, IndexInLoop
<1>4. KeptIsReady' /\ KeptIsBest' /\ DisturbedIsPended' /\ DispatchedIsBest'
  BY DEF KeptIsReady, KeptIsBest, DisturbedIsPended, DispatchedIsBest, Scanning
<1> QED BY <1>1, <1>2, <1>3, <1>4

\* The steps of the switch before the scan: the scan starts with nothing visited.
LEMMA BeforeScanKeeps ==
    ASSUME SchedInv, Enter \/ SaveContext \/ Demote
    PROVE  SchedInv'
<1> USE DEF SchedInv, Goto, locals
<1>1. CASE Enter
  <2>1. SchedTypeOK' /\ StatesFollowSwitch' /\ ContextsFollowSwitch' /\ IndexInLoop'
    BY <1>1 DEF Enter, SchedTypeOK, Places, StatesFollowSwitch, ContextsFollowSwitch, IndexInLoop
  <2>2. KeptIsReady' /\ KeptIsBest' /\ DisturbedIsPended' /\ DispatchedIsBest'
    BY <1>1 DEF Enter, KeptIsReady, KeptIsBest, DisturbedIsPended, DispatchedIsBest, Scanning
  <2> QED BY <2>1, <2>2
<1>2. CASE SaveContext
  <2>1. SchedTypeOK' /\ StatesFollowSwitch' /\ ContextsFollowSwitch' /\ IndexInLoop'
    BY <1>2 DEF SaveContext, SchedTypeOK, Places, StatesFollowSwitch, ContextsFollowSwitch,
                IndexInLoop
  <2>2. KeptIsReady' /\ KeptIsBest' /\ DisturbedIsPended' /\ DispatchedIsBest'
    BY <1>2 DEF SaveContext, KeptIsReady, KeptIsBest, DisturbedIsPended, DispatchedIsBest, Scanning
  <2> QED BY <2>1, <2>2
<1>3. CASE Demote
  <2>1. SchedTypeOK'
    BY <1>3, TableOfTasks, PriorityOfTask, SchedTaskCountAssumption
    DEF Demote, SchedTypeOK, Places, FirstIndex, IDLE_TASK_IDX
  <2>2. StatesFollowSwitch'
    BY <1>3, TableOfTasks DEF Demote, SchedTypeOK, StatesFollowSwitch
  <2>3. ContextsFollowSwitch' /\ IndexInLoop'
    BY <1>3, TableOfTasks DEF Demote, SchedTypeOK, ContextsFollowSwitch, IndexInLoop, FirstIndex
  <2>4. KeptIsReady' /\ DisturbedIsPended' /\ DispatchedIsBest'
    BY <1>3 DEF Demote, KeptIsReady, DisturbedIsPended, DispatchedIsBest
  <2>5. KeptIsBest'
    BY <1>3, TableOfTasks
    DEF Demote, KeptIsBest, Visited, FirstIndex, Ready, SchedTypeOK
  <2> QED BY <2>1, <2>2, <2>3, <2>4, <2>5
<1> QED BY <1>1, <1>2, <1>3

-----------------------------------------------------------------------------
\* One iteration of a loop, whichever: what it keeps is the better of the task kept so
\* far, which it visited earlier, and the one it looks at.
LEMMA VisitKeeps ==
    ASSUME SchedInv, at \in {"after", "before"}, Visit, index \in UserTasks,
           at = "before" => index <= current_task,
           UNCHANGED <<at, current_task, current_state, pendsv, registers, saved, undisturbed>>
    PROVE  SchedInv'
<1> USE DEF SchedInv
<1>1. /\ index' = index + 1 /\ index \in Int /\ 1 <= index /\ index < task_count
      /\ current_task \in Int /\ 0 <= current_task /\ current_task < task_count
      /\ task_count \in Int
  BY TableOfTasks, SchedTaskCountAssumption DEF Visit, SchedTypeOK
<1>2. Ready' = Ready /\ Ready \subseteq UserTasks
  BY DEF Ready
<1>3. \A t \in UserTasks : Visited(t)' <=> Visited(t) \/ t = index
  BY <1>1, TableOfTasks DEF Visited, IndexInLoop
<1>4. \A t \in UserTasks : Visited(t) => ScanDistance(t) <= ScanDistance(index)
  BY <1>1, TableOfTasks DEF Visited, ScanDistance, IndexInLoop
<1>5. \A t : ScanDistance(t)' = ScanDistance(t)
  BY DEF ScanDistance
<1>6. SchedTypeOK'
  BY <1>1, TableOfTasks, PriorityOfTask, SchedTaskCountAssumption
  DEF SchedTypeOK, Visit, Better
<1>7. StatesFollowSwitch' /\ ContextsFollowSwitch' /\ DisturbedIsPended' /\ DispatchedIsBest'
  BY DEF StatesFollowSwitch, ContextsFollowSwitch, DisturbedIsPended, DispatchedIsBest
<1>8. IndexInLoop'
  BY <1>1 DEF IndexInLoop
<1>9. CASE Better(index)
  <2>1. /\ index \in Ready /\ priority[index] < best
        /\ best' = priority[index] /\ task_to_run' = index
    BY <1>9 DEF Better, Visit, Ready
  <2>2. KeptIsReady'
    BY <1>2, <1>3, <2>1 DEF KeptIsReady
  <2>3. KeptIsBest'
    <3> SUFFICES ASSUME undisturbed, NEW t \in Ready, Visited(t) \/ t = index
                 PROVE  /\ index # IDLE_TASK_IDX
                        /\ \/ priority[index] < priority[t]
                           \/ priority[index] = priority[t]
                              /\ ScanDistance(index) <= ScanDistance(t)
      BY <1>2, <1>3, <1>5, <2>1 DEF KeptIsBest
    <3>1. index # IDLE_TASK_IDX /\ ScanDistance(index) \in Int
      BY <1>1, TableOfTasks DEF ScanDistance
    <3>2. CASE t = index
      BY <3>1, <3>2
    <3>3. CASE Visited(t)
      <4>1. task_to_run # IDLE_TASK_IDX /\ priority[task_to_run] <= priority[t]
        BY <1>2, <3>3, PriorityOfTask DEF KeptIsBest, KeptIsReady, Scanning
      <4>2. best = priority[task_to_run] /\ task_to_run \in UserTasks
        BY <1>2, <4>1 DEF KeptIsReady, Scanning
      <4> QED BY <1>2, <2>1, <3>1, <4>1, <4>2, PriorityOfTask
    <3> QED BY <3>2, <3>3
  <2> QED BY <1>6, <1>7, <1>8, <2>2, <2>3
<1>10. CASE ~Better(index)
  <2>1. UNCHANGED <<best, task_to_run>>
    BY <1>10 DEF Visit
  <2>2. KeptIsReady'
    BY <1>2, <1>3, <2>1 DEF KeptIsReady
  <2>3. KeptIsBest'
    <3> SUFFICES ASSUME undisturbed, NEW t \in Ready, Visited(t) \/ t = index
                 PROVE  /\ task_to_run # IDLE_TASK_IDX
                        /\ \/ priority[task_to_run] < priority[t]
                           \/ priority[task_to_run] = priority[t]
                              /\ ScanDistance(task_to_run) <= ScanDistance(t)
      BY <1>2, <1>3, <1>5, <2>1 DEF KeptIsBest
    <3>1. CASE Visited(t)
      BY <3>1 DEF KeptIsBest, Scanning
    <3>2. CASE t = index
      <4>1. best <= priority[index]
        BY <1>10, <3>2, PriorityOfTask DEF Better, Ready, SchedTypeOK
      <4>2. /\ task_to_run \in UserTasks /\ Visited(task_to_run)
            /\ best = priority[task_to_run]
        BY <1>2, <4>1, PriorityOfTask DEF KeptIsReady, Scanning
      <4> QED BY <1>4, <3>2, <4>1, <4>2, TableOfTasks, PriorityOfTask
    <3> QED BY <3>1, <3>2
  <2> QED BY <1>6, <1>7, <1>8, <2>2, <2>3
<1> QED BY <1>9, <1>10

\* The two loops, and the steps between and after them.
LEMMA ScanKeeps ==
    ASSUME SchedInv, ScanAfterCurrent \/ ScanUpToCurrent
    PROVE  SchedInv'
<1> USE DEF SchedInv
<1>1. index \in Int /\ current_task \in Int /\ task_count \in Int
      /\ 0 <= current_task /\ current_task < task_count
  BY TableOfTasks, SchedTaskCountAssumption DEF SchedTypeOK
<1>2. CASE ScanAfterCurrent /\ index < task_count
  <2>1. index \in UserTasks
    BY <1>1, <1>2, TableOfTasks DEF ScanAfterCurrent, IndexInLoop
  <2> QED BY <1>2, <2>1, VisitKeeps DEF ScanAfterCurrent
<1>3. CASE ScanUpToCurrent /\ index <= current_task
  <2>1. index \in UserTasks
    BY <1>1, <1>3, TableOfTasks DEF ScanUpToCurrent, IndexInLoop
  <2> QED BY <1>3, <2>1, VisitKeeps DEF ScanUpToCurrent
<1>4. CASE \/ ScanAfterCurrent /\ ~(index < task_count)
           \/ ScanUpToCurrent /\ ~(index <= current_task)
  <2>1. /\ UNCHANGED <<best, task_to_run, current_task, current_state, pendsv, registers,
                       saved, undisturbed>>
        /\ \/ at = "after" /\ at' = "before" /\ index' = 1
           \/ at = "before" /\ at' = "dispatch" /\ index' = index
    BY <1>4 DEF ScanAfterCurrent, ScanUpToCurrent, Goto, locals
  <2>2. Ready' = Ready /\ Ready \subseteq UserTasks
    BY <2>1 DEF Ready
  <2>3. \A t \in UserTasks : Visited(t)' <=> Visited(t)
    BY <1>1, <1>4, <2>1, TableOfTasks
    DEF Visited, IndexInLoop, ScanAfterCurrent, ScanUpToCurrent
  <2>4. SchedTypeOK'
    BY <2>1, SchedTaskCountAssumption DEF SchedTypeOK, Places
  <2>5. /\ StatesFollowSwitch' /\ ContextsFollowSwitch' /\ DisturbedIsPended'
        /\ DispatchedIsBest'
    BY <2>1 DEF StatesFollowSwitch, ContextsFollowSwitch, DisturbedIsPended,
                DispatchedIsBest, Scanning
  <2>6. IndexInLoop'
    BY <1>1, <2>1 DEF IndexInLoop
  <2>7. KeptIsReady'
    BY <2>1, <2>2, <2>3 DEF KeptIsReady, Scanning
  <2>8. KeptIsBest'
    BY <2>1, <2>2, <2>3 DEF KeptIsBest, Scanning, ScanDistance
  <2> QED BY <2>4, <2>5, <2>6, <2>7, <2>8
<1> QED BY <1>2, <1>3, <1>4

\* The steps after the scan: the kept task is dispatched, ready or the idle task.
LEMMA AfterScanKeeps ==
    ASSUME SchedInv, Dispatch \/ MarkRunning \/ LoadContext
    PROVE  SchedInv'
<1> USE DEF SchedInv, Goto, locals
<1>1. CASE Dispatch
  <2>1. SchedTypeOK' /\ ContextsFollowSwitch' /\ IndexInLoop'
    BY <1>1 DEF Dispatch, SchedTypeOK, Places, ContextsFollowSwitch, IndexInLoop
  <2>2. StatesFollowSwitch'
    BY <1>1, TableOfTasks
    DEF Dispatch, StatesFollowSwitch, KeptIsReady, Scanning, Ready, SchedTypeOK
  <2>3. KeptIsReady' /\ KeptIsBest' /\ DisturbedIsPended'
    BY <1>1 DEF Dispatch, KeptIsReady, KeptIsBest, DisturbedIsPended, Scanning
  <2>4. DispatchedIsBest'
    <3> SUFFICES ASSUME ~pendsv, NEW t \in Ready
                 PROVE  /\ task_to_run # IDLE_TASK_IDX
                        /\ priority[task_to_run] <= priority[t]
      BY <1>1 DEF Dispatch, DispatchedIsBest, Ready
    <3>1. undisturbed /\ Visited(t)
      BY <1>1 DEF Dispatch, DisturbedIsPended, Scanning, Visited
    <3>2. /\ task_to_run # IDLE_TASK_IDX
          /\ \/ priority[task_to_run] < priority[t]
             \/ priority[task_to_run] = priority[t]
      BY <1>1, <3>1 DEF Dispatch, KeptIsBest, Scanning
    <3>3. task_to_run \in UserTasks /\ t \in UserTasks
      BY <3>2, TableOfTasks DEF SchedTypeOK, Ready
    <3> QED BY <3>2, <3>3, PriorityOfTask
  <2> QED BY <2>1, <2>2, <2>3, <2>4
<1>2. CASE MarkRunning
  <2>1. SchedTypeOK' /\ ContextsFollowSwitch' /\ IndexInLoop'
    BY <1>2 DEF MarkRunning, SchedTypeOK, Places, ContextsFollowSwitch, IndexInLoop
  <2>2. StatesFollowSwitch'
    BY <1>2, TableOfTasks DEF MarkRunning, StatesFollowSwitch, SchedTypeOK
  <2>3. KeptIsReady' /\ KeptIsBest' /\ DisturbedIsPended'
    BY <1>2 DEF MarkRunning, KeptIsReady, KeptIsBest, DisturbedIsPended, Scanning
  <2>4. DispatchedIsBest'
    BY <1>2, TableOfTasks DEF MarkRunning, DispatchedIsBest, Ready, SchedTypeOK
  <2> QED BY <2>1, <2>2, <2>3, <2>4
<1>3. CASE LoadContext
  <2>1. SchedTypeOK' /\ IndexInLoop'
    BY <1>3, PriorityOfTask, TableOfTasks, SchedTaskCountAssumption
    DEF LoadContext, SchedTypeOK, Places, IndexInLoop
  <2>2. ContextsFollowSwitch'
    BY <1>3 DEF LoadContext, ContextsFollowSwitch
  <2>3. StatesFollowSwitch'
    BY <1>3 DEF LoadContext, StatesFollowSwitch
  <2>4. KeptIsReady' /\ KeptIsBest' /\ DisturbedIsPended'
    BY <1>3 DEF LoadContext, KeptIsReady, KeptIsBest, DisturbedIsPended, Scanning
  <2>5. DispatchedIsBest'
    BY <1>3 DEF LoadContext, DispatchedIsBest, Ready
  <2> QED BY <2>1, <2>2, <2>3, <2>4, <2>5
<1> QED BY <1>1, <1>2, <1>3

-----------------------------------------------------------------------------
\* The conjunction is inductive.
LEMMA SchedInvStep == SchedInv /\ [SchedNext]_schedVars => SchedInv'
<1> SUFFICES ASSUME SchedInv, [SchedNext]_schedVars PROVE SchedInv'
  OBVIOUS
<1>1. CASE Tick
  BY <1>1, InterruptKeeps DEF Tick
<1>2. CASE Block
  BY <1>2, BlockKeeps
<1>3. CASE SwitchStep
  BY <1>3, BeforeScanKeeps, ScanKeeps, AfterScanKeeps DEF SwitchStep
<1>4. CASE UNCHANGED schedVars
  <2>1. SchedTypeOK' /\ StatesFollowSwitch' /\ ContextsFollowSwitch' /\ IndexInLoop'
    BY <1>4 DEF schedVars, SchedInv, SchedTypeOK, StatesFollowSwitch, ContextsFollowSwitch,
                IndexInLoop
  <2>2. KeptIsReady' /\ KeptIsBest' /\ DisturbedIsPended' /\ DispatchedIsBest'
    BY <1>4 DEF schedVars, SchedInv, KeptIsReady, KeptIsBest, DisturbedIsPended,
                DispatchedIsBest, Visited, Ready, ScanDistance
  <2> QED BY <2>1, <2>2 DEF SchedInv
<1> QED BY <1>1, <1>2, <1>3, <1>4 DEF SchedNext

\* It holds in every reachable state.
THEOREM SchedInvariant == SchedSpec => []SchedInv
BY SchedInitInv, SchedInvStep, PTL DEF SchedSpec

\* The switch's variables keep their types: the indexes of both loops stay in the table.
THEOREM SchedTypeCorrect == SchedSpec => []SchedTypeOK
<1>1. SchedInv => SchedTypeOK
  BY DEF SchedInv
<1> QED BY <1>1, SchedInvariant, PTL

\* No blocked task is dispatched and no context is mixed up with another's, wherever
\* interrupts fall in PendSV_Handler.
THEOREM SchedContextsIntact == SchedSpec => []ContextsIntact
<1>1. SchedInv => ContextsIntact
  BY DEF SchedInv, StatesFollowSwitch, ContextsFollowSwitch, ContextsIntact
<1> QED BY <1>1, SchedInvariant, PTL

\* The two loops of os_schedule_next_task pick the first of the best in round-robin
\* order, which is the one step KernelCore takes for them.
THEOREM SchedScanIsRoundRobin == SchedSpec => []ScanIsRoundRobin
<1>1. SchedInv => ScanIsRoundRobin
  <2> SUFFICES ASSUME SchedInv, at = "dispatch", undisturbed
               PROVE  \/ Ready = {} /\ task_to_run = IDLE_TASK_IDX
                      \/ /\ task_to_run \in Ready
                         /\ \A t \in Ready :
                               \/ priority[task_to_run] < priority[t]
                               \/ priority[task_to_run] = priority[t]
                                  /\ ScanDistance(task_to_run) <= ScanDistance(t)
    BY DEF ScanIsRoundRobin
  <2>1. \A t : Visited(t)
    BY DEF Visited
  <2> QED BY <2>1 DEF SchedInv, KeptIsReady, KeptIsBest, Scanning
<1> QED BY <1>1, SchedInvariant, PTL

\* Whenever no switch is pending or under way no ready task outranks the running one:
\* a task that the scan misses has pended the next switch (os_tick, port_yield).
THEOREM SchedBestTaskRuns == SchedSpec => []BestTaskRuns
<1>1. SchedInv => BestTaskRuns
  BY DEF SchedInv, StatesFollowSwitch, DispatchedIsBest, BestTaskRuns
<1> QED BY <1>1, SchedInvariant, PTL

-----------------------------------------------------------------------------
\* The steps of PendSV_Handler and its scan that a switch under way has still to take.
StepsLeft ==
    IF at = "save" THEN task_count + 6
    ELSE IF at = "demote" THEN task_count + 5
    ELSE IF at = "after" THEN (task_count - index) + current_task + 5
    ELSE IF at = "before" THEN (current_task + 1 - index) + 4
    ELSE IF at = "dispatch" THEN 3
    ELSE IF at = "run" THEN 2
    ELSE IF at = "load" THEN 1
    ELSE 0

\* A switch of task_count tasks takes task_count + 6 steps from its entry, as many for
\* every current task and every number of ready ones, and an interrupt that falls into
\* it neither lengthens it nor sends it back: what is left of it only counts down, to
\* zero in the thread.
SwitchIsBounded ==
    /\ StepsLeft \in 0 .. task_count + 6
    /\ StepsLeft = 0 <=> at = "thread"

SwitchCountsDown ==
    StepsLeft' = IF SwitchStep
                 THEN IF at = "thread" THEN task_count + 6 ELSE StepsLeft - 1
                 ELSE StepsLeft

\* The number of steps of a switch is bounded by the size of the task table, and each
\* step of PendSV_Handler brings its end one nearer, whatever interrupts it: with a
\* processor that PendSV gets in the end, that is why every switch ends.
THEOREM SchedSwitchIsBounded ==
    SchedSpec => []SwitchIsBounded /\ [][SwitchCountsDown]_schedVars
<1>1. ASSUME SchedInv PROVE SwitchIsBounded
  <2>1. /\ index \in Int /\ index <= task_count
        /\ current_task \in Int /\ 0 <= current_task /\ current_task < task_count
        /\ task_count \in Int
    BY <1>1, TableOfTasks, SchedTaskCountAssumption DEF SchedInv, SchedTypeOK
  <2>2. at \in Places
    BY <1>1 DEF SchedInv, SchedTypeOK
  <2> QED BY <1>1, <2>1, <2>2 DEF SchedInv, IndexInLoop, SwitchIsBounded, StepsLeft, Places
<1>2. ASSUME SchedInv, [SchedNext]_schedVars PROVE [SwitchCountsDown]_schedVars
  <2>1. /\ index \in Int /\ current_task \in Int /\ task_count \in Int
        /\ 0 <= current_task /\ current_task < task_count
    BY <1>2, TableOfTasks, SchedTaskCountAssumption DEF SchedInv, SchedTypeOK
  <2>2. CASE SwitchStep
    <3>1. CASE Enter
      BY <2>2, <3>1 DEF Enter, Goto, StepsLeft, SwitchCountsDown
    <3>2. CASE SaveContext \/ Dispatch \/ MarkRunning \/ LoadContext
      BY <2>1, <2>2, <3>2
      DEF SaveContext, Dispatch, MarkRunning, LoadContext, Goto, StepsLeft, SwitchCountsDown
    <3>3. CASE Demote
      BY <2>1, <2>2, <3>3 DEF Demote, Goto, FirstIndex, StepsLeft, SwitchCountsDown
    <3>4. CASE ScanAfterCurrent
      <4>1. index <= task_count
        BY <1>2 DEF SchedInv, SchedTypeOK
      <4> QED BY <2>1, <2>2, <3>4, <4>1
             DEF ScanAfterCurrent, Visit, Goto, StepsLeft, SwitchCountsDown
    <3>5. CASE ScanUpToCurrent
      <4>1. index <= current_task + 1
        BY <1>2, <3>5 DEF SchedInv, IndexInLoop, ScanUpToCurrent
      <4> QED BY <2>1, <2>2, <3>5, <4>1
             DEF ScanUpToCurrent, Visit, Goto, locals, StepsLeft, SwitchCountsDown
    <3> QED BY <2>2, <3>1, <3>2, <3>3, <3>4, <3>5 DEF SwitchStep
  <2>3. CASE ~SwitchStep /\ (Tick \/ Block)
    BY <2>3 DEF Tick, Interrupt, Block, locals, StepsLeft, SwitchCountsDown
  <2> QED BY <1>2, <2>2, <2>3 DEF SchedNext
<1> QED BY <1>1, <1>2, SchedInvariant, PTL DEF SchedSpec

=============================================================================
