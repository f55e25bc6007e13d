--------------------------- MODULE KernelCoreProofs ---------------------------
(***************************************************************************)
(* What the operations of KernelCore preserve, whatever primitive calls    *)
(* them: one lemma per operation, cited by the proofs about Semaphore,     *)
(* Mutex and MessageQueue.                                                 *)
(***************************************************************************)
EXTENDS KernelCore, TLAPS, FiniteSetTheorems

\* The inductive invariant of every primitive.  TCBMatchesWaitlists needs
\* ProcessorConsistent: a call goes on after its block only because its task is on
\* the processor, hence RUNNING, hence an entry of no waitlist any more.
CoreInv == CoreTypeOK /\ TCBMatchesWaitlists /\ ProcessorConsistent

CoreAssumptions == /\ task_count \in Nat /\ task_count > 1
                   /\ NULL \notin Waitlists
                   /\ TickModulus \in Nat /\ TickModulus > 2

\* The constants are as the modules assume.
LEMMA Constants == CoreAssumptions
BY TaskCountAssumption, NullAssumption, TickAssumption DEF CoreAssumptions

\* The idle task is index 0 of the table and no user task.
LEMMA IdleIsNoUserTask ==
    /\ IDLE_TASK_IDX \in Tasks
    /\ IDLE_TASK_IDX \notin UserTasks
    /\ UserTasks \subseteq Tasks
    /\ \A t \in Tasks : t = IDLE_TASK_IDX \/ t \in UserTasks
BY TaskCountAssumption DEF IDLE_TASK_IDX, UserTasks, Tasks

\* The wakeup_tick a block stores is a value of the 32-bit counter.
LEMMA DeadlineType ==
    ASSUME systick_count \in Ticks, NEW ticks \in Ticks
    PROVE  Deadline(ticks) \in Ticks
BY TickAssumption DEF Deadline, Ticks

-----------------------------------------------------------------------------
\* The initial state, after os_kernel_start.
LEMMA InitCore == CoreInit => CoreInv
<1>1. CoreInit => CoreTypeOK
  <2> SUFFICES ASSUME CoreInit PROVE CoreTypeOK
    OBVIOUS
  <2>1. current_task \in Tasks /\ current_state \in [Tasks -> {"READY", "RUNNING", "BLOCKED"}]
    BY IdleIsNoUserTask DEF CoreInit
  <2>2. /\ effective_priority \in [UserTasks -> Nat]
        /\ wakeup_tick \in [UserTasks -> Ticks]
        /\ systick_count \in Ticks
    BY PriorityAssumption, TickAssumption DEF CoreInit, Ticks
  <2>3. /\ block_reason \in [UserTasks -> Reasons]
        /\ blocked_waitlist \in [UserTasks -> Waitlists \cup {NULL}]
        /\ in_call \in [UserTasks -> Waitlists \cup {NULL}]
        /\ waiters \in [Waitlists -> SUBSET UserTasks]
        /\ ahead \in [UserTasks -> SUBSET UserTasks]
    BY DEF CoreInit, Reasons
  <2>4. pendsv \in BOOLEAN /\ timeout \in [UserTasks -> BOOLEAN]
    BY Zenon DEF CoreInit
  <2> QED BY <2>1, <2>2, <2>3, <2>4 DEF CoreTypeOK
<1>2. CoreInit => TCBMatchesWaitlists
  BY NullAssumption DEF CoreInit, TCBMatchesWaitlists
<1>3. CoreInit => ProcessorConsistent
  BY IdleIsNoUserTask DEF CoreInit, ProcessorConsistent
<1> QED BY <1>1, <1>2, <1>3 DEF CoreInv

\* The task on the processor is RUNNING, so it is an entry of no waitlist.
LEMMA RunningIsInNoList ==
    ASSUME CoreInv, NEW t \in UserTasks, OnCpu(t)
    PROVE  blocked_waitlist[t] = NULL /\ \A w \in Waitlists : t \notin waiters[w]
BY NullAssumption
DEF CoreInv, CoreTypeOK, OnCpu, TCBMatchesWaitlists, ProcessorConsistent

\* os_task_delay: its caller is in no call, so it is an entry of no waitlist.
LEMMA DelayKeepsCore ==
    ASSUME CoreInv, NEW t \in UserTasks, NEW ticks \in Ticks, os_task_delay(t, ticks)
    PROVE  CoreInv'
<1>1. CoreTypeOK'
  BY DeadlineType, IdleIsNoUserTask
  DEF CoreInv, CoreTypeOK, os_task_delay, BlockCurrent, port_yield, InApplication,
      OnCpu, listVars, Reasons
<1>2. TCBMatchesWaitlists'
  BY NullAssumption, IdleIsNoUserTask
  DEF CoreInv, CoreTypeOK, TCBMatchesWaitlists, os_task_delay, BlockCurrent,
      InApplication, OnCpu, listVars
<1>3. ProcessorConsistent'
  BY IdleIsNoUserTask
  DEF CoreInv, CoreTypeOK, ProcessorConsistent, os_task_delay, BlockCurrent, port_yield,
      InApplication, OnCpu
<1> QED BY <1>1, <1>2, <1>3 DEF CoreInv

\* waitlist_block_current, called by the task on the processor from a call of its own.
LEMMA BlockKeepsCore ==
    ASSUME CoreInv, NEW t \in UserTasks, OnCpu(t), blocked_waitlist[t] = NULL,
           NEW w \in Waitlists, NEW ticks \in Ticks, NEW reason \in Reasons \ {"NONE"},
           waitlist_block_current(w, ticks, reason),
           effective_priority' \in [UserTasks -> Nat]
    PROVE  CoreInv'
<1>1. CoreTypeOK'
  <2>1. current_task = t /\ t \in Tasks /\ Deadline(ticks) \in Ticks
    BY DeadlineType, IdleIsNoUserTask DEF CoreInv, CoreTypeOK, OnCpu
  <2>2. /\ current_state' \in [Tasks -> {"READY", "RUNNING", "BLOCKED"}]
        /\ wakeup_tick' \in [UserTasks -> Ticks]
        /\ block_reason' \in [UserTasks -> Reasons]
    BY <2>1 DEF CoreInv, CoreTypeOK, waitlist_block_current, BlockCurrent
  <2>3. /\ blocked_waitlist' \in [UserTasks -> Waitlists \cup {NULL}]
        /\ in_call' \in [UserTasks -> Waitlists \cup {NULL}]
    BY <2>1 DEF CoreInv, CoreTypeOK, waitlist_block_current
  <2>4. /\ waiters' \in [Waitlists -> SUBSET UserTasks]
        /\ ahead' \in [UserTasks -> SUBSET UserTasks]
    BY <2>1 DEF CoreInv, CoreTypeOK, waitlist_block_current, AppendCurrent
  <2>5. /\ current_task' \in Tasks /\ systick_count' \in Ticks
        /\ timeout' \in [UserTasks -> BOOLEAN] /\ pendsv' \in BOOLEAN
    BY DEF CoreInv, CoreTypeOK, waitlist_block_current, BlockCurrent, port_yield
  <2> QED BY <2>2, <2>3, <2>4, <2>5 DEF CoreTypeOK
<1>2. TCBMatchesWaitlists'
  BY NullAssumption, IdleIsNoUserTask
  DEF CoreInv, CoreTypeOK, TCBMatchesWaitlists, waitlist_block_current, BlockCurrent,
      AppendCurrent, OnCpu
<1>3. ProcessorConsistent'
  BY IdleIsNoUserTask
  DEF CoreInv, CoreTypeOK, ProcessorConsistent, waitlist_block_current, BlockCurrent,
      port_yield, OnCpu
<1> QED BY <1>1, <1>2, <1>3 DEF CoreInv

\* waitlist_unblock that wakes a task: the task leaves the list and its TCB says so.  The
\* caller's own call may be over with it (Leave), any other waiter's is not.
LEMMA WakeKeepsCore ==
    ASSUME CoreInv, NEW w \in Waitlists, NEW u \in UserTasks, waitlist_unblock(w, u),
           UNCHANGED <<current_task, systick_count>>, port_yield,
           in_call' \in [UserTasks -> Waitlists \cup {NULL}],
           \A v \in UserTasks : blocked_waitlist[v] # NULL => in_call'[v] = in_call[v],
           effective_priority' \in [UserTasks -> Nat]
    PROVE  CoreInv'
<1>1. CoreTypeOK'
  <2>0. 0 \in Ticks
    BY TickAssumption DEF Ticks
  <2>1. /\ current_state' \in [Tasks -> {"READY", "RUNNING", "BLOCKED"}]
        /\ block_reason' \in [UserTasks -> Reasons]
        /\ wakeup_tick' \in [UserTasks -> Ticks]
        /\ blocked_waitlist' \in [UserTasks -> Waitlists \cup {NULL}]
    BY <2>0 DEF CoreInv, CoreTypeOK, waitlist_unblock, Reasons
  <2>2. timeout' \in [UserTasks -> BOOLEAN]
    BY DEF CoreInv, CoreTypeOK, waitlist_unblock, ClearTimeout
  <2>3. /\ waiters' \in [Waitlists -> SUBSET UserTasks]
        /\ ahead' \in [UserTasks -> SUBSET UserTasks]
    BY DEF CoreInv, CoreTypeOK, waitlist_unblock, Remove
  <2>4. /\ current_task' \in Tasks /\ systick_count' \in Ticks /\ pendsv' \in BOOLEAN
        /\ in_call' \in [UserTasks -> Waitlists \cup {NULL}]
    BY DEF CoreInv, CoreTypeOK, port_yield
  <2> QED BY <2>1, <2>2, <2>3, <2>4 DEF CoreTypeOK
<1>2. TCBMatchesWaitlists'
  BY NullAssumption, IdleIsNoUserTask
  DEF CoreInv, CoreTypeOK, TCBMatchesWaitlists, waitlist_unblock, NextWaiter, Remove
<1>3. ProcessorConsistent'
  BY NullAssumption, IdleIsNoUserTask
  DEF CoreInv, CoreTypeOK, TCBMatchesWaitlists, ProcessorConsistent, waitlist_unblock,
      NextWaiter, port_yield
<1> QED BY <1>1, <1>2, <1>3 DEF CoreInv

\* The same when the caller was in no call.
LEMMA UnblockKeepsCore ==
    ASSUME CoreInv, NEW w \in Waitlists, NEW u \in UserTasks, waitlist_unblock(w, u),
           UNCHANGED <<current_task, systick_count, in_call>>, port_yield,
           effective_priority' \in [UserTasks -> Nat]
    PROVE  CoreInv'
BY WakeKeepsCore DEF CoreInv, CoreTypeOK

\* os_tick: every expired waiter is found in the list its TCB names.
LEMMA TickKeepsCore ==
    ASSUME CoreInv, os_tick
    PROVE  CoreInv'
<1> DEFINE now == (systick_count + 1) % TickModulus
<1>0. /\ systick_count' = now /\ now \in Ticks
      /\ unblock_tasks(Expired(now)) /\ port_yield
      /\ UNCHANGED <<current_task, effective_priority, in_call>>
  BY TickAssumption DEF CoreInv, CoreTypeOK, os_tick, Ticks
<1>1. Expired(now) \subseteq UserTasks /\ \A t \in Expired(now) : current_state[t] = "BLOCKED"
  BY DEF Expired
<1> DEFINE expired == Expired(now)
<1> HIDE DEF now, expired
<1>2. \A t \in expired : blocked_waitlist[t] # NULL <=> FoundInList(t)
  BY <1>1 DEF expired, CoreInv, CoreTypeOK, TCBMatchesWaitlists, FoundInList
<1>3. CoreTypeOK'
  <2>1. /\ current_state' \in [Tasks -> {"READY", "RUNNING", "BLOCKED"}]
        /\ block_reason' \in [UserTasks -> Reasons]
        /\ wakeup_tick' \in [UserTasks -> Ticks]
    BY <1>0, TickAssumption
    DEF expired, CoreInv, CoreTypeOK, unblock_tasks, Ticks, Reasons
  <2>2. timeout' \in [UserTasks -> BOOLEAN]
    BY <1>0, Zenon DEF expired, CoreInv, CoreTypeOK, unblock_tasks
  <2>3. blocked_waitlist' \in [UserTasks -> Waitlists \cup {NULL}]
    BY <1>0 DEF expired, CoreInv, CoreTypeOK, unblock_tasks
  <2>4. /\ waiters' \in [Waitlists -> SUBSET UserTasks]
        /\ ahead' \in [UserTasks -> SUBSET UserTasks]
    BY <1>0 DEF expired, CoreInv, CoreTypeOK, unblock_tasks, Remove
  <2>5. /\ current_task' \in Tasks /\ systick_count' \in Ticks /\ pendsv' \in BOOLEAN
        /\ effective_priority' \in [UserTasks -> Nat]
        /\ in_call' \in [UserTasks -> Waitlists \cup {NULL}]
    BY <1>0 DEF CoreInv, CoreTypeOK, port_yield
  <2> QED BY <2>1, <2>2, <2>3, <2>4, <2>5 DEF CoreTypeOK
<1>4. TCBMatchesWaitlists'
  BY <1>0, <1>1, <1>2, NullAssumption, IdleIsNoUserTask
  DEF expired, CoreInv, CoreTypeOK, TCBMatchesWaitlists, unblock_tasks, Remove
<1>5. ProcessorConsistent'
  BY <1>0, <1>1, IdleIsNoUserTask
  DEF expired, CoreInv, CoreTypeOK, ProcessorConsistent, unblock_tasks, port_yield
<1> QED BY <1>3, <1>4, <1>5 DEF CoreInv

\* PendSV: the scan dispatches a task that is not blocked.
LEMMA SwitchKeepsCore ==
    ASSUME CoreInv, PendSV_Handler
    PROVE  CoreInv'
<1>0. PICK next \in Tasks :
         /\ NextTask(next, ReadyTasks(RunningToReady))
         /\ current_task' = next
         /\ current_state' = [RunningToReady EXCEPT ![next] = "RUNNING"]
  BY DEF PendSV_Handler, os_schedule_next_task
<1>1. /\ RunningToReady \in [Tasks -> {"READY", "RUNNING", "BLOCKED"}]
      /\ \A t \in Tasks : RunningToReady[t] = "BLOCKED" <=> current_state[t] = "BLOCKED"
      /\ \A t \in Tasks : RunningToReady[t] # "RUNNING"
  BY DEF CoreInv, CoreTypeOK, ProcessorConsistent, RunningToReady
<1>2. next = IDLE_TASK_IDX \/ RunningToReady[next] = "READY"
  BY <1>0 DEF NextTask, ChosenByScan, ReadyTasks
<1>3. \A t \in UserTasks : current_state'[t] = "BLOCKED" <=> current_state[t] = "BLOCKED"
  BY <1>0, <1>1, <1>2, IdleIsNoUserTask
<1>4. UNCHANGED <<effective_priority, wakeup_tick, block_reason, timeout,
                  systick_count, in_call, waiters, ahead, blocked_waitlist>>
      /\ pendsv' = FALSE
  BY DEF PendSV_Handler, listVars
<1>5. CoreTypeOK'
  BY <1>0, <1>1, <1>4 DEF CoreInv, CoreTypeOK
<1>6. TCBMatchesWaitlists'
  BY <1>3, <1>4, IdleIsNoUserTask DEF CoreInv, TCBMatchesWaitlists
<1>7. ProcessorConsistent'
  BY <1>0, <1>1, <1>2, <1>3, <1>4, IdleIsNoUserTask DEF CoreInv, ProcessorConsistent
<1> QED BY <1>5, <1>6, <1>7 DEF CoreInv

-----------------------------------------------------------------------------
\* The task the scan dispatches has the best effective priority of all that are ready.
LEMMA SwitchPicksBest ==
    ASSUME CoreInv, PendSV_Handler
    PROVE  HighestPriorityRuns'
<1>1. PICK next \in Tasks :
         /\ NextTask(next, ReadyTasks(RunningToReady))
         /\ current_task' = next
         /\ current_state' = [RunningToReady EXCEPT ![next] = "RUNNING"]
         /\ effective_priority' = effective_priority
  BY DEF PendSV_Handler, os_schedule_next_task
<1>2. RunningToReady \in [Tasks -> {"READY", "RUNNING", "BLOCKED"}]
  BY DEF CoreInv, CoreTypeOK, RunningToReady
<1>3. ReadyTasks(current_state') \subseteq ReadyTasks(RunningToReady)
  BY <1>1, <1>2, IdleIsNoUserTask DEF ReadyTasks
<1>4. CASE ReadyTasks(RunningToReady) = {}
  BY <1>1, <1>3, <1>4 DEF HighestPriorityRuns
<1>5. CASE ChosenByScan(next, ReadyTasks(RunningToReady))
  <2>1. next \in UserTasks
    BY <1>5 DEF ChosenByScan, ReadyTasks
  <2>2. \A u \in ReadyTasks(RunningToReady) :
           effective_priority[next] <= effective_priority[u]
    BY <1>5, <2>1 DEF ChosenByScan, ReadyTasks, CoreInv, CoreTypeOK
  <2> QED BY <1>1, <1>3, <2>1, <2>2, IdleIsNoUserTask DEF HighestPriorityRuns
<1> QED BY <1>1, <1>4, <1>5 DEF NextTask

\* The task os_kernel_start picks has the best base priority.
LEMMA InitPicksBest == CoreInit => HighestPriorityRuns
BY IdleIsNoUserTask, PriorityAssumption DEF CoreInit, HighestPriorityRuns, ReadyTasks

\* What the handlers do to the scheduler: they are the switch, or they pend one, or they
\* leave alone what it goes by.
SchedulingStep ==
    \/ PendSV_Handler
    \/ pendsv' = TRUE
    \/ UNCHANGED <<current_task, current_state, pendsv, effective_priority>>

\* Such a step never leaves a better task ready without a pending switch.
LEMMA SchedulingKeepsBest ==
    ASSUME CoreInv, HighestPriorityRuns, SchedulingStep
    PROVE  HighestPriorityRuns'
<1>1. CASE pendsv' = TRUE
  BY <1>1 DEF HighestPriorityRuns
<1>2. CASE UNCHANGED <<current_task, current_state, pendsv, effective_priority>>
  BY <1>2 DEF HighestPriorityRuns, ReadyTasks
<1> QED BY <1>1, <1>2, SwitchPicksBest DEF SchedulingStep

\* The scan goes round the table from the task that was running: whoever it passes over is
\* as far behind the chosen task as he was behind the old one, less the way in between.
LEMMA ScanGoesRound ==
    ASSUME CoreInv, NEW t \in UserTasks, NEW next \in UserTasks, t # next,
           current_task' = next, ScanDistance(next) <= ScanDistance(t)
    PROVE  ScanDistance(t)' < ScanDistance(t)
<1>1. /\ t \in Nat /\ next \in Nat /\ current_task \in Nat /\ task_count \in Nat
      /\ t < task_count /\ next < task_count /\ current_task < task_count /\ next > 0
  BY TaskCountAssumption DEF CoreInv, CoreTypeOK, UserTasks, Tasks
<1>2. ScanDistance(t)' = IF t > next THEN t - next ELSE t + task_count - next
  BY DEF ScanDistance
<1> QED BY <1>1, <1>2 DEF ScanDistance

\* The switch passes a task by that none outranks only for one that comes before it.
LEMMA SwitchServesTurn ==
    ASSUME CoreInv, PendSV_Handler, NEW t \in ReadyTasks(RunningToReady),
           \A u \in ReadyTasks(RunningToReady) :
              effective_priority[t] <= effective_priority[u]
    PROVE  ServesTurnOf(t)
<1>1. PICK next \in Tasks :
         /\ NextTask(next, ReadyTasks(RunningToReady))
         /\ current_task' = next
  BY DEF PendSV_Handler, os_schedule_next_task
<1>2. ChosenByScan(next, ReadyTasks(RunningToReady))
  BY <1>1 DEF NextTask
<1>3. next \in UserTasks /\ t \in UserTasks
  BY <1>2 DEF ChosenByScan, ReadyTasks
<1>4. ScanDistance(next) <= ScanDistance(t)
  BY <1>2, <1>3 DEF ChosenByScan, CoreInv, CoreTypeOK
<1> QED BY <1>1, <1>3, <1>4, ScanGoesRound DEF ServesTurnOf

\* Only the switch itself ends the wait for one.
LEMMA SchedulingServesTurns ==
    ASSUME CoreInv, PendSV_Handler \/ pendsv' = TRUE \/ pendsv' = pendsv
    PROVE  SwitchServesTurns
BY SwitchServesTurn DEF SwitchServesTurns, CoreInv, CoreTypeOK

-----------------------------------------------------------------------------
(* The order of the waitlists.                                              *)

\* The entries of a list are in one line: task_waitlist[] without gaps.
ListOrdered(entries, before) ==
    \A u \in entries :
        /\ before[u] \subseteq entries \ {u}
        /\ \A v \in entries \ {u} : v \in before[u] <=> u \notin before[v]
        /\ \A v \in before[u] : before[v] \subseteq before[u]

ListsOrdered == \A w \in Waitlists : ListOrdered(waiters[w], ahead)

\* Removing tasks closes the gaps they leave.
LEMMA RemoveKeepsOrder ==
    ASSUME CoreInv, ListsOrdered, NEW leavers, Remove(leavers)
    PROVE  ListsOrdered'
<1>1. ASSUME NEW w \in Waitlists PROVE ListOrdered(waiters[w], ahead)'
  <2>1. ListOrdered(waiters[w], ahead) /\ waiters[w] \subseteq UserTasks
    BY DEF ListsOrdered, CoreInv, CoreTypeOK
  <2>2. /\ waiters'[w] = waiters[w] \ leavers
        /\ \A u \in UserTasks \ leavers : ahead'[u] = ahead[u] \ leavers
    BY DEF Remove
  <2> QED BY <2>1, <2>2 DEF ListOrdered
<1> QED BY <1>1 DEF ListsOrdered

\* An appended task comes behind all others.
LEMMA AppendKeepsOrder ==
    ASSUME CoreInv, ListsOrdered, NEW t \in UserTasks, current_task = t,
           \A w \in Waitlists : t \notin waiters[w],
           NEW m \in Waitlists, AppendCurrent(m)
    PROVE  ListsOrdered'
<1>1. /\ waiters' = [waiters EXCEPT ![m] = @ \cup {t}]
      /\ ahead' = [ahead EXCEPT ![t] = waiters[m]]
      /\ waiters \in [Waitlists -> SUBSET UserTasks] /\ ahead \in [UserTasks -> SUBSET UserTasks]
  BY DEF AppendCurrent, CoreInv, CoreTypeOK
<1>2. ASSUME NEW w \in Waitlists, w # m PROVE ListOrdered(waiters[w], ahead)'
  <2>1. /\ ListOrdered(waiters[w], ahead) /\ waiters'[w] = waiters[w]
        /\ \A u \in waiters[w] : ahead'[u] = ahead[u]
    BY <1>1, <1>2 DEF ListsOrdered
  <2> QED BY <2>1 DEF ListOrdered
<1>3. ListOrdered(waiters[m], ahead)'
  <2>1. /\ ListOrdered(waiters[m], ahead) /\ waiters'[m] = waiters[m] \cup {t}
        /\ ahead'[t] = waiters[m] /\ t \notin waiters[m]
        /\ \A u \in waiters[m] : ahead'[u] = ahead[u]
    BY <1>1 DEF ListsOrdered
  <2> QED BY <2>1 DEF ListOrdered
<1> QED BY <1>2, <1>3 DEF ListsOrdered

\* Index j of a list of more than j entries is that of exactly one entry.
LEMMA IndexesAreFilled ==
    ASSUME CoreInv, ListsOrdered, NEW w \in Waitlists
    PROVE  /\ IsFiniteSet(waiters[w]) /\ Cardinality(waiters[w]) \in Nat
           /\ \A u, v \in waiters[w] : Cardinality(ahead[u]) = Cardinality(ahead[v]) => u = v
           /\ \A j \in Nat : j < Cardinality(waiters[w]) =>
                 \E u \in waiters[w] : Cardinality(ahead[u]) = j
<1> DEFINE entries == waiters[w]
           n == Cardinality(entries)
           index == [u \in entries |-> Cardinality(ahead[u])]
<1>1. IsFiniteSet(entries) /\ n \in Nat /\ entries \subseteq UserTasks
  <2>1. IsFiniteSet(UserTasks)
    BY TaskCountAssumption, FS_Interval DEF UserTasks
  <2>2. entries \in SUBSET UserTasks
    BY DEF CoreInv, CoreTypeOK
  <2> QED BY <2>1, <2>2, FS_Subset, FS_CardinalityType
<1>2. ListOrdered(entries, ahead)
  BY DEF ListsOrdered
<1> HIDE DEF entries
<1>3. ASSUME NEW u \in entries
      PROVE  /\ IsFiniteSet(ahead[u]) /\ Cardinality(ahead[u]) \in Nat
             /\ Cardinality(ahead[u]) < n
  <2>1. ahead[u] \in SUBSET (entries \ {u})
    BY <1>2 DEF ListOrdered
  <2>2. IsFiniteSet(entries \ {u}) /\ Cardinality(entries \ {u}) = n - 1
    BY <1>1, FS_RemoveElement
  <2>3. IsFiniteSet(ahead[u]) /\ Cardinality(ahead[u]) <= n - 1
    BY <2>1, <2>2, FS_Subset
  <2>4. Cardinality(ahead[u]) \in Nat
    BY <2>3, FS_CardinalityType
  <2> QED BY <1>1, <2>3, <2>4
<1>4. ASSUME NEW u \in entries, NEW v \in entries, u \in ahead[v]
      PROVE  Cardinality(ahead[u]) < Cardinality(ahead[v])
  <2>1. ahead[u] \in SUBSET (ahead[v] \ {u})
    BY <1>2, <1>4 DEF ListOrdered
  <2>2. /\ IsFiniteSet(ahead[v] \ {u})
        /\ Cardinality(ahead[v] \ {u}) = Cardinality(ahead[v]) - 1
    BY <1>3, <1>4, FS_RemoveElement
  <2>3. Cardinality(ahead[u]) <= Cardinality(ahead[v]) - 1
    BY <2>1, <2>2, FS_Subset
  <2> QED BY <1>3, <2>3
<1>5. ASSUME NEW u \in entries, NEW v \in entries,
             Cardinality(ahead[u]) = Cardinality(ahead[v]), u # v
      PROVE  FALSE
  <2>1. u \in ahead[v] \/ v \in ahead[u]
    BY <1>2, <1>5 DEF ListOrdered
  <2> QED BY <1>3, <1>4, <1>5, <2>1
<1>6. index \in Injection(entries, 0 .. n - 1)
  <2>1. index \in [entries -> 0 .. n - 1]
    BY <1>1, <1>3
  <2> QED BY <1>5, <2>1 DEF Injection, IsInjective
<1>7. IsFiniteSet(0 .. n - 1) /\ Cardinality(0 .. n - 1) = n
  <2>1. n \in Nat /\ 0 \in Int /\ n - 1 \in Int
    BY <1>1
  <2> HIDE DEF n
  <2>2. /\ IsFiniteSet(0 .. n - 1)
        /\ Cardinality(0 .. n - 1) = IF 0 > n - 1 THEN 0 ELSE (n - 1) - 0 + 1
    BY <2>1, FS_Interval
  <2> QED BY <2>1, <2>2
<1>8. index \in Surjection(entries, 0 .. n - 1)
  <2> HIDE DEF index
  <2> QED BY <1>6, <1>7, FS_Injection
<1>9. ASSUME NEW j \in Nat, j < n PROVE \E u \in entries : Cardinality(ahead[u]) = j
  <2>1. j \in 0 .. n - 1
    BY <1>1, <1>9
  <2> QED BY <1>8, <2>1 DEF Surjection
<1> QED BY <1>1, <1>5, <1>9 DEF entries

\* What the handlers do to the waitlists: nothing, or the running task goes to the end of
\* one, or one gives up the entry it has to, or deadlines end waits.
WaitlistStep ==
    \/ UNCHANGED <<waiters, ahead>>
    \/ /\ current_task \in UserTasks /\ \A w \in Waitlists : current_task \notin waiters[w]
       /\ \E w \in Waitlists : AppendCurrent(w)
    \/ \E t \in UserTasks, w \in Waitlists : NextWaiter(t, w) /\ Remove({t})
    \/ \E leavers \in SUBSET UserTasks : Remove(leavers) /\ \A t \in leavers : timeout'[t]

\* Such a step keeps every list in one line.
LEMMA WaitlistStepKeepsOrder ==
    ASSUME CoreInv, ListsOrdered, WaitlistStep
    PROVE  ListsOrdered'
<1>1. CASE UNCHANGED <<waiters, ahead>>
  BY <1>1 DEF ListsOrdered, ListOrdered
<1> QED BY <1>1, AppendKeepsOrder, RemoveKeepsOrder DEF WaitlistStep

\* And lets nobody overtake.
LEMMA WaitlistStepInOrder ==
    ASSUME CoreInv, WaitlistStep, NEW w \in Waitlists, NEW u \in waiters[w],
           NEW t \in ahead[u] \cap waiters'[w]
    PROVE  LeavesTheirOrder(w, t, u)
<1> USE DEF CoreInv, CoreTypeOK, LeavesTheirOrder
<1>1. CASE UNCHANGED <<waiters, ahead>>
  BY <1>1
<1>2. ASSUME NEW v \in Waitlists, AppendCurrent(v), current_task \in UserTasks,
             \A x \in Waitlists : current_task \notin waiters[x]
      PROVE  u \in waiters'[w] /\ t \in ahead'[u]
  BY <1>2 DEF AppendCurrent
<1>3. ASSUME NEW leavers \in SUBSET UserTasks, Remove(leavers), u \notin leavers
      PROVE  u \in waiters'[w] /\ t \in ahead'[u]
  BY <1>3 DEF Remove
<1>4. ASSUME NEW v \in Waitlists, NextWaiter(u, v), Remove({u})
      PROVE  LeavesTheirOrder(w, t, u)
  <2>1. t \in waiters[w] /\ u \notin waiters'[w] /\ v = w
    BY <1>4, NullAssumption DEF Remove, NextWaiter, TCBMatchesWaitlists
  <2>2. schedule_policy[w] = "PRIORITY" /\ effective_priority[u] < effective_priority[t]
    BY <1>4, <2>1, PolicyAssumption DEF NextWaiter
  <2> QED BY <2>1, <2>2
<1>5. ASSUME NEW leavers \in SUBSET UserTasks, Remove(leavers),
             \A x \in leavers : timeout'[x], u \in leavers
      PROVE  u \notin waiters'[w] /\ timeout'[u]
  BY <1>5 DEF Remove
<1> QED
  <2>1. ASSUME NEW x \in UserTasks, NEW v \in Waitlists, NextWaiter(x, v), Remove({x})
        PROVE  LeavesTheirOrder(w, t, u)
    <3>1. CASE x = u
      BY <1>4, <2>1, <3>1
    <3>2. CASE x # u
      BY <1>3, <2>1, <3>2
    <3> QED BY <3>1, <3>2
  <2>2. ASSUME NEW leavers \in SUBSET UserTasks, Remove(leavers), \A x \in leavers : timeout'[x]
        PROVE  LeavesTheirOrder(w, t, u)
    BY <1>3, <1>5, <2>2
  <2> QED BY <1>1, <1>2, <2>1, <2>2 DEF WaitlistStep

\* Nobody waits when the scheduler starts.
LEMMA InitOrdered == CoreInit => ListsOrdered
BY DEF CoreInit, ListsOrdered, ListOrdered

\* What the ticks take off the lists are waits that end by their deadline.
LEMMA TickIsWaitlistStep ==
    ASSUME CoreInv, os_tick
    PROVE  WaitlistStep
<1> DEFINE expired == Expired((systick_count + 1) % TickModulus)
           leavers == {t \in expired : FoundInList(t)}
<1>1. unblock_tasks(expired)
  BY DEF os_tick
<1>2. leavers \in SUBSET UserTasks
  BY DEF Expired
<1> HIDE DEF expired
<1>3. Remove(leavers) /\ \A t \in leavers : timeout'[t]
  BY <1>1, <1>2 DEF unblock_tasks, FoundInList
<1> QED BY <1>2, <1>3 DEF WaitlistStep

\* Every wait list is an array without gaps: each index below wait_count holds one entry and
\* no entry is there twice, so there is room for one more.
WaitlistsAreArrays ==
    \A w \in Waitlists :
        /\ Cardinality(waiters[w]) < task_count
        /\ \A j \in 0 .. Cardinality(waiters[w]) - 1 :
              \E t \in waiters[w] :
                 \A u \in waiters[w] : Cardinality(ahead[u]) = j <=> u = t

\* The order makes it one.
LEMMA OrderMakesArrays ==
    ASSUME CoreInv, ListsOrdered
    PROVE  WaitlistsAreArrays
<1> SUFFICES ASSUME NEW w \in Waitlists
             PROVE  /\ Cardinality(waiters[w]) < task_count
                    /\ \A j \in 0 .. Cardinality(waiters[w]) - 1 :
                          \E t \in waiters[w] :
                             \A u \in waiters[w] : Cardinality(ahead[u]) = j <=> u = t
  BY DEF WaitlistsAreArrays
<1>1. task_count \in Nat /\ task_count > 1
  BY TaskCountAssumption
<1>2. IsFiniteSet(UserTasks) /\ Cardinality(UserTasks) = task_count - 1
  BY <1>1, FS_Interval DEF UserTasks
<1>3. waiters[w] \in SUBSET UserTasks
  BY DEF CoreInv, CoreTypeOK
<1>4. Cardinality(waiters[w]) <= task_count - 1
  BY <1>2, <1>3, FS_Subset
<1>5. Cardinality(waiters[w]) \in Nat
  BY IndexesAreFilled
<1>6. ASSUME NEW j \in 0 .. Cardinality(waiters[w]) - 1
      PROVE  \E t \in waiters[w] : \A u \in waiters[w] : Cardinality(ahead[u]) = j <=> u = t
  <2>1. j \in Nat /\ j < Cardinality(waiters[w])
    BY <1>5
  <2>2. PICK t \in waiters[w] : Cardinality(ahead[t]) = j
    BY <2>1, IndexesAreFilled
  <2>3. \A u \in waiters[w] : Cardinality(ahead[u]) = j => u = t
    BY <2>2, IndexesAreFilled
  <2> QED BY <2>2, <2>3
<1> QED BY <1>1, <1>4, <1>5, <1>6

-----------------------------------------------------------------------------
\* A task that os_task_delay has blocked is in no other call, so the tick that wakes it
\* does not make it look like one that was woken in a call.
DelayedInNoCall ==
    \A t \in UserTasks :
        current_state[t] = "BLOCKED" /\ blocked_waitlist[t] = NULL => in_call[t] = NULL

=============================================================================
