--------------------------- MODULE SemaphoreProofs ---------------------------
(***************************************************************************)
(* The safety properties of the semaphores, for any number of tasks,       *)
(* semaphores and ticks, any timeouts and any priorities.                  *)
(***************************************************************************)
EXTENDS Semaphore, KernelCoreProofs

\* The inductive invariant.
SemInv == CoreInv /\ SemTypeOK /\ NoIdlePermit /\ HighestPriorityRuns

\* What can go on at a semaphore, one disjunct per handler of the code.
LEMMA SemSteps ==
    ASSUME SemNext
    PROVE  \/ SemTick \/ SemSwitch
           \/ \E t \in UserTasks, s \in Sems :
                 \/ SemTake(t, s) \/ SemReturn(t, s)
                 \/ SemHandOver(t, s) \/ SemIncrement(t, s)
           \/ \E t \in UserTasks, s \in Sems, ticks \in Ticks : SemBlock(t, s, ticks)
           \/ \E t \in UserTasks, ticks \in Ticks : SemDelay(t, ticks)
BY TimeoutsAssumption, DelaysAssumption DEF SemNext, SemTaskStep

\* The initial state, after os_sem_create for each semaphore.
LEMMA SemInitInv == SemInit => SemInv
<1> SUFFICES ASSUME SemInit PROVE SemInv
  OBVIOUS
<1>1. CoreInv
  BY InitCore DEF SemInit
<1>2. SemTypeOK
  BY <1>1, InitialAssumption DEF SemInit, SemTypeOK, CoreInv
<1>3. NoIdlePermit
  BY SemsAssumption DEF SemInit, CoreInit, NoIdlePermit
<1>4. HighestPriorityRuns
  BY InitPicksBest DEF SemInit
<1> QED BY <1>1, <1>2, <1>3, <1>4 DEF SemInv

-----------------------------------------------------------------------------
\* Every handler of the semaphores preserves what the kernel relies on.
LEMMA SemCoreStep ==
    ASSUME SemInv, [SemNext]_semVars
    PROVE  CoreInv'
<1> USE SemsAssumption DEF SemInv
<1>1. CASE UNCHANGED semVars
  BY <1>1 DEF semVars, coreVars, CoreInv, CoreTypeOK, TCBMatchesWaitlists,
              ProcessorConsistent
<1>2. CASE SemTick
  BY <1>2, TickKeepsCore DEF SemTick
<1>3. CASE SemSwitch
  BY <1>3, SwitchKeepsCore DEF SemSwitch
<1>4. ASSUME NEW t \in UserTasks, NEW s \in Sems, SemTake(t, s)
      PROVE  CoreInv'
  BY <1>4 DEF SemTake, coreVars, CoreInv, CoreTypeOK, TCBMatchesWaitlists,
              ProcessorConsistent
<1>5. ASSUME NEW t \in UserTasks, NEW s \in Sems, SemReturn(t, s)
      PROVE  CoreInv'
  <2>1. CoreTypeOK'
    BY <1>5 DEF SemReturn, listVars, CoreInv, CoreTypeOK
  <2>2. blocked_waitlist[t] = NULL
    BY <1>5 DEF SemReturn, OnCpu, CoreInv, CoreTypeOK, TCBMatchesWaitlists,
                ProcessorConsistent
  <2>3. TCBMatchesWaitlists'
    BY <1>5, <2>2 DEF SemReturn, listVars, CoreInv, CoreTypeOK, TCBMatchesWaitlists
  <2>4. ProcessorConsistent'
    BY <1>5 DEF SemReturn, CoreInv, ProcessorConsistent
  <2> QED BY <2>1, <2>3, <2>4 DEF CoreInv
<1>6. ASSUME NEW t \in UserTasks, NEW s \in Sems, SemHandOver(t, s)
      PROVE  CoreInv'
  <2>1. PICK u \in UserTasks : waitlist_unblock(s, u)
    BY <1>6 DEF SemHandOver
  <2>2. effective_priority' \in [UserTasks -> Nat]
    BY <1>6 DEF SemHandOver, CoreInv, CoreTypeOK
  <2> QED BY <1>6, <2>1, <2>2, UnblockKeepsCore DEF SemHandOver
<1>7. ASSUME NEW t \in UserTasks, NEW s \in Sems, SemIncrement(t, s)
      PROVE  CoreInv'
  BY <1>7 DEF SemIncrement, NothingToUnblock, listVars, CoreInv, CoreTypeOK,
              TCBMatchesWaitlists, ProcessorConsistent
<1>8. ASSUME NEW t \in UserTasks, NEW s \in Sems, NEW ticks \in Ticks, SemBlock(t, s, ticks)
      PROVE  CoreInv'
  <2>1. OnCpu(t) /\ waitlist_block_current(s, ticks, "SEM")
    BY <1>8 DEF SemBlock, InApplication
  <2>2. blocked_waitlist[t] = NULL
    BY <1>8, NullAssumption
    DEF SemBlock, InApplication, CoreInv, CoreTypeOK, TCBMatchesWaitlists
  <2>3. effective_priority' \in [UserTasks -> Nat]
    BY <1>8 DEF SemBlock, CoreInv, CoreTypeOK
  <2> QED BY <2>1, <2>2, <2>3, BlockKeepsCore DEF Reasons
<1>9. ASSUME NEW t \in UserTasks, NEW ticks \in Ticks, SemDelay(t, ticks)
      PROVE  CoreInv'
  BY <1>9, DelayKeepsCore DEF SemDelay
<1> QED BY <1>1, <1>2, <1>3, <1>4, <1>5, <1>6, <1>7, <1>8, <1>9, SemSteps

\* count stays an eight-bit number.
LEMMA SemCountStep ==
    ASSUME SemInv, [SemNext]_semVars
    PROVE  count' \in [Sems -> 0 .. CountModulus - 1]
<1> USE DEF SemInv, SemTypeOK
<1>1. CASE UNCHANGED count
  BY <1>1
<1>2. ASSUME NEW t \in UserTasks, NEW s \in Sems, SemTake(t, s)
      PROVE  count' \in [Sems -> 0 .. CountModulus - 1]
  BY <1>2, CountAssumption DEF SemTake
<1>3. ASSUME NEW t \in UserTasks, NEW s \in Sems, SemIncrement(t, s)
      PROVE  count' \in [Sems -> 0 .. CountModulus - 1]
  <2>1. (count[s] + 1) % CountModulus \in 0 .. CountModulus - 1
    BY CountAssumption
  <2> QED BY <1>3, <2>1 DEF SemIncrement
<1> QED
  BY <1>1, <1>2, <1>3, SemSteps
  DEF semVars, SemTick, SemSwitch, SemReturn, SemHandOver, SemBlock, SemDelay

\* A permit is counted only when the waitlist is empty, and a task enters the waitlist
\* only when no permit is counted.
LEMMA NoIdlePermitStep ==
    ASSUME SemInv, [SemNext]_semVars
    PROVE  NoIdlePermit'
<1> USE SemsAssumption DEF SemInv, CoreInv, CoreTypeOK, SemTypeOK, NoIdlePermit
<1>1. CASE UNCHANGED semVars
  BY <1>1 DEF semVars, coreVars
<1>2. CASE SemTick
  BY <1>2 DEF SemTick, os_tick, unblock_tasks, Remove
<1>3. CASE SemSwitch
  BY <1>3 DEF SemSwitch, PendSV_Handler, listVars
<1>4. ASSUME NEW t \in UserTasks, NEW s \in Sems, SemTake(t, s)
      PROVE  NoIdlePermit'
  BY <1>4, CountAssumption DEF SemTake, coreVars
<1>5. ASSUME NEW t \in UserTasks, NEW s \in Sems, SemReturn(t, s)
      PROVE  NoIdlePermit'
  BY <1>5 DEF SemReturn, listVars
<1>6. ASSUME NEW t \in UserTasks, NEW s \in Sems, SemHandOver(t, s)
      PROVE  NoIdlePermit'
  BY <1>6 DEF SemHandOver, waitlist_unblock, Remove
<1>7. ASSUME NEW t \in UserTasks, NEW s \in Sems, SemIncrement(t, s)
      PROVE  NoIdlePermit'
  BY <1>7 DEF SemIncrement, NothingToUnblock, listVars
<1>8. ASSUME NEW t \in UserTasks, NEW s \in Sems, NEW ticks \in Ticks, SemBlock(t, s, ticks)
      PROVE  NoIdlePermit'
  BY <1>8 DEF SemBlock, waitlist_block_current, AppendCurrent
<1>9. ASSUME NEW t \in UserTasks, NEW ticks \in Ticks, SemDelay(t, ticks)
      PROVE  NoIdlePermit'
  BY <1>9 DEF SemDelay, os_task_delay, listVars
<1> QED BY <1>1, <1>2, <1>3, <1>4, <1>5, <1>6, <1>7, <1>8, <1>9, SemSteps

\* Every step that makes a task ready or stops the running one pends PendSV.
LEMMA SemScheduling == [SemNext]_semVars => SchedulingStep
<1> SUFFICES ASSUME [SemNext]_semVars PROVE SchedulingStep
  OBVIOUS
<1> USE DEF SchedulingStep
<1>1. CASE SemSwitch
  BY <1>1 DEF SemSwitch
<1>2. ASSUME NEW t \in UserTasks, NEW s \in Sems, SemIncrement(t, s)
      PROVE  UNCHANGED <<current_task, current_state, pendsv, effective_priority>>
  BY <1>2 DEF SemIncrement, NothingToUnblock
<1>3. ASSUME NEW t \in UserTasks, NEW s \in Sems, SemHandOver(t, s)
      PROVE  pendsv' = TRUE
  BY <1>3 DEF SemHandOver, port_yield
<1>4. ASSUME NEW t \in UserTasks, NEW s \in Sems, NEW ticks \in Ticks, SemBlock(t, s, ticks)
      PROVE  pendsv' = TRUE
  BY <1>4 DEF SemBlock, waitlist_block_current, BlockCurrent, port_yield
<1>5. ASSUME NEW t \in UserTasks, NEW ticks \in Ticks, SemDelay(t, ticks)
      PROVE  pendsv' = TRUE
  BY <1>5 DEF SemDelay, os_task_delay, BlockCurrent, port_yield
<1>6. SemTick => pendsv' = TRUE
  BY DEF SemTick, os_tick, port_yield
<1>7. ASSUME NEW t \in UserTasks, NEW s \in Sems, SemTake(t, s) \/ SemReturn(t, s)
      PROVE  UNCHANGED <<current_task, current_state, pendsv, effective_priority>>
  BY <1>7 DEF SemTake, SemReturn, coreVars
<1>8. UNCHANGED semVars => UNCHANGED <<current_task, current_state, pendsv, effective_priority>>
  BY DEF semVars, coreVars
<1> QED BY <1>1, <1>2, <1>3, <1>4, <1>5, <1>6, <1>7, <1>8, SemSteps

-----------------------------------------------------------------------------
\* The conjunction is inductive.
LEMMA SemInvStep == SemInv /\ [SemNext]_semVars => SemInv'
<1> SUFFICES ASSUME SemInv, [SemNext]_semVars PROVE SemInv'
  OBVIOUS
<1>1. CoreInv'
  BY SemCoreStep
<1>2. SemTypeOK'
  BY <1>1, SemCountStep DEF CoreInv, SemTypeOK
<1>3. HighestPriorityRuns'
  BY SemScheduling, SchedulingKeepsBest DEF SemInv
<1> QED BY <1>1, <1>2, <1>3, NoIdlePermitStep DEF SemInv

\* It holds in every reachable state.
THEOREM SemInvariant == SemSpec => []SemInv
BY SemInitInv, SemInvStep, PTL DEF SemSpec

\* Every variable keeps its type: the count eight bits, wakeup_tick and systick_count
\* the width of the tick counter.
THEOREM SemTypeCorrect == SemSpec => []SemTypeOK
<1>1. SemInv => SemTypeOK
  BY DEF SemInv
<1> QED BY <1>1, SemInvariant, PTL

\* TCBs and waitlists never disagree, whatever posts, deadlines and switches come in
\* whatever order (waitlist_block_current, waitlist_unblock, unblock_tasks).
THEOREM SemTCBsMatchWaitlists == SemSpec => []TCBMatchesWaitlists
<1>1. SemInv => TCBMatchesWaitlists
  BY DEF SemInv, CoreInv
<1> QED BY <1>1, SemInvariant, PTL

\* No permit is counted while a task waits for one (os_sem_wait, os_sem_post).
THEOREM SemNoIdlePermit == SemSpec => []NoIdlePermit
<1>1. SemInv => NoIdlePermit
  BY DEF SemInv
<1> QED BY <1>1, SemInvariant, PTL

\* No better task is left ready without a pending switch (port_yield in os_sem_post and
\* os_tick, and the scan of os_schedule_next_task).
THEOREM SemHighestPriorityRuns == SemSpec => []HighestPriorityRuns
<1>1. SemInv => HighestPriorityRuns
  BY DEF SemInv
<1> QED BY <1>1, SemInvariant, PTL

\* With every switch the turn of a ready task that none outranks comes closer, for any
\* number of tasks (os_schedule_next_task).
THEOREM SemTurnComesCloser == SemSpec => TurnComesCloser
<1>1. SemInv /\ [SemNext]_semVars => [SwitchServesTurns]_coreVars
  BY SemScheduling, SchedulingServesTurns DEF SemInv, SchedulingStep
<1> QED BY <1>1, SemInitInv, SemInvStep, PTL DEF SemSpec, TurnComesCloser

-----------------------------------------------------------------------------
(* The order of the waiting tasks.                                          *)

\* Every step that touches a list is a block, a hand-over or a tick.
LEMMA SemListSteps ==
    ASSUME SemInv, [SemNext]_semVars
    PROVE  WaitlistStep
<1> USE SemsAssumption DEF SemInv
<1>1. SemTick => WaitlistStep
  BY TickIsWaitlistStep DEF SemTick
<1>2. ASSUME NEW t \in UserTasks, NEW s \in Sems, NEW ticks \in Ticks, SemBlock(t, s, ticks)
      PROVE  WaitlistStep
  BY <1>2, RunningIsInNoList DEF SemBlock, InApplication, OnCpu, waitlist_block_current, WaitlistStep
<1>3. ASSUME NEW t \in UserTasks, NEW s \in Sems, SemHandOver(t, s)
      PROVE  WaitlistStep
  BY <1>3 DEF SemHandOver, waitlist_unblock, WaitlistStep
<1>4. ASSUME NEW t \in UserTasks, NEW s \in Sems,
             SemTake(t, s) \/ SemReturn(t, s) \/ SemIncrement(t, s)
      PROVE  UNCHANGED <<waiters, ahead>>
  BY <1>4 DEF SemTake, SemReturn, SemIncrement, NothingToUnblock, coreVars, listVars
<1>5. ASSUME NEW t \in UserTasks, NEW ticks \in Ticks, SemDelay(t, ticks)
      PROVE  UNCHANGED <<waiters, ahead>>
  BY <1>5 DEF SemDelay, os_task_delay, listVars
<1>6. SemSwitch \/ UNCHANGED semVars => UNCHANGED <<waiters, ahead>>
  BY DEF SemSwitch, PendSV_Handler, listVars, semVars, coreVars
<1>7. UNCHANGED <<waiters, ahead>> => WaitlistStep
  BY DEF WaitlistStep
<1> QED BY <1>1, <1>2, <1>3, <1>4, <1>5, <1>6, <1>7, SemSteps

\* No waiting task is overtaken by one that came later, but for a deadline or, where the
\* policy says so, a better priority (waitlist_unblock, waitlist_remove_task).
THEOREM SemNoOvertaking == SemSpec => NoOvertaking
<1>1. SemInv /\ [SemNext]_semVars =>
         [\A w \in Waitlists : \A u \in waiters[w] : \A t \in ahead[u] \cap waiters'[w] :
             LeavesTheirOrder(w, t, u)]_coreVars
  BY SemListSteps, WaitlistStepInOrder DEF SemInv
<1> QED BY <1>1, SemInitInv, SemInvStep, PTL DEF SemSpec, NoOvertaking

\* The lists of the semaphores are arrays without gaps or duplicates.
THEOREM SemWaitlistsAreArrays == SemSpec => []WaitlistsAreArrays
<1>1. SemInit => ListsOrdered
  BY InitOrdered DEF SemInit
<1>2. SemInv /\ ListsOrdered /\ [SemNext]_semVars => ListsOrdered'
  BY SemListSteps, WaitlistStepKeepsOrder DEF SemInv
<1>3. SemInv /\ ListsOrdered => WaitlistsAreArrays
  BY OrderMakesArrays DEF SemInv
<1> QED BY <1>1, <1>2, <1>3, SemInitInv, SemInvStep, PTL DEF SemSpec

-----------------------------------------------------------------------------
(* Refinement: the semaphores implement AbstractSemaphore, as long as no   *)
(* application posts beyond the eight bits of count.  Every step is a step *)
(* of the abstract specification or leaves its variables alone.            *)

waitingNow == [s \in Sems |-> waiters[s]]
grantedNow == [s \in Sems |-> Granted(s)]

RefInv == SemInv /\ DelayedInNoCall

\* The refinement mapping starts in an initial state of the abstract specification.
LEMMA RefInit == SemInit => Abstract!Init
<1> SUFFICES ASSUME SemInit PROVE Abstract!Init
  OBVIOUS
<1>1. \A s \in Sems : waiters[s] = {} /\ Granted(s) = {}
  BY SemsAssumption, NullAssumption DEF SemInit, CoreInit, Granted
<1>2. waitingNow = [s \in Sems |-> {}] /\ grantedNow = [s \in Sems |-> {}]
  BY <1>1 DEF waitingNow, grantedNow
<1>3. systick_count = 0 /\ count = initial_count
  BY DEF SemInit, CoreInit
<1> QED BY <1>2, <1>3 DEF Abstract!Init, waitingNow, grantedNow

\* DelayedInNoCall is preserved by every handler.
LEMMA DelayedStep ==
    ASSUME RefInv, [SemNext]_semVars
    PROVE  DelayedInNoCall'
<1> USE SemsAssumption, NullAssumption, IdleIsNoUserTask
    DEF RefInv, SemInv, CoreInv, CoreTypeOK, DelayedInNoCall
<1>1. CASE UNCHANGED semVars
  BY <1>1 DEF semVars, coreVars
<1>2. CASE SemTick
  BY <1>2 DEF SemTick, os_tick, unblock_tasks, FoundInList, TCBMatchesWaitlists
<1>3. CASE SemSwitch
  <2>1. \A t \in UserTasks : current_state'[t] = "BLOCKED" => current_state[t] = "BLOCKED"
    BY <1>3 DEF SemSwitch, PendSV_Handler, os_schedule_next_task, RunningToReady
  <2> QED BY <1>3, <2>1 DEF SemSwitch, PendSV_Handler, listVars
<1>4. ASSUME NEW t \in UserTasks, NEW s \in Sems, SemTake(t, s)
      PROVE  DelayedInNoCall'
  BY <1>4 DEF SemTake, coreVars
<1>5. ASSUME NEW t \in UserTasks, NEW s \in Sems, SemReturn(t, s)
      PROVE  DelayedInNoCall'
  BY <1>5 DEF SemReturn, listVars
<1>6. ASSUME NEW t \in UserTasks, NEW s \in Sems, SemHandOver(t, s)
      PROVE  DelayedInNoCall'
  BY <1>6 DEF SemHandOver, waitlist_unblock
<1>7. ASSUME NEW t \in UserTasks, NEW s \in Sems, SemIncrement(t, s)
      PROVE  DelayedInNoCall'
  BY <1>7 DEF SemIncrement, NothingToUnblock, listVars
<1>8. ASSUME NEW t \in UserTasks, NEW s \in Sems, NEW ticks \in Ticks, SemBlock(t, s, ticks)
      PROVE  DelayedInNoCall'
  BY <1>8 DEF SemBlock, waitlist_block_current, BlockCurrent, InApplication, OnCpu
<1>9. ASSUME NEW t \in UserTasks, NEW ticks \in Ticks, SemDelay(t, ticks)
      PROVE  DelayedInNoCall'
  BY <1>9 DEF SemDelay, os_task_delay, BlockCurrent, InApplication, OnCpu, listVars
<1> QED BY <1>1, <1>2, <1>3, <1>4, <1>5, <1>6, <1>7, <1>8, <1>9, SemSteps

-----------------------------------------------------------------------------
\* A wait that finds a permit is a Take.
LEMMA TakeRefines ==
    ASSUME RefInv, NEW t \in UserTasks, NEW s \in Sems, SemTake(t, s)
    PROVE  Abstract!Take(s)
BY DEF SemTake, coreVars, Abstract!Take, Granted

\* A block is a Wait: the caller was in no call before.
LEMMA BlockRefines ==
    ASSUME RefInv, NEW t \in UserTasks, NEW s \in Sems, NEW ticks \in Ticks,
           SemBlock(t, s, ticks)
    PROVE  Abstract!Wait(s, t)
<1> USE SemsAssumption, NullAssumption DEF RefInv, SemInv, CoreInv, CoreTypeOK
<1>1. /\ current_task = t /\ in_call[t] = NULL /\ blocked_waitlist[t] = NULL
      /\ t \notin waiters[s]
  BY DEF SemBlock, InApplication, OnCpu, TCBMatchesWaitlists
<1>2. waitingNow' = [waitingNow EXCEPT ![s] = @ \cup {t}]
  BY <1>1 DEF SemBlock, waitlist_block_current, AppendCurrent, waitingNow
<1>3. \A r \in Sems : Granted(r)' = Granted(r)
  BY <1>1 DEF SemBlock, waitlist_block_current, BlockCurrent, Granted
<1>4. t \notin Granted(s)
  BY <1>1 DEF Granted
<1>5. systick_count' = systick_count
  BY DEF SemBlock, waitlist_block_current, BlockCurrent
<1> QED BY <1>1, <1>2, <1>3, <1>4, <1>5 DEF SemBlock, Abstract!Wait, waitingNow

\* A post with a waiter is a HandOver to the task it wakes.
LEMMA HandOverRefines ==
    ASSUME RefInv, NEW t \in UserTasks, NEW s \in Sems, SemHandOver(t, s)
    PROVE  \E u \in UserTasks : Abstract!HandOver(s, u)
<1> USE SemsAssumption, NullAssumption DEF RefInv, SemInv, CoreInv, CoreTypeOK
<1>1. PICK u \in UserTasks : waitlist_unblock(s, u)
  BY DEF SemHandOver
<1>2. /\ u \in waiters[s] /\ blocked_waitlist[u] = s /\ in_call[u] = s
      /\ \A r \in Sems \ {s} : u \notin waiters[r]
  BY <1>1 DEF waitlist_unblock, NextWaiter, TCBMatchesWaitlists
<1>3. waitingNow' = [waitingNow EXCEPT ![s] = @ \ {u}]
  <2>1. \A r \in Sems : waiters'[r] = IF r = s THEN waiters[s] \ {u} ELSE waiters[r]
    <3>1. waiters' = [w \in Waitlists |-> waiters[w] \ {u}]
      BY <1>1 DEF waitlist_unblock, Remove
    <3>2. \A r \in Sems \ {s} : waiters[r] \ {u} = waiters[r]
      BY <1>2
    <3> QED BY <3>1, <3>2
  <2> QED BY <2>1 DEF waitingNow
<1>4. \A r \in Sems : Granted(r)' = IF r = s THEN Granted(s) \cup {u} ELSE Granted(r)
  <2>1. ~timeout'[u] /\ \A v \in UserTasks \ {u} : timeout'[v] = timeout[v]
    BY <1>1 DEF waitlist_unblock, ClearTimeout
  <2>2. /\ blocked_waitlist'[u] = NULL
        /\ \A v \in UserTasks \ {u} : blocked_waitlist'[v] = blocked_waitlist[v]
    BY <1>1 DEF waitlist_unblock
  <2>3. in_call' = in_call
    BY DEF SemHandOver
  <2> QED BY <1>2, <2>1, <2>2, <2>3 DEF Granted
<1>5. grantedNow' = [grantedNow EXCEPT ![s] = @ \cup {u}]
  BY <1>4 DEF grantedNow
<1>6. Abstract!HandOver(s, u)
  BY <1>2, <1>3, <1>5 DEF SemHandOver, Abstract!HandOver, waitingNow, grantedNow
<1> QED BY <1>6

\* A post without one is a Release, because count does not wrap around.
LEMMA IncrementRefines ==
    ASSUME MaxCount < CountModulus,
           RefInv, NEW t \in UserTasks, NEW s \in Sems, SemIncrement(t, s)
    PROVE  Abstract!Release(s)
<1>1. (count[s] + 1) % CountModulus = count[s] + 1
  <2>1. count[s] \in Nat /\ count[s] < MaxCount
    BY CountAssumption DEF RefInv, SemInv, SemTypeOK, SemIncrement
  <2> QED BY <2>1, CountAssumption, MaxCountAssumption
<1> QED BY <1>1 DEF SemIncrement, NothingToUnblock, listVars, Abstract!Release, Granted

\* A return is a Return when the call was handed a permit; one that timed out holds
\* none and changes nothing.
LEMMA ReturnRefines ==
    ASSUME RefInv, NEW t \in UserTasks, NEW s \in Sems, SemReturn(t, s)
    PROVE  Abstract!Return(s, t) \/ UNCHANGED <<systick_count, count, waitingNow, grantedNow>>
<1> USE SemsAssumption, NullAssumption DEF RefInv, SemInv, CoreInv, CoreTypeOK
<1>1. current_state[t] # "BLOCKED" /\ in_call[t] = s
  BY DEF SemReturn, OnCpu, ProcessorConsistent
<1>2. blocked_waitlist[t] = NULL
  BY <1>1 DEF TCBMatchesWaitlists
<1>3. /\ in_call' = [in_call EXCEPT ![t] = NULL]
      /\ UNCHANGED <<systick_count, count, waiters, blocked_waitlist, timeout>>
  BY DEF SemReturn, listVars
<1>4. CASE timeout[t]
  <2>1. \A r \in Sems : Granted(r)' = Granted(r)
    BY <1>1, <1>3, <1>4 DEF Granted
  <2> QED BY <1>3, <2>1 DEF waitingNow, grantedNow
<1>5. CASE ~timeout[t]
  <2>1. t \in Granted(s)
    BY <1>1, <1>2, <1>5 DEF Granted
  <2>2. \A r \in Sems : Granted(r)' = IF r = s THEN Granted(s) \ {t} ELSE Granted(r)
    BY <1>1, <1>3 DEF Granted
  <2>3. grantedNow' = [grantedNow EXCEPT ![s] = @ \ {t}]
    BY <2>2 DEF grantedNow
  <2> QED BY <1>3, <2>1, <2>3 DEF Abstract!Return, grantedNow
<1> QED BY <1>4, <1>5

\* A tick is a GiveUp of the waits it ends.
LEMMA TickRefines ==
    ASSUME RefInv, SemTick
    PROVE  Abstract!GiveUp
<1> USE SemsAssumption, NullAssumption DEF RefInv, SemInv, CoreInv, CoreTypeOK
<1> DEFINE expired == Expired((systick_count + 1) % TickModulus)
<1>1. unblock_tasks(expired) /\ in_call' = in_call /\ count' = count
  BY DEF SemTick, os_tick
<1>2. \A t \in expired : t \in UserTasks /\ current_state[t] = "BLOCKED"
  BY DEF Expired
<1> HIDE DEF expired
<1>3. waiters' \in [Waitlists -> SUBSET UserTasks] /\ \A s \in Sems : waiters'[s] \subseteq waiters[s]
  BY <1>1 DEF unblock_tasks, Remove
<1>4. ASSUME NEW t \in expired, NEW s \in Sems
      PROVE  t \notin Granted(s) /\ t \notin Granted(s)'
  <2>1. CASE blocked_waitlist[t] = NULL
    BY <1>1, <1>2, <2>1 DEF Granted, DelayedInNoCall
  <2>2. CASE blocked_waitlist[t] # NULL
    BY <1>1, <1>2, <2>2 DEF Granted, unblock_tasks
  <2> QED BY <2>1, <2>2
<1>5. ASSUME NEW t \in UserTasks \ expired, NEW s \in Sems
      PROVE  t \in Granted(s) <=> t \in Granted(s)'
  <2>1. blocked_waitlist'[t] = blocked_waitlist[t] /\ timeout'[t] = timeout[t]
    BY <1>1 DEF unblock_tasks
  <2> QED BY <1>1, <2>1 DEF Granted
<1>6. ASSUME NEW s \in Sems
      PROVE  Granted(s)' = Granted(s)
  <2> DEFINE before == Granted(s)
             after  == Granted(s)'
  <2>1. before \subseteq UserTasks /\ after \subseteq UserTasks
    BY DEF Granted
  <2>2. \A t \in UserTasks : t \in before <=> t \in after
    BY <1>4, <1>5
  <2> HIDE DEF before, after
  <2>3. after = before
    BY <2>1, <2>2
  <2> QED BY <2>3 DEF before, after
<1>7. systick_count' # systick_count
  BY TickAssumption DEF SemTick, os_tick, Ticks
<1> QED BY <1>1, <1>3, <1>6, <1>7 DEF Abstract!GiveUp

-----------------------------------------------------------------------------
\* Switches and delays are invisible.
LEMMA OthersRefine ==
    ASSUME RefInv,
           \/ UNCHANGED semVars \/ SemSwitch
           \/ \E t \in UserTasks, ticks \in Ticks : SemDelay(t, ticks)
    PROVE  UNCHANGED <<systick_count, count, waitingNow, grantedNow>>
<1>1. UNCHANGED <<systick_count, count, waiters, in_call, blocked_waitlist, timeout>>
  BY DEF semVars, coreVars, SemSwitch, PendSV_Handler, SemDelay, os_task_delay,
         BlockCurrent, listVars
<1> QED BY <1>1 DEF waitingNow, grantedNow, Granted

\* Every step of the semaphores is a step of the abstract ones or a stutter.
LEMMA StepRefines ==
    ASSUME MaxCount < CountModulus, RefInv, [SemNext]_semVars
    PROVE  [Abstract!Next]_<<systick_count, count, waitingNow, grantedNow>>
<1>1. ASSUME NEW t \in UserTasks, NEW s \in Sems,
             \/ SemTake(t, s) \/ SemReturn(t, s) \/ SemHandOver(t, s) \/ SemIncrement(t, s)
      PROVE  [Abstract!Next]_<<systick_count, count, waitingNow, grantedNow>>
  BY <1>1, TakeRefines, ReturnRefines, HandOverRefines, IncrementRefines DEF Abstract!Next
<1>2. ASSUME NEW t \in UserTasks, NEW s \in Sems, NEW ticks \in Ticks, SemBlock(t, s, ticks)
      PROVE  [Abstract!Next]_<<systick_count, count, waitingNow, grantedNow>>
  BY <1>2, BlockRefines DEF Abstract!Next
<1>3. CASE SemTick
  BY <1>3, TickRefines DEF Abstract!Next
<1> QED BY <1>1, <1>2, <1>3, OthersRefine, SemSteps

\* Permits are neither lost nor made up, whatever posts, deadlines and returns come in
\* between (os_sem_wait, os_sem_post, unblock_tasks), provided the posts nobody waits for
\* leave count within its type.
THEOREM SemPermitsConserved ==
    ASSUME MaxCount < CountModulus
    PROVE  SemSpec => PermitsConserved
<1>1. SemInit => RefInv
  BY SemInitInv, NullAssumption DEF RefInv, DelayedInNoCall, SemInit, CoreInit
<1>2. RefInv /\ [SemNext]_semVars => RefInv'
  BY SemInvStep, DelayedStep DEF RefInv
<1>3. RefInv /\ [SemNext]_semVars => [Abstract!Next]_(Abstract!vars)
  BY StepRefines DEF Abstract!vars, waitingNow, grantedNow
<1> QED BY RefInit, <1>1, <1>2, <1>3, PTL DEF SemSpec, PermitsConserved, Abstract!Spec

=============================================================================
