--------------------------------- MODULE Mutex ---------------------------------
(***************************************************************************)
(* Mutexes with direct handoff and priority inheritance (os_mutex_lock,    *)
(* os_mutex_unlock, mutex_donate_priority, mutex_recompute_owner_priority).*)
(*                                                                         *)
(* Locking and unlocking are critical sections.  What follows the wake-up  *)
(* in os_mutex_lock is not: the recompute of the owner's priority runs     *)
(* with interrupts enabled, so its loads and stores are steps of their own *)
(* here, between which ticks and the calls of other tasks fall.            *)
(* Calls that only return an error change nothing and are stuttering steps.*)
(***************************************************************************)
EXTENDS KernelCore

CONSTANTS
    Mutexes,            \* the mutexes, each identified with its waitlist
    OS_MAX_MTX_PER_TASK,
    OS_MAX_TASKS,
    NoTask,             \* owner of an unlocked mutex
    FlashBytes,         \* what a load through a NULL TCB_t pointer may find
    Uses,               \* the mutexes each task of the application locks
    Timeouts,           \* the timeouts each of them passes to os_mutex_lock
    LockLimit           \* bound: a task asks for a mutex while it owns fewer

ASSUME MutexesAssumption ==
    Mutexes \subseteq Waitlists /\ \A m \in Mutexes : schedule_policy[m] = "PRIORITY"
ASSUME LimitAssumption ==
    /\ OS_MAX_MTX_PER_TASK \in Nat \ {0} /\ LockLimit \in Nat
    /\ OS_MAX_TASKS \in Nat /\ task_count <= OS_MAX_TASKS
ASSUME NoTaskAssumption == NoTask \notin Tasks /\ NULL \notin Mutexes
ASSUME FlashAssumption  == FlashBytes \subseteq Nat
ASSUME MutexTimeoutsAssumption == Timeouts \in [UserTasks -> SUBSET Ticks]
ASSUME UsesAssumption   == Uses \in [UserTasks -> SUBSET Mutexes]

VARIABLES
    owner,              \* mutex_t.owner
    mutex_state,        \* mutex_t.state
    owned_mutexes,      \* the TCB's array of that name
    owned_mutex_count,
    recompute           \* the locals of each task's mutex_recompute_owner_priority

ownVars == <<owner, mutex_state, owned_mutexes, owned_mutex_count>>
mtxVars == <<coreVars, ownVars, recompute>>

OwnedIndexes == 0 .. OS_MAX_MTX_PER_TASK - 1

\* at: where the task is in the function; target: mutex_owner; list, i, j: the
\* waitlist being scanned and the loop counters; best: highest_priority.
Idle == [at |-> "idle", target |-> NoTask, list |-> NULL, i |-> 0, j |-> 0,
         best |-> 0, iterations |-> 0]

Recomputes ==
    [at : {"idle", "scan", "mutex", "compare", "take", "store", "advance", "follow", "done"},
     target : UserTasks \cup {NoTask}, list : Mutexes \cup {NULL},
     i : Nat, j : Nat, best : Nat, iterations : Nat]

MtxTypeOK ==
    /\ CoreTypeOK
    /\ owner \in [Mutexes -> UserTasks \cup {NoTask}]
    /\ mutex_state \in [Mutexes -> {"unlocked", "locked"}]
    /\ owned_mutexes \in [UserTasks -> [OwnedIndexes -> Mutexes \cup {NULL}]]
    /\ owned_mutex_count \in [UserTasks -> Nat]
    /\ recompute \in [UserTasks -> Recomputes]

MtxInit ==
    /\ CoreInit
    /\ owner = [m \in Mutexes |-> NoTask]
    /\ mutex_state = [m \in Mutexes |-> "unlocked"]
    /\ owned_mutexes = [t \in UserTasks |-> [i \in OwnedIndexes |-> NULL]]
    /\ owned_mutex_count = [t \in UserTasks |-> 0]
    /\ recompute = [t \in UserTasks |-> Idle]

-----------------------------------------------------------------------------
(* owned_mutexes[] and owned_mutex_count.                                   *)

\* The entries in use.
UsedIndexes(t) == {i \in OwnedIndexes : i < owned_mutex_count[t]}
Owned(t)       == {owned_mutexes[t][i] : i \in UsedIndexes(t)}

\* owned_mutexes[owned_mutex_count++] = mtx.  The code does not look at
\* OS_MAX_MTX_PER_TASK: past it the pointer lands outside the array.
WithOwned(array, t, m) == [array EXCEPT ![t][owned_mutex_count[t]] = m]

\* Fault: the gap is filled from one past the last entry.
WithoutOwned_OffByOne(t, m) ==
    [i \in OwnedIndexes |->
        IF owned_mutexes[t][i] = m /\ i < owned_mutex_count[t]
        THEN IF owned_mutex_count[t] \in OwnedIndexes
             THEN owned_mutexes[t][owned_mutex_count[t]] ELSE m
        ELSE owned_mutexes[t][i]]

\* The loop that puts the last entry in the place of m, and forgets the last.
WithoutOwned(t, m) ==
    [i \in OwnedIndexes |->
        IF owned_mutexes[t][i] = m /\ i < owned_mutex_count[t]
        THEN owned_mutexes[t][owned_mutex_count[t] - 1]
        ELSE owned_mutexes[t][i]]

-----------------------------------------------------------------------------
(* Priority inheritance.                                                    *)

\* The owner of the mutex t is blocked on (cast_waitlist_to_mutex).
NextOwner(t) ==
    IF block_reason[t] = "MUTEX" /\ blocked_waitlist[t] # NULL
    THEN owner[blocked_waitlist[t]] ELSE NoTask

\* Fault: the boost stops at the first owner.
DonationChain_OneHop(first) == {first}

\* The tasks mutex_donate_priority visits, at most OS_MAX_TASKS of them.
DonationChain(first) ==
    LET chain[n \in 0 .. OS_MAX_TASKS - 1] ==
            IF n = 0 THEN first
            ELSE IF chain[n - 1] = NoTask THEN NoTask ELSE NextOwner(chain[n - 1])
    IN  {chain[n] : n \in 0 .. OS_MAX_TASKS - 1} \ {NoTask}

\* effective_priority once the current task has donated its own to the chain.
Donated(first) ==
    LET priority == effective_priority[current_task]
        chain    == DonationChain(first)
    IN  [t \in UserTasks |->
            IF t \in chain /\ effective_priority[t] > priority
            THEN priority ELSE effective_priority[t]]

\* Fault: the waiters replace the base priority.
Sources_NoBase(t, mutexes, lists) ==
    LET waiting == UNION {lists[m] : m \in mutexes}
    IN  IF waiting = {} THEN {base_priority[t]} ELSE {effective_priority[u] : u \in waiting}

\* Fault: the recompute begins with the boosted priority.
Sources_Boosted(t, mutexes, lists) ==
    {effective_priority[t]} \cup
    {effective_priority[u] : u \in UNION {lists[m] : m \in mutexes}}

\* The priorities mutex_recompute_owner_priority takes the best of, for a task
\* that owns the mutexes of a set.
Sources(t, mutexes, lists) ==
    {base_priority[t]} \cup
    {effective_priority[u] : u \in UNION {lists[m] : m \in mutexes}}

BestOf(priorities) == {p \in priorities : \A q \in priorities : p <= q}

-----------------------------------------------------------------------------
\* os_mutex_lock on an unlocked mutex.
LockFree(t, m) ==
    /\ InApplication(t)
    /\ owned_mutex_count[t] < LockLimit
    /\ mutex_state[m] = "unlocked"
    /\ owned_mutexes' = WithOwned(owned_mutexes, t, m)
    /\ owned_mutex_count' = [owned_mutex_count EXCEPT ![t] = @ + 1]
    /\ owner' = [owner EXCEPT ![m] = t]
    /\ mutex_state' = [mutex_state EXCEPT ![m] = "locked"]
    /\ UNCHANGED <<coreVars, recompute>>

\* os_mutex_lock on a mutex of another task: donate, then block.
LockBlock(t, m, ticks) ==
    /\ InApplication(t)
    /\ owned_mutex_count[t] < LockLimit
    /\ mutex_state[m] = "locked" /\ owner[m] # t /\ ticks # 0
    /\ effective_priority' = Donated(owner[m])
    /\ waitlist_block_current(m, ticks, "MUTEX")
    /\ UNCHANGED <<ownVars, recompute>>

\* os_mutex_unlock with a waiter u: handoff, with both priorities recomputed.
UnlockHandOff(t, m, u) ==
    /\ InApplication(t)
    /\ owner[m] = t
    /\ waitlist_unblock(m, u)
    /\ owned_mutexes' = WithOwned([owned_mutexes EXCEPT ![t] = WithoutOwned(t, m)], u, m)
    /\ owned_mutex_count' = [owned_mutex_count EXCEPT ![t] = @ - 1, ![u] = @ + 1]
    /\ owner' = [owner EXCEPT ![m] = u]
    /\ \E p \in BestOf(Sources(t, Owned(t) \ {m}, waiters')) :
          \E q \in BestOf(Sources(u, Owned(u) \cup {m}, waiters')) :
             effective_priority' = [effective_priority EXCEPT ![t] = p, ![u] = q]
    /\ port_yield
    /\ UNCHANGED <<current_task, systick_count, in_call, mutex_state, recompute>>

\* os_mutex_unlock without one: the owner's priority stays what it is.
UnlockFree(t, m) ==
    /\ InApplication(t)
    /\ owner[m] = t
    /\ NothingToUnblock(m)
    /\ owned_mutexes' = [owned_mutexes EXCEPT ![t] = WithoutOwned(t, m)]
    /\ owned_mutex_count' = [owned_mutex_count EXCEPT ![t] = @ - 1]
    /\ owner' = [owner EXCEPT ![m] = NoTask]
    /\ mutex_state' = [mutex_state EXCEPT ![m] = "unlocked"]
    /\ UNCHANGED <<current_task, pendsv, effective_priority, systick_count,
                   in_call, recompute>>

-----------------------------------------------------------------------------
(* os_mutex_lock after the wake-up, interrupts enabled: the recompute for   *)
(* mtx->owner, then the result.                                             *)

Step(t, changes) ==
    /\ recompute' = [recompute EXCEPT ![t] = changes]
    /\ UNCHANGED <<coreVars, ownVars>>

\* The body of the while loop begins with the base priority of its target.
StartScan(target, iterations) ==
    IF target = NoTask \/ iterations >= OS_MAX_TASKS
    THEN [Idle EXCEPT !.at = "done"]
    ELSE [Idle EXCEPT !.at = "scan", !.target = target,
                      !.best = base_priority[target], !.iterations = iterations]

\* The argument: mtx->owner.
RecomputeBegin(t, m) ==
    /\ OnCpu(t)
    /\ in_call[t] = m
    /\ recompute[t].at = "idle"
    /\ Step(t, StartScan(owner[m], 0))

\* The loop conditions: the next waiter of this list, the next mutex, or the end.
RecomputeScan(t) ==
    LET r == recompute[t]
    IN  /\ OnCpu(t)
        /\ r.at = "scan"
        /\ Step(t, [r EXCEPT !.at =
                       IF r.list # NULL /\ r.j < Cardinality(waiters[r.list]) THEN "compare"
                       ELSE IF r.i < owned_mutex_count[r.target] THEN "mutex"
                       ELSE "store"])

\* waitlist = &mutex_owner->owned_mutexes[i]->waitlist
RecomputeMutex(t) ==
    LET r == recompute[t]
    IN  /\ OnCpu(t)
        /\ r.at = "mutex"
        /\ Step(t, [r EXCEPT !.at = "scan", !.list = owned_mutexes[r.target][r.i],
                             !.i = r.i + 1, !.j = 0])

\* What a load of task_waitlist[j]->effective_priority finds: entry j is NULL if the
\* list has shrunk since the check.
EntryPriority(r) ==
    LET entry == {u \in waiters[r.list] : Cardinality(ahead[u]) = r.j}
    IN  IF entry = {} THEN FlashBytes ELSE {effective_priority[u] : u \in entry}

\* The first load, in the comparison with highest_priority.
RecomputeCompare(t) ==
    LET r == recompute[t]
    IN  /\ OnCpu(t)
        /\ r.at = "compare"
        /\ \E p \in EntryPriority(r) :
              Step(t, IF p < r.best THEN [r EXCEPT !.at = "take"]
                      ELSE [r EXCEPT !.at = "scan", !.j = r.j + 1])

\* The second one, in the assignment: built with -O0, the code loads again.
RecomputeTake(t) ==
    LET r == recompute[t]
    IN  /\ OnCpu(t)
        /\ r.at = "take"
        /\ \E p \in EntryPriority(r) :
              Step(t, [r EXCEPT !.at = "scan", !.j = r.j + 1, !.best = p])

RecomputeStore(t) ==
    LET r == recompute[t]
    IN  /\ OnCpu(t)
        /\ r.at = "store"
        /\ effective_priority' = [effective_priority EXCEPT ![r.target] = r.best]
        /\ recompute' = [recompute EXCEPT ![t] =
                            [Idle EXCEPT !.at = "advance", !.target = r.target,
                                         !.iterations = r.iterations]]
        /\ UNCHANGED <<schedVars, wakeup_tick, block_reason, timeout, systick_count,
                       in_call, listVars, ownVars>>

\* On to the mutex the target is itself blocked on, if any.
RecomputeAdvance(t) ==
    LET r == recompute[t]
    IN  /\ OnCpu(t)
        /\ r.at = "advance"
        /\ Step(t, IF block_reason[r.target] = "MUTEX" /\ blocked_waitlist[r.target] # NULL
                   THEN [Idle EXCEPT !.at = "follow", !.list = blocked_waitlist[r.target],
                                     !.iterations = r.iterations + 1]
                   ELSE [Idle EXCEPT !.at = "done"])

\* And to its owner, who may have changed meanwhile.
RecomputeFollow(t) ==
    LET r == recompute[t]
    IN  /\ OnCpu(t)
        /\ r.at = "follow"
        /\ Step(t, StartScan(owner[r.list], r.iterations))

\* The result, by the timeout flag: OS_OK or OS_ERR_UNAVAILABLE.
LockReturn(t) ==
    /\ OnCpu(t)
    /\ recompute[t].at = "done"
    /\ in_call' = [in_call EXCEPT ![t] = NULL]
    /\ recompute' = [recompute EXCEPT ![t] = Idle]
    /\ UNCHANGED <<schedVars, effective_priority, wakeup_tick, block_reason, timeout,
                   systick_count, listVars, ownVars>>

RecomputeStep(t) ==
    \/ \E m \in Mutexes : RecomputeBegin(t, m)
    \/ RecomputeScan(t) \/ RecomputeMutex(t) \/ RecomputeCompare(t) \/ RecomputeTake(t)
    \/ RecomputeStore(t) \/ RecomputeAdvance(t) \/ RecomputeFollow(t) \/ LockReturn(t)

-----------------------------------------------------------------------------
MtxDelay(t, ticks) == os_task_delay(t, ticks) /\ UNCHANGED <<ownVars, recompute>>
MtxTick            == os_tick /\ UNCHANGED <<ownVars, recompute>>
MtxSwitch          == PendSV_Handler /\ UNCHANGED <<ownVars, recompute>>

MtxTaskStep(t) ==
    \/ \E m \in Uses[t] : \/ LockFree(t, m) \/ UnlockFree(t, m)
                          \/ \E ticks \in Timeouts[t] : LockBlock(t, m, ticks)
                          \/ \E u \in UserTasks : UnlockHandOff(t, m, u)
    \/ RecomputeStep(t)
    \/ \E ticks \in Delays[t] : MtxDelay(t, ticks)

MtxNext == MtxTick \/ MtxSwitch \/ \E t \in UserTasks : MtxTaskStep(t)

MtxSpec == MtxInit /\ [][MtxNext]_mtxVars

-----------------------------------------------------------------------------
\* The two records of ownership agree: mtx->owner is t exactly when mtx is one of
\* the used entries of t's owned_mutexes[], each entry is there once, and an
\* unlocked mutex has no owner.  Unlocking out of order moves the last entry into
\* the gap, and a handoff rewrites both tasks' arrays.
OwnershipConsistent ==
    \A m \in Mutexes :
        /\ mutex_state[m] = "unlocked" <=> owner[m] = NoTask
        /\ \A t \in UserTasks :
              /\ owner[m] = t <=> m \in Owned(t)
              /\ \A i, j \in UsedIndexes(t) :
                    owned_mutexes[t][i] = m /\ owned_mutexes[t][j] = m => i = j

\* A mutex that tasks wait for has an owner, and the owner is not among them: an
\* unlock with waiters hands over, and the last waiter to leave may do so by its
\* deadline at any moment.
WaitersHaveOwner ==
    \A m \in Mutexes : waiters[m] # {} => owner[m] # NoTask /\ owner[m] \notin waiters[m]

\* A call that will return OS_OK owns its mutex, one that will return
\* OS_ERR_UNAVAILABLE does not, in whatever order handoff, deadline and the steps
\* of the recompute came.
ResultTellsOwnership ==
    \A t \in UserTasks :
        in_call[t] # NULL /\ blocked_waitlist[t] = NULL =>
            (owner[in_call[t]] = t <=> ~timeout[t])

\* Inheritance never costs a task its own priority (kernel.md, "Release": the maximum of
\* its base priority and its waiters).  It holds as long as no wait has a deadline.
NeverBelowBase == \A t \in UserTasks : effective_priority[t] <= base_priority[t]

\* The owner of a mutex runs at least at the priority of every task waiting for it
\* (kernel.md, "Priority Inheritance").
Inherits ==
    \A m \in Mutexes : \A u \in waiters[m] :
        effective_priority[owner[m]] <= effective_priority[u]

\* A recompute of t stores the priority it has found, perhaps after a preemption.
StoresPriority(t) == recompute[t].at = "store" /\ recompute'[t].at = "advance"

\* No step of a lock, an unlock, a tick or a switch loses an inheritance, through
\* any chain of owners: the one step that can is the store of a recompute that was
\* preempted after its scan.
InheritanceKept ==
    [][Inherits => Inherits' \/ \E t \in UserTasks : StoresPriority(t)]_mtxVars

\* Nor does one let the running task go on when a better one is ready: whatever the
\* priorities become by donation, handoff or deadline, a switch is pended.  Again the
\* one step that can is the store of a recompute, which may lower the task that makes
\* it and has no port_yield (kernel.c:777).
BestRunsUnlessStored ==
    [][HighestPriorityRuns =>
          HighestPriorityRuns' \/ \E t \in UserTasks : StoresPriority(t)]_mtxVars

\* A task that owns no mutex runs at its base priority.  It holds as long as no
\* wait has a deadline.
BoostEnds ==
    \A t \in UserTasks :
        owned_mutex_count[t] = 0 => effective_priority[t] = base_priority[t]

\* The same once no call of os_mutex_lock is under way, deadlines included: a wait
\* that timed out has its boost undone (api.md, os_mutex_lock).
BoostUndone == (\A t \in UserTasks : in_call[t] = NULL) => BoostEnds

\* Once no recompute is under way, owners have the priority of their waiters.
InheritsWhenSettled == (\A t \in UserTasks : recompute[t].at = "idle") => Inherits

=============================================================================
