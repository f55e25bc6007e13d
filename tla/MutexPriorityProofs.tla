----------------------------- MODULE MutexPriorityProofs -----------------------------
(***************************************************************************)
(* Priority inheritance, for any number of tasks and mutexes and any       *)
(* priorities: which steps keep it, with waits that time out at any        *)
(* moment, and that it neither lowers a task below its base priority nor   *)
(* outlives the mutexes of a task, with waits that do not.                 *)
(***************************************************************************)
EXTENDS MutexProofs, WellFoundedInduction, FiniteSetTheorems

\* Induction on the natural numbers for the elements of a set, which is what remains of it
\* for a prover that cannot instantiate a predicate.
LEMMA NatInductionInSet ==
    ASSUME NEW S, 0 \in S, \A n \in Nat : n \in S => n + 1 \in S
    PROVE  Nat \subseteq S
<1> DEFINE R == OpToRel(<, Nat)
           T == Nat \ S
<1> SUFFICES ASSUME T # {} PROVE FALSE
  OBVIOUS
<1>1. IsWellFoundedOn(R, Nat)
  BY NatLessThanWellFounded
<1>2. \A x, y \in Nat : <<y, x>> \in R <=> y < x
  BY DEF OpToRel
<1>3. PICK x \in T : \A y \in T : <<y, x>> \notin R
  <2> HIDE DEF R
  <2> QED BY <1>1, WFMin
<1>4. x # 0 /\ x - 1 \in Nat /\ x - 1 < x /\ x = (x - 1) + 1
  OBVIOUS
<1>5. x - 1 \notin T
  <2> HIDE DEF R
  <2> QED BY <1>2, <1>3, <1>4
<1> QED BY <1>4, <1>5

\* The tasks on a chain of owners, one after the other.
ChainEntry(chain, first, n) ==
    IF n = 0 THEN first
    ELSE IF chain[n - 1] = NoTask THEN NoTask ELSE NextOwner(chain[n - 1])

IsChain(chain, first, length) ==
    chain = [n \in 0 .. length - 1 |-> ChainEntry(chain, first, n)]

\* There is a chain of every length.
LEMMA ChainExists ==
    ASSUME NEW first
    PROVE  \A length \in Nat : \E chain : IsChain(chain, first, length)
<1> DEFINE S == {length \in Nat : \E chain : IsChain(chain, first, length)}
<1>1. 0 \in S
  <2> DEFINE empty == [n \in 0 .. -1 |-> first]
  <2>1. IsChain(empty, first, 0)
    BY DEF IsChain
  <2> QED BY <2>1
<1>2. ASSUME NEW k \in Nat, k \in S PROVE k + 1 \in S
  <2>1. PICK g : IsChain(g, first, k)
    BY <1>2
  <2> DEFINE h == [n \in 0 .. k |-> IF n = k THEN ChainEntry(g, first, n) ELSE g[n]]
  <2>2. ASSUME NEW n \in 0 .. k PROVE h[n] = ChainEntry(h, first, n)
    <3>1. n # 0 => n - 1 \in 0 .. k - 1 /\ n - 1 \in 0 .. k /\ n - 1 # k
      OBVIOUS
    <3>2. ChainEntry(h, first, n) = ChainEntry(g, first, n)
      BY <3>1 DEF ChainEntry
    <3>3. n # k => n \in 0 .. k - 1
      OBVIOUS
    <3>4. n # k => g[n] = ChainEntry(g, first, n)
      BY <2>1, <3>3 DEF IsChain
    <3> QED BY <3>2, <3>4
  <2>3. h = [n \in 0 .. k |-> h[n]]
    OBVIOUS
  <2>4. (k + 1) - 1 = k /\ k + 1 \in Nat
    OBVIOUS
  <2> HIDE DEF h
  <2>5. IsChain(h, first, k + 1)
    BY <2>2, <2>3, <2>4 DEF IsChain
  <2> QED BY <2>4, <2>5
<1> HIDE DEF S
<1>3. Nat \subseteq S
  BY <1>1, <1>2, NatInductionInSet
<1> QED BY <1>3 DEF S

\* The entries after the first follow from those before.
LEMMA DonationChainIsChain ==
    ASSUME NEW first
    PROVE  \E chain : /\ IsChain(chain, first, OS_MAX_TASKS)
                      /\ DonationChain(first) =
                            {chain[n] : n \in 0 .. OS_MAX_TASKS - 1} \ {NoTask}
<1> DEFINE chain == CHOOSE g : IsChain(g, first, OS_MAX_TASKS)
<1>1. \E g : IsChain(g, first, OS_MAX_TASKS)
  BY ChainExists, LimitAssumption
<1>2. IsChain(chain, first, OS_MAX_TASKS)
  <2> HIDE DEF IsChain
  <2> QED BY <1>1
<1>3. DonationChain(first) = {chain[n] : n \in 0 .. OS_MAX_TASKS - 1} \ {NoTask}
  BY DEF DonationChain, IsChain, ChainEntry
<1> HIDE DEF chain
<1> QED BY <1>2, <1>3

\* What mutex_donate_priority reaches: the first owner, and with each task the owner of the
\* mutex that one waits for.  OS_MAX_TASKS steps are enough, also for a chain that ends in
\* a cycle: as long as the chain is not closed every step finds a task not seen before.
LEMMA DonationChainClosed ==
    ASSUME NEW first \in UserTasks,
           \A x \in UserTasks : NextOwner(x) \in UserTasks \cup {NoTask}
    PROVE  LET reached == DonationChain(first)
           IN  /\ first \in reached /\ reached \subseteq UserTasks
               /\ \A x \in reached : NextOwner(x) \in reached \cup {NoTask}
               /\ \A x \in reached : x = first \/ \E y \in reached : x = NextOwner(y)
<1> DEFINE N == OS_MAX_TASKS
<1>1. N \in Nat /\ N >= task_count /\ task_count \in Nat /\ task_count > 1
  BY LimitAssumption, TaskCountAssumption
<1>2. PICK chain : /\ IsChain(chain, first, N)
                   /\ DonationChain(first) = {chain[n] : n \in 0 .. N - 1} \ {NoTask}
  BY DonationChainIsChain
<1>3. \A n \in 0 .. N - 1 : chain[n] = ChainEntry(chain, first, n)
  BY <1>2 DEF IsChain
<1> HIDE DEF N
<1>4. chain[0] = first
  BY <1>1, <1>3 DEF ChainEntry
<1>5. ASSUME NEW n \in Nat, n + 1 < N
      PROVE  chain[n + 1] = IF chain[n] = NoTask THEN NoTask ELSE NextOwner(chain[n])
  <2>1. n + 1 \in 0 .. N - 1 /\ n + 1 # 0 /\ (n + 1) - 1 = n
    BY <1>1, <1>5
  <2> QED BY <1>3, <2>1 DEF ChainEntry
<1>6. NoTask \notin UserTasks
  BY NoTaskAssumption DEF UserTasks, Tasks
<1>7. \A n \in Nat : n < N => chain[n] \in UserTasks \cup {NoTask}
  <2> DEFINE S == {n \in Nat : n < N => chain[n] \in UserTasks \cup {NoTask}}
  <2>1. 0 \in S
    BY <1>4
  <2>2. ASSUME NEW n \in Nat, n \in S PROVE n + 1 \in S
    <3>1. CASE n + 1 < N
      BY <1>1, <1>5, <2>2, <3>1
    <3>2. CASE ~(n + 1 < N)
      BY <3>2
    <3> QED BY <3>1, <3>2
  <2> HIDE DEF S
  <2>3. Nat \subseteq S
    BY <2>1, <2>2, NatInductionInSet
  <2> QED BY <2>3 DEF S
<1> DEFINE Seen(k) == {chain[n] : n \in 0 .. k - 1} \ {NoTask}
           Closed(V) == \A x \in V : NextOwner(x) \in V \cup {NoTask}
           New(k) == IsFiniteSet(Seen(k)) /\ Cardinality(Seen(k)) = k
<1>8. ASSUME NEW k \in Nat PROVE Seen(k + 1) = Seen(k) \cup ({chain[k]} \ {NoTask})
  <2>1. \A n : n \in 0 .. (k + 1) - 1 <=> n \in 0 .. k - 1 \/ n = k
    OBVIOUS
  <2> QED BY <2>1
<1>9. ASSUME NEW k \in Nat, k < N, NEW x \in Seen(k)
      PROVE  NextOwner(x) \in Seen(k + 1) \cup {NoTask}
  <2>1. PICK n \in 0 .. k - 1 : x = chain[n]
    OBVIOUS
  <2>2. n \in Nat /\ n + 1 < N /\ n + 1 \in 0 .. (k + 1) - 1
    BY <1>1, <1>9
  <2>3. NextOwner(x) = chain[n + 1]
    BY <1>5, <2>1, <2>2
  <2> QED BY <2>2, <2>3
<1> HIDE DEF Seen
<1>10. \A k \in Nat : k <= N => Closed(Seen(k)) \/ New(k)
  <2> DEFINE S == {k \in Nat : k <= N => Closed(Seen(k)) \/ New(k)}
  <2>1. 0 \in S
    <3>1. Seen(0) = {}
      BY DEF Seen
    <3> QED BY <3>1, FS_EmptySet
  <2>2. ASSUME NEW k \in Nat, k \in S PROVE k + 1 \in S
    <3> SUFFICES ASSUME k + 1 <= N PROVE Closed(Seen(k + 1)) \/ New(k + 1)
      OBVIOUS
    <3>1. k < N /\ (Closed(Seen(k)) \/ New(k))
      BY <1>1, <2>2
    <3>2. CASE chain[k] \in Seen(k) \cup {NoTask}
      <4>1. Seen(k + 1) = Seen(k)
        BY <1>8, <3>2 DEF Seen
      <4> QED BY <1>9, <3>1, <4>1
    <3>3. CASE chain[k] \notin Seen(k) \cup {NoTask}
      <4>1. Seen(k + 1) = Seen(k) \cup {chain[k]}
        BY <1>8, <3>3
      <4>2. CASE New(k)
        BY <3>3, <4>1, <4>2, FS_AddElement
      <4>3. CASE k = 0
        <5>1. Seen(k) = {}
          BY <4>3 DEF Seen
        <5> QED BY <4>2, <4>3, <5>1, FS_EmptySet
      <4>4. CASE k # 0 /\ Closed(Seen(k))
        <5>1. k - 1 \in Nat /\ (k - 1) + 1 = k /\ k - 1 \in 0 .. k - 1
          BY <4>4
        <5>2. chain[k - 1] \in Seen(k) \cup {NoTask}
          BY <5>1 DEF Seen
        <5>3. chain[k] = IF chain[k - 1] = NoTask THEN NoTask ELSE NextOwner(chain[k - 1])
          BY <1>5, <3>1, <5>1
        <5> QED BY <3>3, <4>4, <5>2, <5>3
      <4> QED BY <3>1, <4>2, <4>3, <4>4
    <3> QED BY <3>2, <3>3
  <2> HIDE DEF S
  <2>3. Nat \subseteq S
    BY <2>1, <2>2, NatInductionInSet
  <2> QED BY <2>3 DEF S
<1>11. Seen(N) = DonationChain(first) /\ Seen(N) \subseteq UserTasks
  <2>1. ASSUME NEW n \in 0 .. N - 1 PROVE chain[n] \in UserTasks \cup {NoTask}
    <3>1. n \in Nat /\ n < N
      BY <1>1
    <3> QED BY <1>7, <3>1
  <2> QED BY <1>2, <2>1 DEF Seen
<1>12. Closed(Seen(N))
  <2>1. IsFiniteSet(UserTasks) /\ Cardinality(UserTasks) = task_count - 1
    BY <1>1, FS_Interval DEF UserTasks
  <2>2. IsFiniteSet(Seen(N)) => Cardinality(Seen(N)) <= task_count - 1
    BY <1>11, <2>1, FS_Subset
  <2>3. ~New(N)
    BY <1>1, <2>2
  <2> QED BY <1>1, <1>10, <2>3
<1>13. first \in Seen(N)
  <2>1. 0 \in 0 .. N - 1
    BY <1>1
  <2> QED BY <1>4, <1>6, <2>1 DEF Seen
<1>14. ASSUME NEW x \in Seen(N), x # first PROVE \E y \in Seen(N) : x = NextOwner(y)
  <2>1. PICK n \in 0 .. N - 1 : x = chain[n] /\ x # NoTask
    BY DEF Seen
  <2>2. n # 0
    BY <1>4, <1>14, <2>1
  <2>3. n - 1 \in Nat /\ n - 1 \in 0 .. N - 1 /\ (n - 1) + 1 = n /\ n < N
    BY <1>1, <2>2
  <2>4. chain[n] = IF chain[n - 1] = NoTask THEN NoTask ELSE NextOwner(chain[n - 1])
    BY <1>5, <2>3
  <2>5. chain[n - 1] \in Seen(N) /\ x = NextOwner(chain[n - 1])
    BY <2>1, <2>3, <2>4 DEF Seen
  <2> QED BY <2>5
<1> QED BY <1>11, <1>12, <1>13, <1>14

-----------------------------------------------------------------------------
(* Inheritance, deadlines included.                                         *)

\* mutex_donate_priority goes on from a task when its block_reason says that the list it is
\* on is a mutex's.
BlockedForMutex ==
    \A t \in UserTasks : blocked_waitlist[t] # NULL => block_reason[t] = "MUTEX"

\* The inductive invariant behind InheritanceKept.
PriorityInv == MtxInv /\ BlockedForMutex

\* No task is blocked when the scheduler starts.
LEMMA PriorityInitInv == ASSUME WithinLimit PROVE MtxInit => PriorityInv
<1> SUFFICES ASSUME MtxInit PROVE MtxInv /\ BlockedForMutex
  BY DEF PriorityInv
<1>1. MtxInv
  BY MtxInitInv
<1>2. BlockedForMutex
  BY DEF MtxInit, CoreInit, BlockedForMutex
<1> QED BY <1>1, <1>2

\* Blocking sets blocked_waitlist and block_reason together, waking clears both.
LEMMA PriorityInvStep ==
    ASSUME WithinLimit PROVE PriorityInv /\ [MtxNext]_mtxVars => PriorityInv'
<1> SUFFICES ASSUME PriorityInv, [MtxNext]_mtxVars PROVE BlockedForMutex'
  BY MtxInvStep DEF PriorityInv
<1> USE DEF PriorityInv, BlockedForMutex
<1>1. CASE UNCHANGED <<blocked_waitlist, block_reason>>
  BY <1>1
<1>2. CASE MtxTick
  BY <1>2 DEF MtxTick, os_tick, unblock_tasks, FoundInList, MtxInv, CoreInv, CoreTypeOK,
              TCBMatchesWaitlists
<1>3. ASSUME NEW t \in UserTasks, NEW ticks \in Ticks, MtxDelay(t, ticks)
      PROVE  BlockedForMutex'
  BY <1>3, RunningIsInNoList
  DEF MtxDelay, os_task_delay, BlockCurrent, listVars, InApplication, OnCpu, MtxInv,
      CoreInv, CoreTypeOK
<1>4. ASSUME NEW t \in UserTasks, NEW m \in Mutexes, NEW ticks \in Ticks, LockBlock(t, m, ticks)
      PROVE  BlockedForMutex'
  BY <1>4, MutexesAssumption
  DEF LockBlock, waitlist_block_current, BlockCurrent, MtxInv, CoreInv, CoreTypeOK
<1>5. ASSUME NEW t \in UserTasks, NEW m \in Mutexes, NEW u \in UserTasks, UnlockHandOff(t, m, u)
      PROVE  BlockedForMutex'
  BY <1>5 DEF UnlockHandOff, waitlist_unblock, MtxInv, CoreInv, CoreTypeOK
<1>6. ASSUME NEW t \in UserTasks, NEW m \in Mutexes, LockFree(t, m) \/ UnlockFree(t, m)
      PROVE  UNCHANGED <<blocked_waitlist, block_reason>>
  BY <1>6 DEF LockFree, UnlockFree, NothingToUnblock, coreVars, listVars
<1>7. ASSUME NEW t \in UserTasks, RecomputeStep(t)
      PROVE  UNCHANGED <<blocked_waitlist, block_reason>>
  <2>1. CASE LockReturn(t)
    BY <2>1 DEF LockReturn, listVars
  <2>2. CASE ~LockReturn(t)
    BY <1>7, <2>2, RecomputeQuiet DEF QuietStep, listVars
  <2> QED BY <2>1, <2>2
<1>8. MtxSwitch => UNCHANGED <<blocked_waitlist, block_reason>>
  BY DEF MtxSwitch, PendSV_Handler, listVars
<1>9. UNCHANGED mtxVars => UNCHANGED <<blocked_waitlist, block_reason>>
  BY DEF mtxVars, coreVars
<1> QED BY <1>1, <1>2, <1>3, <1>4, <1>5, <1>6, <1>7, <1>8, <1>9, MtxSteps

\* The owner a waiter's TCB leads to is the owner of the list it is on.
LEMMA NextOwnerOfWaiter ==
    ASSUME PriorityInv
    PROVE  /\ \A x \in UserTasks : NextOwner(x) \in UserTasks \cup {NoTask}
           /\ \A m \in Mutexes : \A x \in waiters[m] : x \in UserTasks /\ NextOwner(x) = owner[m]
           /\ \A x \in UserTasks : NextOwner(x) # NoTask =>
                 \E m \in Mutexes : x \in waiters[m] /\ owner[m] = NextOwner(x)
<1> USE MutexesAssumption, NullAssumption
    DEF PriorityInv, BlockedForMutex, MtxInv, CoreInv, CoreTypeOK, TCBMatchesWaitlists
<1>1. \A x \in UserTasks : blocked_waitlist[x] # NULL =>
         blocked_waitlist[x] \in Mutexes /\ x \in waiters[blocked_waitlist[x]]
  BY DEF CallsAreLocks
<1>2. owner \in [Mutexes -> UserTasks \cup {NoTask}]
  BY DEF OwnershipInv, OwnTypeOK
<1>3. \A m \in Mutexes : \A x \in waiters[m] : x \in UserTasks /\ blocked_waitlist[x] = m /\ m # NULL
  OBVIOUS
<1> QED BY <1>1, <1>2, <1>3 DEF NextOwner

\* A task that blocks raises exactly the tasks of the chain to its own priority, so every
\* waiter of the chain is still served by an owner as good as itself.
LEMMA DonationKeepsInheritance ==
    ASSUME PriorityInv, Inherits, NEW t \in UserTasks, NEW m \in Mutexes, NEW ticks \in Ticks,
           LockBlock(t, m, ticks)
    PROVE  Inherits'
<1> DEFINE p == effective_priority[t]
           reached == DonationChain(owner[m])
<1>1. /\ current_task = t /\ owner[m] \in UserTasks /\ UNCHANGED owner
      /\ effective_priority' = Donated(owner[m])
      /\ waiters' = [waiters EXCEPT ![m] = @ \cup {t}]
  BY DEF LockBlock, InApplication, OnCpu, waitlist_block_current, AppendCurrent, ownVars,
         PriorityInv, MtxInv, OwnershipInv, OwnTypeOK, OwnershipConsistent
<1>2. /\ owner[m] \in reached /\ reached \subseteq UserTasks
      /\ \A x \in reached : NextOwner(x) \in reached \cup {NoTask}
  BY <1>1, NextOwnerOfWaiter, DonationChainClosed
<1>3. effective_priority \in [UserTasks -> Nat] /\ p \in Nat
  BY DEF PriorityInv, MtxInv, CoreInv, CoreTypeOK
<1>4. \A x \in UserTasks : effective_priority'[x] =
         IF x \in reached /\ effective_priority[x] > p THEN p ELSE effective_priority[x]
  BY <1>1 DEF Donated
<1> HIDE DEF p, reached
<1>5. ASSUME NEW n \in Mutexes, NEW u \in waiters'[n]
      PROVE  effective_priority'[owner'[n]] <= effective_priority'[u]
  <2>1. (u = t /\ n = m) \/ u \in waiters[n]
    BY <1>1, <1>5, MutexesAssumption DEF PriorityInv, MtxInv, CoreInv, CoreTypeOK
  <2>2. CASE u = t /\ n = m
    BY <1>1, <1>2, <1>3, <1>4, <2>2 DEF p
  <2>3. CASE u \in waiters[n]
    <3>1. /\ u \in UserTasks /\ NextOwner(u) = owner[n]
          /\ owner[n] \in UserTasks
          /\ effective_priority[owner[n]] <= effective_priority[u]
      BY <2>3, NextOwnerOfWaiter
      DEF Inherits, PriorityInv, MtxInv, WaitersHaveOwner, OwnershipInv, OwnTypeOK
    <3>2. u \in reached => owner[n] \in reached
      BY <1>2, <3>1, NoTaskAssumption, IdleIsNoUserTask
    <3> QED BY <1>1, <1>3, <1>4, <3>1, <3>2
  <2> QED BY <2>1, <2>2, <2>3
<1> QED BY <1>5 DEF Inherits

\* A handoff recomputes both priorities from the waiters that remain.
LEMMA HandOffKeepsInheritance ==
    ASSUME PriorityInv, Inherits, NEW t \in UserTasks, NEW m \in Mutexes, NEW u \in UserTasks,
           UnlockHandOff(t, m, u)
    PROVE  Inherits'
<1> USE MutexesAssumption DEF PriorityInv, MtxInv
<1>1. /\ OnCpu(t) /\ owner[m] = t /\ NextWaiter(u, m) /\ owner' = [owner EXCEPT ![m] = u]
      /\ waiters' = [w \in Waitlists |-> waiters[w] \ {u}]
  BY DEF UnlockHandOff, InApplication, waitlist_unblock, Remove
<1>2. PICK p \in BestOf(Sources(t, Owned(t) \ {m}, waiters')),
           q \in BestOf(Sources(u, Owned(u) \cup {m}, waiters')) :
        effective_priority' = [effective_priority EXCEPT ![t] = p, ![u] = q]
  BY DEF UnlockHandOff
<1>3. effective_priority \in [UserTasks -> Nat] /\ owner \in [Mutexes -> UserTasks \cup {NoTask}]
  BY DEF CoreInv, CoreTypeOK, OwnershipInv, OwnTypeOK
<1>4. u # t /\ \A n \in Mutexes : t \notin waiters[n]
  BY <1>1, RunningIsInNoList DEF NextWaiter
<1>5. ASSUME NEW n \in Mutexes, NEW v \in waiters'[n]
      PROVE  effective_priority'[owner'[n]] <= effective_priority'[v]
  <2>1. /\ v \in waiters[n] /\ v \in UserTasks /\ v # u /\ v # t
        /\ effective_priority'[v] = effective_priority[v]
    BY <1>1, <1>2, <1>3, <1>4, <1>5 DEF CoreInv, CoreTypeOK
  <2>2. owner[n] \in UserTasks /\ effective_priority[owner[n]] <= effective_priority[v]
    BY <1>3, <2>1 DEF Inherits, WaitersHaveOwner
  <2>3. \A x \in UserTasks : owner[n] = x <=> n \in Owned(x)
    BY DEF OwnershipInv, OwnershipConsistent
  <2>4. ASSUME NEW x \in UserTasks, NEW mutexes, n \in mutexes,
               NEW best \in BestOf(Sources(x, mutexes, waiters'))
        PROVE  best <= effective_priority[v]
    BY <1>5, <2>4 DEF BestOf, Sources
  <2>5. CASE n = m
    <3>1. owner'[n] = u /\ effective_priority'[u] = q
      BY <1>1, <1>2, <1>3, <2>5
    <3> QED BY <1>2, <2>1, <2>4, <2>5, <3>1
  <2>6. CASE n # m /\ owner[n] = u
    <3>1. owner'[n] = u /\ effective_priority'[u] = q
      BY <1>1, <1>2, <1>3, <2>6
    <3> QED BY <1>2, <2>1, <2>3, <2>4, <2>6, <3>1
  <2>7. CASE n # m /\ owner[n] = t
    <3>1. owner'[n] = t /\ effective_priority'[t] = p
      BY <1>1, <1>2, <1>3, <1>4, <2>7
    <3> QED BY <1>2, <2>1, <2>3, <2>4, <2>7, <3>1
  <2>8. CASE n # m /\ owner[n] # t /\ owner[n] # u
    BY <1>1, <1>2, <1>3, <2>1, <2>2, <2>8
  <2> QED BY <2>5, <2>6, <2>7, <2>8
<1> QED BY <1>5 DEF Inherits

\* Every step but the store of a recompute keeps the inheritance.
LEMMA InheritanceStep ==
    ASSUME WithinLimit, PriorityInv, Inherits, [MtxNext]_mtxVars
    PROVE  Inherits' \/ \E t \in UserTasks : StoresPriority(t)
<1> USE DEF Inherits
<1>1. CASE UNCHANGED <<effective_priority, owner, waiters>>
  BY <1>1
<1>2. CASE MtxTick
  <2>1. /\ UNCHANGED <<effective_priority, owner>>
        /\ \A m \in Mutexes : waiters'[m] \subseteq waiters[m]
    BY <1>2, MutexesAssumption DEF MtxTick, os_tick, unblock_tasks, Remove, ownVars
  <2> QED BY <2>1
<1>3. ASSUME NEW t \in UserTasks, NEW m \in Mutexes, LockFree(t, m) \/ UnlockFree(t, m)
      PROVE  Inherits'
  <2>1. waiters[m] = {}
    BY <1>3, MutexesAssumption, NoTaskAssumption
    DEF LockFree, UnlockFree, NothingToUnblock, PriorityInv, MtxInv, WaitersHaveOwner,
        OwnershipInv, OwnershipConsistent
  <2>2. /\ UNCHANGED <<effective_priority, waiters>>
        /\ \A n \in Mutexes \ {m} : owner'[n] = owner[n]
    BY <1>3 DEF LockFree, UnlockFree, NothingToUnblock, coreVars, listVars, PriorityInv,
                MtxInv, OwnershipInv, OwnTypeOK
  <2> QED BY <2>1, <2>2
<1>4. ASSUME NEW t \in UserTasks, RecomputeStep(t)
      PROVE  \/ UNCHANGED <<effective_priority, owner, waiters>>
             \/ StoresPriority(t)
  <2>1. CASE RecomputeStore(t)
    BY <2>1 DEF RecomputeStore, StoresPriority, PriorityInv, MtxInv, RecomputeOK, Idle
  <2>2. CASE ~RecomputeStore(t)
    BY <1>4, <2>2
    DEF RecomputeStep, RecomputeBegin, RecomputeScan, RecomputeMutex, RecomputeCompare,
        RecomputeTake, RecomputeAdvance, RecomputeFollow, LockReturn, Step, coreVars,
        ownVars, listVars
  <2> QED BY <2>1, <2>2
<1>5. ASSUME NEW t \in UserTasks, NEW ticks \in Ticks, MtxDelay(t, ticks)
      PROVE  UNCHANGED <<effective_priority, owner, waiters>>
  BY <1>5 DEF MtxDelay, os_task_delay, ownVars, listVars
<1>6. MtxSwitch => UNCHANGED <<effective_priority, owner, waiters>>
  BY DEF MtxSwitch, PendSV_Handler, ownVars, listVars
<1>7. UNCHANGED mtxVars => UNCHANGED <<effective_priority, owner, waiters>>
  BY DEF mtxVars, coreVars, ownVars
<1> HIDE DEF Inherits
<1> QED
  BY <1>1, <1>2, <1>3, <1>4, <1>5, <1>6, <1>7, MtxSteps, DonationKeepsInheritance,
     HandOffKeepsInheritance

\* No lock, unlock, tick or switch takes an inherited priority away, along chains and cycles
\* of owners of any length and with waits that time out at any moment; only the store of
\* a recompute that was preempted can.
THEOREM MtxInheritanceKept == WithinLimit => (MtxSpec => InheritanceKept)
<1> SUFFICES ASSUME WithinLimit PROVE MtxSpec => InheritanceKept
  OBVIOUS
<1>1. PriorityInv /\ [MtxNext]_mtxVars =>
         (Inherits => Inherits' \/ \E t \in UserTasks : StoresPriority(t))
  BY InheritanceStep
<1> QED BY <1>1, PriorityInitInv, PriorityInvStep, PTL DEF MtxSpec, InheritanceKept

-----------------------------------------------------------------------------
(* Who runs.                                                                *)

\* Every step that makes a task ready, stops the running one or changes a priority pends
\* PendSV, but for the store.
LEMMA MtxScheduling ==
    ASSUME [MtxNext]_mtxVars
    PROVE  SchedulingStep \/ \E t \in UserTasks : RecomputeStore(t)
<1> USE DEF SchedulingStep
<1>1. MtxSwitch => PendSV_Handler
  BY DEF MtxSwitch
<1>2. MtxTick => pendsv' = TRUE
  BY DEF MtxTick, os_tick, port_yield
<1>3. ASSUME NEW t \in UserTasks, NEW m \in Mutexes, LockFree(t, m) \/ UnlockFree(t, m)
      PROVE  UNCHANGED <<current_task, current_state, pendsv, effective_priority>>
  BY <1>3 DEF LockFree, UnlockFree, NothingToUnblock, coreVars
<1>4. ASSUME NEW t \in UserTasks, NEW m \in Mutexes, NEW ticks \in Ticks, LockBlock(t, m, ticks)
      PROVE  pendsv' = TRUE
  BY <1>4 DEF LockBlock, waitlist_block_current, BlockCurrent, port_yield
<1>5. ASSUME NEW t \in UserTasks, NEW m \in Mutexes, NEW u \in UserTasks, UnlockHandOff(t, m, u)
      PROVE  pendsv' = TRUE
  BY <1>5 DEF UnlockHandOff, port_yield
<1>6. ASSUME NEW t \in UserTasks, NEW ticks \in Ticks, MtxDelay(t, ticks)
      PROVE  pendsv' = TRUE
  BY <1>6 DEF MtxDelay, os_task_delay, BlockCurrent, port_yield
<1>7. ASSUME NEW t \in UserTasks, RecomputeStep(t), ~RecomputeStore(t)
      PROVE  UNCHANGED <<current_task, current_state, pendsv, effective_priority>>
  BY <1>7
  DEF RecomputeStep, RecomputeBegin, RecomputeScan, RecomputeMutex, RecomputeCompare,
      RecomputeTake, RecomputeAdvance, RecomputeFollow, LockReturn, Step, coreVars, schedVars
<1>8. UNCHANGED mtxVars =>
         UNCHANGED <<current_task, current_state, pendsv, effective_priority>>
  BY DEF mtxVars, coreVars
<1> QED BY <1>1, <1>2, <1>3, <1>4, <1>5, <1>6, <1>7, <1>8, MtxSteps

\* Whatever donations, handoffs and deadlines do to the priorities, a better task than the
\* running one is never left ready without a pending switch, but by a store.
THEOREM MtxBestRunsUnlessStored == WithinLimit => (MtxSpec => BestRunsUnlessStored)
<1> SUFFICES ASSUME WithinLimit PROVE MtxSpec => BestRunsUnlessStored
  OBVIOUS
<1>1. ASSUME MtxInv, NEW t \in UserTasks, RecomputeStore(t) PROVE StoresPriority(t)
  BY <1>1 DEF RecomputeStore, StoresPriority, MtxInv, RecomputeOK, Idle
<1>2. PriorityInv /\ [MtxNext]_mtxVars =>
         (HighestPriorityRuns =>
             HighestPriorityRuns' \/ \E t \in UserTasks : StoresPriority(t))
  BY <1>1, MtxScheduling, SchedulingKeepsBest DEF PriorityInv, MtxInv
<1> QED BY <1>2, PriorityInitInv, PriorityInvStep, PTL DEF MtxSpec, BestRunsUnlessStored

\* Round robin among the owners and waiters of mutexes: a store of a priority does not stand
\* in for a switch.
THEOREM MtxTurnComesCloser == WithinLimit => (MtxSpec => TurnComesCloser)
<1> SUFFICES ASSUME WithinLimit PROVE MtxSpec => TurnComesCloser
  OBVIOUS
<1>1. ASSUME NEW t \in UserTasks, RecomputeStore(t) PROVE pendsv' = pendsv
  BY <1>1 DEF RecomputeStore, schedVars
<1>2. PriorityInv /\ [MtxNext]_mtxVars => [SwitchServesTurns]_coreVars
  BY <1>1, MtxScheduling, SchedulingServesTurns DEF PriorityInv, MtxInv, SchedulingStep
<1> QED BY <1>2, PriorityInitInv, PriorityInvStep, PTL DEF MtxSpec, TurnComesCloser

\* Inheritance reaches the whole chain: whoever holds up a waiter, directly or through other
\* owners, is at least as urgent as the waiter.
LEMMA ChainIsUrgent ==
    ASSUME PriorityInv, Inherits, NEW m \in Mutexes, NEW t \in waiters[m],
           NEW u \in DonationChain(owner[m])
    PROVE  u \in UserTasks /\ effective_priority[u] <= effective_priority[t]
<1> DEFINE Urgent(x) == x \in UserTasks /\ effective_priority[x] <= effective_priority[t]
<1>1. t \in UserTasks /\ effective_priority \in [UserTasks -> Nat]
  BY NextOwnerOfWaiter DEF PriorityInv, MtxInv, CoreInv, CoreTypeOK
<1>2. /\ owner[m] \in UserTasks /\ Urgent(owner[m])
      /\ \A x \in UserTasks : Urgent(x) => NextOwner(x) = NoTask \/ Urgent(NextOwner(x))
  <2>1. \A n \in Mutexes : \A x \in waiters[n] :
           owner[n] \in UserTasks /\ effective_priority[owner[n]] <= effective_priority[x]
    BY DEF PriorityInv, MtxInv, WaitersHaveOwner, OwnershipInv, OwnTypeOK, Inherits
  <2>2. ASSUME NEW x \in UserTasks, Urgent(x), NextOwner(x) # NoTask
        PROVE  Urgent(NextOwner(x))
    <3>1. PICK n \in Mutexes : x \in waiters[n] /\ owner[n] = NextOwner(x)
      BY <2>2, NextOwnerOfWaiter
    <3> QED BY <1>1, <2>1, <2>2, <3>1
  <2> QED BY <2>1, <2>2
<1> HIDE DEF Urgent
<1>3. PICK chain : /\ IsChain(chain, owner[m], OS_MAX_TASKS)
                   /\ DonationChain(owner[m]) =
                         {chain[n] : n \in 0 .. OS_MAX_TASKS - 1} \ {NoTask}
  BY DonationChainIsChain
<1>4. \A n \in 0 .. OS_MAX_TASKS - 1 : chain[n] = ChainEntry(chain, owner[m], n)
  BY <1>3 DEF IsChain
<1> DEFINE S == {n \in Nat : n < OS_MAX_TASKS => chain[n] = NoTask \/ Urgent(chain[n])}
<1>5. OS_MAX_TASKS \in Nat
  BY LimitAssumption
<1>6. 0 \in S
  <2>1. 0 < OS_MAX_TASKS => 0 \in 0 .. OS_MAX_TASKS - 1
    BY <1>5
  <2> QED BY <1>2, <1>4, <2>1 DEF ChainEntry
<1>7. ASSUME NEW n \in Nat, n \in S PROVE n + 1 \in S
  <2> SUFFICES ASSUME n + 1 < OS_MAX_TASKS
               PROVE  chain[n + 1] = NoTask \/ Urgent(chain[n + 1])
    OBVIOUS
  <2>1. n + 1 \in 0 .. OS_MAX_TASKS - 1 /\ n + 1 # 0 /\ (n + 1) - 1 = n /\ n < OS_MAX_TASKS
    BY <1>5
  <2>2. chain[n + 1] = IF chain[n] = NoTask THEN NoTask ELSE NextOwner(chain[n])
    BY <1>4, <2>1 DEF ChainEntry
  <2>3. chain[n] = NoTask \/ Urgent(chain[n])
    BY <1>7, <2>1
  <2> QED BY <1>2, <2>2, <2>3 DEF Urgent
<1> HIDE DEF S
<1>8. Nat \subseteq S
  BY <1>6, <1>7, NatInductionInSet
<1>9. PICK n \in 0 .. OS_MAX_TASKS - 1 : u = chain[n] /\ u # NoTask
  BY <1>3
<1>10. n \in Nat /\ n < OS_MAX_TASKS
  BY <1>5, <1>9
<1>11. Urgent(u)
  BY <1>8, <1>9, <1>10 DEF S
<1> QED BY <1>11 DEF Urgent

\* What priority inheritance is for: while a task of the chain that holds up a waiter could
\* run, the processor is with no task less urgent than the waiter.
InversionBounded ==
    ~pendsv => \A m \in Mutexes : \A t \in waiters[m] : \A u \in DonationChain(owner[m]) :
        current_state[u] # "BLOCKED" =>
            /\ current_task # IDLE_TASK_IDX
            /\ effective_priority[current_task] <= effective_priority[t]

\* As long as no store has cost an owner its inheritance or the best task the processor, a
\* task of medium priority never keeps a chain of owners from running for a waiter of high
\* priority (mutex_donate_priority, os_schedule_next_task).
THEOREM MtxInversionBounded ==
    WithinLimit => (MtxSpec => [](Inherits /\ HighestPriorityRuns => InversionBounded))
<1> SUFFICES ASSUME WithinLimit
             PROVE  MtxSpec => [](Inherits /\ HighestPriorityRuns => InversionBounded)
  OBVIOUS
<1>1. ASSUME PriorityInv, Inherits, HighestPriorityRuns PROVE InversionBounded
  <2> SUFFICES ASSUME ~pendsv, NEW m \in Mutexes, NEW t \in waiters[m],
                      NEW u \in DonationChain(owner[m]), current_state[u] # "BLOCKED"
               PROVE  /\ current_task # IDLE_TASK_IDX
                      /\ effective_priority[current_task] <= effective_priority[t]
    BY DEF InversionBounded
  <2>1. u \in UserTasks /\ effective_priority[u] <= effective_priority[t]
    BY <1>1, ChainIsUrgent
  <2>2. CASE current_state[u] = "RUNNING"
    BY <1>1, <2>1, <2>2, IdleIsNoUserTask DEF PriorityInv, MtxInv, CoreInv, ProcessorConsistent
  <2>3. CASE current_state[u] = "READY"
    <3>1. /\ current_task # IDLE_TASK_IDX
          /\ effective_priority[current_task] <= effective_priority[u]
      BY <1>1, <2>1, <2>3 DEF HighestPriorityRuns, ReadyTasks
    <3>2. /\ t \in UserTasks /\ current_task \in UserTasks
          /\ effective_priority \in [UserTasks -> Nat]
      BY <1>1, <3>1, NextOwnerOfWaiter, IdleIsNoUserTask
      DEF PriorityInv, MtxInv, CoreInv, CoreTypeOK
    <3> QED BY <2>1, <3>1, <3>2
  <2>4. current_state[u] \in {"READY", "RUNNING", "BLOCKED"}
    BY <1>1, <2>1, IdleIsNoUserTask DEF PriorityInv, MtxInv, CoreInv, CoreTypeOK
  <2> QED BY <2>2, <2>3, <2>4
<1>2. PriorityInv => (Inherits /\ HighestPriorityRuns => InversionBounded)
  BY <1>1
<1> QED BY <1>2, PriorityInitInv, PriorityInvStep, PTL DEF MtxSpec

-----------------------------------------------------------------------------
(* The order of the waiting tasks.                                          *)

\* Every step that touches the list of a mutex is a block, a handoff or a tick.
LEMMA MtxListSteps ==
    ASSUME MtxInv, [MtxNext]_mtxVars
    PROVE  WaitlistStep
<1> USE MutexesAssumption DEF MtxInv
<1>1. MtxTick => WaitlistStep
  BY TickIsWaitlistStep DEF MtxTick
<1>2. ASSUME NEW t \in UserTasks, NEW m \in Mutexes, NEW ticks \in Ticks, LockBlock(t, m, ticks)
      PROVE  WaitlistStep
  BY <1>2, RunningIsInNoList
  DEF LockBlock, InApplication, OnCpu, waitlist_block_current, WaitlistStep
<1>3. ASSUME NEW t \in UserTasks, NEW m \in Mutexes, NEW u \in UserTasks, UnlockHandOff(t, m, u)
      PROVE  WaitlistStep
  BY <1>3 DEF UnlockHandOff, waitlist_unblock, WaitlistStep
<1>4. ASSUME NEW t \in UserTasks, NEW m \in Mutexes, LockFree(t, m) \/ UnlockFree(t, m)
      PROVE  UNCHANGED <<waiters, ahead>>
  BY <1>4 DEF LockFree, UnlockFree, NothingToUnblock, coreVars, listVars
<1>5. ASSUME NEW t \in UserTasks, RecomputeStep(t)
      PROVE  UNCHANGED <<waiters, ahead>>
  BY <1>5
  DEF RecomputeStep, RecomputeBegin, RecomputeScan, RecomputeMutex, RecomputeCompare,
      RecomputeTake, RecomputeStore, RecomputeAdvance, RecomputeFollow, LockReturn, Step,
      coreVars, listVars
<1>6. ASSUME NEW t \in UserTasks, NEW ticks \in Ticks, MtxDelay(t, ticks)
      PROVE  UNCHANGED <<waiters, ahead>>
  BY <1>6 DEF MtxDelay, os_task_delay, listVars
<1>7. MtxSwitch \/ UNCHANGED mtxVars => UNCHANGED <<waiters, ahead>>
  BY DEF MtxSwitch, PendSV_Handler, listVars, mtxVars, coreVars
<1>8. UNCHANGED <<waiters, ahead>> => WaitlistStep
  BY DEF WaitlistStep
<1> QED BY <1>1, <1>2, <1>3, <1>4, <1>5, <1>6, <1>7, <1>8, MtxSteps

\* A handoff goes to the first of the best waiters, whatever priorities they have inherited
\* meanwhile; the others keep their order.
THEOREM MtxNoOvertaking == WithinLimit => (MtxSpec => NoOvertaking)
<1> SUFFICES ASSUME WithinLimit PROVE MtxSpec => NoOvertaking
  OBVIOUS
<1>1. MtxInv /\ [MtxNext]_mtxVars =>
         [\A w \in Waitlists : \A u \in waiters[w] : \A t \in ahead[u] \cap waiters'[w] :
             LeavesTheirOrder(w, t, u)]_coreVars
  BY MtxListSteps, WaitlistStepInOrder DEF MtxInv
<1> QED BY <1>1, MtxInitInv, MtxInvStep, PTL DEF MtxSpec, NoOvertaking

\* The lists of the mutexes are arrays without gaps or duplicates, deadlines included.
THEOREM MtxWaitlistsAreArrays == WithinLimit => (MtxSpec => []WaitlistsAreArrays)
<1> SUFFICES ASSUME WithinLimit PROVE MtxSpec => []WaitlistsAreArrays
  OBVIOUS
<1>1. MtxInit => ListsOrdered
  BY InitOrdered DEF MtxInit
<1>2. MtxInv /\ ListsOrdered /\ [MtxNext]_mtxVars => ListsOrdered'
  BY MtxListSteps, WaitlistStepKeepsOrder DEF MtxInv
<1>3. MtxInv /\ ListsOrdered => WaitlistsAreArrays
  BY OrderMakesArrays DEF MtxInv
<1> QED BY <1>1, <1>2, <1>3, MtxInitInv, MtxInvStep, PTL DEF MtxSpec

-----------------------------------------------------------------------------
(* Base priorities, when no wait has a deadline.                            *)

\* The hypothesis of the theorems below: a lock returns at once or waits forever.  With a
\* deadline between its two loads a recompute may take the priority of another task, or of
\* none, and a wait that times out leaves its boost behind until the recompute.
NoDeadlines == \A t \in UserTasks : Timeouts[t] \subseteq {0, OS_WAIT_FOREVER}

EndlessWaits ==
    \A t \in UserTasks :
        /\ blocked_waitlist[t] # NULL => wakeup_tick[t] = 0
        /\ ~timeout[t]

\* A priority t may have: its base, or at most that of a task waiting for one of its mutexes.
MayHave(t, p) ==
    /\ p <= base_priority[t]
    /\ p < base_priority[t] =>
          \E m \in Mutexes : owner[m] = t /\ \E u \in waiters[m] : effective_priority[u] <= p

BoostsHaveWaiters == \A t \in UserTasks : MayHave(t, effective_priority[t])

\* A recompute looks at the task that makes it, which owns what it has waited for.  The
\* lists of its mutexes only grow meanwhile, so entry j is there at both loads.
OwnRecompute(t, r) ==
    /\ r.at # "idle" => in_call[t] # NULL /\ blocked_waitlist[t] = NULL
    /\ r.at # "follow"
    /\ r.at \in Scanning => r.target = t
    /\ r.at \in {"scan", "mutex", "compare", "take", "store"} =>
          /\ MayHave(t, r.best)
          /\ r.list # NULL => owner[r.list] = t
    /\ r.at = "mutex" => r.i < owned_mutex_count[t]
    /\ r.at \in {"compare", "take"} => r.j < Cardinality(waiters[r.list])
    /\ r.at = "take" => \A u \in waiters[r.list] :
          Cardinality(ahead[u]) = r.j => effective_priority[u] < r.best

OwnRecomputes == \A t \in UserTasks : OwnRecompute(t, recompute[t])

\* The inductive invariant behind NeverBelowBase and BoostEnds.
EndlessInv ==
    /\ MtxInv /\ BlockedForMutex /\ EndlessWaits /\ ListsOrdered
    /\ BoostsHaveWaiters /\ OwnRecomputes

-----------------------------------------------------------------------------
(* What each step leaves alone.                                             *)

\* The steps when no wait has a deadline.
LEMMA EndlessSteps ==
    ASSUME NoDeadlines, MtxNext
    PROVE  \/ MtxTick \/ MtxSwitch
           \/ \E t \in UserTasks, m \in Mutexes :
                 \/ LockFree(t, m) \/ UnlockFree(t, m)
                 \/ \E u \in UserTasks : UnlockHandOff(t, m, u)
                 \/ LockBlock(t, m, OS_WAIT_FOREVER)
           \/ \E t \in UserTasks : RecomputeStep(t)
           \/ \E t \in UserTasks, ticks \in Ticks : MtxDelay(t, ticks)
BY UsesAssumption, DelaysAssumption DEF MtxNext, MtxTaskStep, NoDeadlines, LockBlock

\* No tick takes a task off a list.
LEMMA TickLeavesLists ==
    ASSUME EndlessInv, MtxTick
    PROVE  /\ UNCHANGED <<waiters, ahead, blocked_waitlist, effective_priority, in_call>>
           /\ UNCHANGED <<ownVars, recompute>> /\ EndlessWaits'
<1> DEFINE now == (systick_count + 1) % TickModulus
           leaving == {t \in Expired(now) : FoundInList(t)}
<1> USE DEF EndlessInv, EndlessWaits, MtxInv, CoreInv, CoreTypeOK
<1>1. unblock_tasks(Expired(now)) /\ UNCHANGED <<effective_priority, in_call, ownVars, recompute>>
  BY DEF MtxTick, os_tick
<1>2. Expired(now) \subseteq UserTasks /\ \A t \in Expired(now) : blocked_waitlist[t] = NULL
  BY DEF Expired
<1> HIDE DEF now
<1>3. leaving = {}
  BY <1>2 DEF FoundInList
<1>4. UNCHANGED <<waiters, ahead>>
  BY <1>1, <1>3 DEF unblock_tasks, Remove
<1>5. UNCHANGED blocked_waitlist
  BY <1>1, <1>2 DEF unblock_tasks, FoundInList
<1>6. EndlessWaits'
  BY <1>1, <1>2, <1>5 DEF unblock_tasks
<1> QED BY <1>1, <1>4, <1>5, <1>6

\* Without deadlines every wake-up is a handoff, and what it takes off a list leaves the rest
\* in order.
LEMMA EndlessWaitsStep ==
    ASSUME NoDeadlines, EndlessInv, [MtxNext]_mtxVars
    PROVE  EndlessWaits' /\ ListsOrdered'
<1> USE DEF EndlessInv
<1>1. ASSUME UNCHANGED <<wakeup_tick, blocked_waitlist, timeout>> PROVE EndlessWaits'
  BY <1>1 DEF EndlessWaits
<1>2. ASSUME UNCHANGED <<waiters, ahead>> PROVE ListsOrdered'
  BY <1>2 DEF ListsOrdered, ListOrdered
<1>3. CASE MtxTick
  BY <1>2, <1>3, TickLeavesLists
<1>4. ASSUME NEW t \in UserTasks, NEW ticks \in Ticks, MtxDelay(t, ticks)
      PROVE  EndlessWaits' /\ ListsOrdered'
  <2>1. /\ blocked_waitlist[t] = NULL /\ current_task = t
        /\ UNCHANGED <<waiters, ahead, blocked_waitlist, timeout>>
        /\ wakeup_tick' = [wakeup_tick EXCEPT ![current_task] = Deadline(ticks)]
    BY <1>4, RunningIsInNoList
    DEF MtxDelay, os_task_delay, InApplication, BlockCurrent, listVars, MtxInv, OnCpu
  <2> QED BY <1>2, <2>1 DEF EndlessWaits, MtxInv, CoreInv, CoreTypeOK
<1>5. ASSUME NEW t \in UserTasks, NEW m \in Mutexes, LockBlock(t, m, OS_WAIT_FOREVER)
      PROVE  EndlessWaits' /\ ListsOrdered'
  <2>1. /\ current_task = t /\ \A w \in Waitlists : t \notin waiters[w]
        /\ AppendCurrent(m) /\ m \in Waitlists
        /\ wakeup_tick' = [wakeup_tick EXCEPT ![current_task] = 0]
        /\ blocked_waitlist' = [blocked_waitlist EXCEPT ![current_task] = m]
        /\ UNCHANGED timeout
    BY <1>5, RunningIsInNoList, MutexesAssumption
    DEF LockBlock, InApplication, waitlist_block_current, BlockCurrent, Deadline, MtxInv, OnCpu
  <2>2. EndlessWaits'
    BY <2>1 DEF EndlessWaits, MtxInv, CoreInv, CoreTypeOK
  <2> QED BY <2>1, <2>2, AppendKeepsOrder DEF MtxInv
<1>6. ASSUME NEW t \in UserTasks, NEW m \in Mutexes, NEW u \in UserTasks, UnlockHandOff(t, m, u)
      PROVE  EndlessWaits' /\ ListsOrdered'
  <2>1. /\ wakeup_tick' = [wakeup_tick EXCEPT ![u] = 0]
        /\ blocked_waitlist' = [blocked_waitlist EXCEPT ![u] = NULL]
        /\ timeout' = [timeout EXCEPT ![u] = FALSE]
        /\ Remove({u})
    BY <1>6 DEF UnlockHandOff, waitlist_unblock, ClearTimeout
  <2>2. EndlessWaits'
    BY <2>1 DEF EndlessWaits, MtxInv, CoreInv, CoreTypeOK
  <2> QED BY <2>1, <2>2, RemoveKeepsOrder DEF MtxInv
<1>7. ASSUME NEW t \in UserTasks, NEW m \in Mutexes, LockFree(t, m) \/ UnlockFree(t, m)
      PROVE  UNCHANGED <<wakeup_tick, blocked_waitlist, timeout, waiters, ahead>>
  BY <1>7 DEF LockFree, UnlockFree, NothingToUnblock, coreVars, listVars
<1>8. ASSUME NEW t \in UserTasks, RecomputeStep(t)
      PROVE  UNCHANGED <<wakeup_tick, blocked_waitlist, timeout, waiters, ahead>>
  BY <1>8
  DEF RecomputeStep, RecomputeBegin, RecomputeScan, RecomputeMutex, RecomputeCompare,
      RecomputeTake, RecomputeStore, RecomputeAdvance, RecomputeFollow, LockReturn, Step,
      coreVars, ownVars, listVars
<1>9. MtxSwitch \/ UNCHANGED mtxVars
         => UNCHANGED <<wakeup_tick, blocked_waitlist, timeout, waiters, ahead>>
  BY DEF MtxSwitch, PendSV_Handler, listVars, mtxVars, coreVars
<1> QED BY <1>1, <1>2, <1>3, <1>4, <1>5, <1>6, <1>7, <1>8, <1>9, EndlessSteps

\* The mutexes of a task keep their owner, and their lists only get more entries, at the end
\* and of better priority.
ListsOnlyGrow(t) ==
    \A m \in Mutexes : owner[m] = t =>
        /\ owner'[m] = t /\ waiters[m] \subseteq waiters'[m]
        /\ \A u \in waiters[m] : ahead'[u] = ahead[u] /\ effective_priority'[u] <= effective_priority[u]
        /\ \A u \in waiters'[m] \ waiters[m] : ahead'[u] = waiters[m]

\* What was a reason to have a priority still is one.
LEMMA MayHaveStill ==
    ASSUME EndlessInv, NEW t \in UserTasks, ListsOnlyGrow(t),
           effective_priority' \in [UserTasks -> Nat],
           NEW p \in Nat, MayHave(t, p)
    PROVE  MayHave(t, p)'
<1>1. CASE ~(p < base_priority[t])
  BY <1>1 DEF MayHave
<1>2. CASE p < base_priority[t]
  <2>1. PICK m \in Mutexes :
          owner[m] = t /\ \E u \in waiters[m] : effective_priority[u] <= p
    BY <1>2 DEF MayHave
  <2>2. PICK u \in waiters[m] : owner[m] = t /\ effective_priority[u] <= p
    BY <2>1
  <2>3. u \in UserTasks
    BY <2>2, MutexesAssumption DEF EndlessInv, MtxInv, CoreInv, CoreTypeOK
  <2>4. /\ owner'[m] = t /\ u \in waiters'[m]
        /\ effective_priority'[u] <= effective_priority[u]
    BY <2>2 DEF ListsOnlyGrow
  <2>5. effective_priority'[u] <= p
    BY <2>2, <2>3, <2>4 DEF EndlessInv, MtxInv, CoreInv, CoreTypeOK
  <2> QED BY <2>4, <2>5 DEF MayHave
<1> QED BY <1>1, <1>2

\* A recompute goes on undisturbed by what other tasks and interrupts do.
LEMMA RecomputeUndisturbed ==
    ASSUME EndlessInv, MtxInv', NEW t \in UserTasks, ListsOnlyGrow(t),
           recompute'[t] = recompute[t],
           recompute[t].at # "idle" =>
              /\ in_call'[t] # NULL /\ blocked_waitlist'[t] = NULL
              /\ owned_mutex_count'[t] = owned_mutex_count[t]
    PROVE  OwnRecompute(t, recompute[t])'
<1>1. PICK r \in Recomputes : r = recompute[t]
  BY DEF EndlessInv, MtxInv, RecomputeOK
<1>2. OwnRecompute(t, r)
  BY <1>1 DEF EndlessInv, OwnRecomputes
<1>3. /\ recompute'[t] = r /\ r.best \in Nat /\ r.list \in Mutexes \cup {NULL} /\ r.j \in Nat
      /\ r.at \in {"compare", "take"} => r.list \in Mutexes
      /\ effective_priority' \in [UserTasks -> Nat] /\ effective_priority \in [UserTasks -> Nat]
  BY <1>1 DEF EndlessInv, MtxInv, RecomputeOK, Recomputes, CoreInv, CoreTypeOK
<1>4. r.at \in {"scan", "mutex", "compare", "take", "store"} =>
        /\ MayHave(t, r.best)'
        /\ r.list # NULL => owner'[r.list] = t
  BY <1>2, <1>3, MayHaveStill DEF OwnRecompute, ListsOnlyGrow
<1>5. ASSUME r.at \in {"compare", "take"}
      PROVE  /\ r.j < Cardinality(waiters'[r.list])
             /\ r.at = "take" => \A u \in waiters'[r.list] :
                   Cardinality(ahead'[u]) = r.j => effective_priority'[u] < r.best
  <2>1. /\ r.list \in Mutexes /\ owner[r.list] = t /\ r.j < Cardinality(waiters[r.list])
        /\ r.at = "take" => \A u \in waiters[r.list] :
              Cardinality(ahead[u]) = r.j => effective_priority[u] < r.best
    BY <1>2, <1>3, <1>5, NullAssumption, MutexesAssumption DEF OwnRecompute
  <2>2. /\ IsFiniteSet(waiters[r.list]) /\ Cardinality(waiters[r.list]) \in Nat
        /\ waiters[r.list] \subseteq UserTasks
    BY <2>1, MutexesAssumption, IndexesAreFilled DEF EndlessInv, MtxInv, CoreInv, CoreTypeOK
  <2>3. /\ waiters[r.list] \in SUBSET waiters'[r.list]
        /\ \A u \in waiters[r.list] : /\ ahead'[u] = ahead[u]
                                      /\ effective_priority'[u] <= effective_priority[u]
        /\ \A u \in waiters'[r.list] \ waiters[r.list] : ahead'[u] = waiters[r.list]
    BY <2>1 DEF ListsOnlyGrow
  <2>4. /\ IsFiniteSet(waiters'[r.list])
        /\ Cardinality(waiters'[r.list]) \in Nat
    <3>1. IsFiniteSet(UserTasks)
      BY TaskCountAssumption, FS_Interval DEF UserTasks
    <3>2. waiters'[r.list] \in SUBSET UserTasks
      BY <2>1, MutexesAssumption DEF MtxInv, CoreInv, CoreTypeOK
    <3> QED BY <3>1, <3>2, FS_Subset, FS_CardinalityType
  <2>5. Cardinality(waiters[r.list]) <= Cardinality(waiters'[r.list])
    BY <2>3, <2>4, FS_Subset
  <2>6. r.j < Cardinality(waiters'[r.list])
    BY <1>3, <2>1, <2>2, <2>4, <2>5
  <2>7. ASSUME r.at = "take", NEW u \in waiters'[r.list], Cardinality(ahead'[u]) = r.j
        PROVE  effective_priority'[u] < r.best
    <3>1. u \in waiters[r.list]
      BY <1>3, <2>1, <2>2, <2>3, <2>7
    <3>2. effective_priority[u] < r.best /\ effective_priority'[u] <= effective_priority[u]
      BY <2>1, <2>3, <2>7, <3>1
    <3>3. u \in UserTasks
      BY <2>2, <3>1
    <3> QED BY <1>3, <3>2, <3>3
  <2> QED BY <2>6, <2>7
<1>6. /\ r.at # "idle" => in_call'[t] # NULL /\ blocked_waitlist'[t] = NULL
      /\ r.at # "follow"
      /\ r.at \in Scanning => r.target = t
      /\ r.at = "mutex" => r.i < owned_mutex_count'[t]
  BY <1>2, <1>1 DEF OwnRecompute
<1> QED BY <1>3, <1>4, <1>5, <1>6 DEF OwnRecompute

-----------------------------------------------------------------------------
(* What each step does to priorities and recomputes.                        *)

PrioritiesOK(t) == MayHave(t, effective_priority[t]) /\ OwnRecompute(t, recompute[t])

\* A task whose lists only grow, whose own priority stays and that does not move in its
\* recompute goes on as before.
LEMMA TaskUndisturbed ==
    ASSUME EndlessInv, MtxInv', NEW t \in UserTasks, ListsOnlyGrow(t),
           effective_priority'[t] = effective_priority[t],
           recompute'[t] = recompute[t],
           recompute[t].at # "idle" =>
              /\ in_call'[t] # NULL /\ blocked_waitlist'[t] = NULL
              /\ owned_mutex_count'[t] = owned_mutex_count[t]
    PROVE  PrioritiesOK(t)'
<1>1. PICK p \in Nat : p = effective_priority[t]
  BY DEF EndlessInv, MtxInv, CoreInv, CoreTypeOK
<1>2. effective_priority' \in [UserTasks -> Nat]
  BY DEF MtxInv, CoreInv, CoreTypeOK
<1>3. MayHave(t, p)
  BY <1>1 DEF EndlessInv, BoostsHaveWaiters
<1>4. MayHave(t, p)'
  BY <1>2, <1>3, MayHaveStill
<1>5. MayHave(t, effective_priority[t])'
  BY <1>1, <1>4 DEF MayHave
<1> QED BY <1>5, RecomputeUndisturbed DEF PrioritiesOK

\* Outside a recompute there is only the priority itself to look at.
LEMMA IdleTask ==
    ASSUME NEW t \in UserTasks, recompute'[t].at = "idle"
    PROVE  OwnRecompute(t, recompute[t])'
BY DEF OwnRecompute, Scanning

\* A task in the application's code, or on a list, is in no recompute.
LEMMA OutsideRecompute ==
    ASSUME EndlessInv, NEW t \in UserTasks, in_call[t] = NULL \/ blocked_waitlist[t] # NULL
    PROVE  recompute[t].at = "idle"
BY DEF EndlessInv, OwnRecomputes, OwnRecompute

\* A tick, a switch or a delay.
LEMMA KernelKeepsPriorities ==
    ASSUME EndlessInv, MtxInv', NEW t \in UserTasks,
           UNCHANGED <<waiters, ahead, blocked_waitlist, effective_priority, in_call>>,
           UNCHANGED <<ownVars, recompute>>
    PROVE  PrioritiesOK(t)'
<1>1. ListsOnlyGrow(t)
  <2>1. \A m \in Mutexes : waiters[m] \subseteq UserTasks
    BY MutexesAssumption DEF EndlessInv, MtxInv, CoreInv, CoreTypeOK
  <2>2. effective_priority \in [UserTasks -> Nat]
    BY DEF EndlessInv, MtxInv, CoreInv, CoreTypeOK
  <2> QED BY <2>1, <2>2 DEF ListsOnlyGrow, ownVars
<1>2. OwnRecompute(t, recompute[t])
  BY DEF EndlessInv, OwnRecomputes
<1> QED BY <1>1, <1>2, TaskUndisturbed DEF OwnRecompute, ownVars

\* A lock that finds the mutex free.
LEMMA FreeLockKeepsPriorities ==
    ASSUME EndlessInv, MtxInv', NEW x \in UserTasks, NEW m \in Mutexes, LockFree(x, m),
           NEW t \in UserTasks
    PROVE  PrioritiesOK(t)'
<1>1. /\ in_call[x] = NULL /\ owner[m] = NoTask
      /\ owner' = [owner EXCEPT ![m] = x]
      /\ owned_mutex_count' = [owned_mutex_count EXCEPT ![x] = @ + 1]
      /\ UNCHANGED <<waiters, ahead, blocked_waitlist, effective_priority, in_call, recompute>>
  BY DEF LockFree, InApplication, coreVars, EndlessInv, MtxInv, OwnershipInv, OwnershipConsistent
<1>2. /\ NoTask \notin UserTasks /\ \A n \in Mutexes : waiters[n] \subseteq UserTasks
      /\ effective_priority \in [UserTasks -> Nat]
      /\ owner \in [Mutexes -> UserTasks \cup {NoTask}]
      /\ owned_mutex_count \in [UserTasks -> Nat]
  BY NoTaskAssumption, MutexesAssumption
  DEF UserTasks, Tasks, EndlessInv, MtxInv, CoreInv, CoreTypeOK, OwnershipInv, OwnTypeOK
<1>3. ListsOnlyGrow(t)
  BY <1>1, <1>2 DEF ListsOnlyGrow
<1>4. recompute[t].at # "idle" =>
         t # x /\ in_call[t] # NULL /\ blocked_waitlist[t] = NULL
  BY <1>1, OutsideRecompute
<1> QED BY <1>1, <1>2, <1>3, <1>4, TaskUndisturbed

\* An unlock of a mutex nobody waits for: nobody's priority had its reason there.
LEMMA FreeUnlockKeepsPriorities ==
    ASSUME EndlessInv, MtxInv', NEW x \in UserTasks, NEW m \in Mutexes, UnlockFree(x, m),
           NEW t \in UserTasks
    PROVE  PrioritiesOK(t)'
<1>1. /\ in_call[x] = NULL /\ owner[m] = x /\ waiters[m] = {}
      /\ owner' = [owner EXCEPT ![m] = NoTask]
      /\ owned_mutex_count' = [owned_mutex_count EXCEPT ![x] = @ - 1]
      /\ UNCHANGED <<waiters, ahead, blocked_waitlist, effective_priority, in_call, recompute>>
  BY DEF UnlockFree, InApplication, NothingToUnblock, listVars
<1>2. /\ \A n \in Mutexes : waiters[n] \subseteq UserTasks
      /\ effective_priority \in [UserTasks -> Nat]
      /\ owner \in [Mutexes -> UserTasks \cup {NoTask}]
      /\ owned_mutex_count \in [UserTasks -> Nat]
  BY MutexesAssumption
  DEF EndlessInv, MtxInv, CoreInv, CoreTypeOK, OwnershipInv, OwnTypeOK
<1>3. recompute[t].at # "idle" =>
         t # x /\ in_call[t] # NULL /\ blocked_waitlist[t] = NULL
  BY <1>1, OutsideRecompute
<1>4. CASE t # x
  <2>1. ListsOnlyGrow(t)
    BY <1>1, <1>2, <1>4 DEF ListsOnlyGrow
  <2> QED BY <1>1, <1>2, <1>3, <2>1, TaskUndisturbed
<1>5. CASE t = x
  <2>1. OwnRecompute(t, recompute[t])'
    BY <1>1, <1>3, <1>5, IdleTask
  <2>2. MayHave(t, effective_priority[t])
    BY DEF EndlessInv, BoostsHaveWaiters
  <2>3. MayHave(t, effective_priority[t])'
    BY <1>1, <1>2, <2>2 DEF MayHave
  <2> QED BY <2>1, <2>3 DEF PrioritiesOK
<1> QED BY <1>4, <1>5

\* A task that blocks only adds itself to the end of a list, and only improves priorities:
\* each to its own, which is that of a waiter further up the chain.
LEMMA DonationKeepsPriorities ==
    ASSUME EndlessInv, MtxInv', NEW x \in UserTasks, NEW m \in Mutexes, NEW ticks \in Ticks,
           LockBlock(x, m, ticks), NEW t \in UserTasks
    PROVE  PrioritiesOK(t)'
<1> DEFINE p == effective_priority[x]
           reached == DonationChain(owner[m])
<1>1. PriorityInv
  BY DEF EndlessInv, PriorityInv
<1>2. /\ current_task = x /\ in_call[x] = NULL /\ owner[m] \in UserTasks /\ UNCHANGED ownVars
      /\ effective_priority' = Donated(owner[m])
      /\ waiters' = [waiters EXCEPT ![m] = @ \cup {x}]
      /\ ahead' = [ahead EXCEPT ![x] = waiters[m]]
      /\ blocked_waitlist' = [blocked_waitlist EXCEPT ![x] = m]
      /\ in_call' = [in_call EXCEPT ![x] = m]
      /\ UNCHANGED recompute
      /\ \A n \in Mutexes : x \notin waiters[n]
  BY RunningIsInNoList, MutexesAssumption
  DEF LockBlock, InApplication, OnCpu, waitlist_block_current, AppendCurrent,
      EndlessInv, MtxInv, OwnershipInv, OwnTypeOK, OwnershipConsistent
<1>3. /\ reached \subseteq UserTasks
      /\ \A v \in reached : v = owner[m] \/ \E y \in reached : v = NextOwner(y)
  BY <1>1, <1>2, NextOwnerOfWaiter, DonationChainClosed
<1>4. /\ effective_priority \in [UserTasks -> Nat] /\ p \in Nat
      /\ waiters \in [Waitlists -> SUBSET UserTasks] /\ ahead \in [UserTasks -> SUBSET UserTasks]
      /\ blocked_waitlist \in [UserTasks -> Waitlists \cup {NULL}]
      /\ in_call \in [UserTasks -> Waitlists \cup {NULL}]
      /\ owner \in [Mutexes -> UserTasks \cup {NoTask}]
  BY DEF EndlessInv, MtxInv, CoreInv, CoreTypeOK, OwnershipInv, OwnTypeOK
<1>5. \A v \in UserTasks :
         /\ effective_priority'[v] =
               IF v \in reached /\ effective_priority[v] > p THEN p ELSE effective_priority[v]
         /\ effective_priority'[v] <= effective_priority[v]
  BY <1>2, <1>4 DEF Donated
<1> HIDE DEF p, reached
<1>6. ListsOnlyGrow(t)
  <2>1. ASSUME NEW n \in Mutexes
        PROVE  /\ waiters[n] \subseteq UserTasks /\ x \notin waiters[n]
               /\ waiters'[n] = IF n = m THEN waiters[n] \cup {x} ELSE waiters[n]
               /\ \A u \in UserTasks : ahead'[u] = IF u = x THEN waiters[m] ELSE ahead[u]
    BY <1>2, <1>4, MutexesAssumption
  <2>2. ASSUME NEW n \in Mutexes, NEW u \in waiters[n]
        PROVE  ahead'[u] = ahead[u] /\ effective_priority'[u] <= effective_priority[u]
    BY <1>5, <2>1
  <2>3. ASSUME NEW n \in Mutexes, NEW u \in waiters'[n] \ waiters[n]
        PROVE  ahead'[u] = waiters[n]
    BY <2>1
  <2>4. \A n \in Mutexes : owner'[n] = owner[n] /\ waiters[n] \subseteq waiters'[n]
    BY <1>2, <2>1 DEF ownVars
  <2> QED BY <2>2, <2>3, <2>4 DEF ListsOnlyGrow
<1>7. recompute[t].at # "idle" =>
         /\ in_call'[t] # NULL /\ blocked_waitlist'[t] = NULL
         /\ owned_mutex_count'[t] = owned_mutex_count[t]
  <2>1. recompute[t].at # "idle" => t # x /\ in_call[t] # NULL /\ blocked_waitlist[t] = NULL
    BY <1>2, OutsideRecompute
  <2> QED BY <1>2, <1>4, <2>1 DEF ownVars
<1>8. CASE effective_priority'[t] = effective_priority[t]
  BY <1>2, <1>6, <1>7, <1>8, TaskUndisturbed
<1>9. CASE effective_priority'[t] # effective_priority[t]
  <2>1. t \in reached /\ effective_priority[t] > p /\ effective_priority'[t] = p
    BY <1>5, <1>9
  <2>2. OwnRecompute(t, recompute[t])'
    BY <1>2, <1>6, <1>7, RecomputeUndisturbed
  <2>3. p < base_priority[t]
    <3>1. effective_priority[t] <= base_priority[t]
      BY DEF EndlessInv, BoostsHaveWaiters, MayHave
    <3> QED BY <1>4, <2>1, <3>1, PriorityAssumption
  <2>4. \E n \in Mutexes : owner'[n] = t /\ \E u \in waiters'[n] : effective_priority'[u] <= p
    <3>1. CASE t = owner[m]
      <4>1. x \in waiters'[m] /\ effective_priority'[x] <= p /\ owner'[m] = t
        BY <1>2, <1>4, <1>5, <3>1, MutexesAssumption DEF ownVars, p
      <4> QED BY <4>1
    <3>2. ASSUME NEW y \in reached, t = NextOwner(y)
          PROVE  \E n \in Mutexes : owner'[n] = t /\ \E u \in waiters'[n] : effective_priority'[u] <= p
      <4>1. PICK n \in Mutexes : y \in waiters[n] /\ owner[n] = t
        BY <1>1, <1>3, <3>2, NextOwnerOfWaiter, NoTaskAssumption, IdleIsNoUserTask
      <4>2. y \in waiters'[n] /\ owner'[n] = t
        BY <1>2, <1>4, <4>1, MutexesAssumption DEF ownVars
      <4>3. effective_priority'[y] <= p
        BY <1>3, <1>4, <1>5, <3>2
      <4> QED BY <4>2, <4>3
    <3> QED BY <1>3, <2>1, <3>1, <3>2
  <2>5. MayHave(t, effective_priority[t])'
    BY <1>4, <2>1, <2>3, <2>4, PriorityAssumption DEF MayHave
  <2> QED BY <2>2, <2>5 DEF PrioritiesOK
<1> QED BY <1>8, <1>9

\* A handoff computes both priorities from the waiters that remain, and takes none from a
\* list of another owner.
LEMMA HandOffKeepsPriorities ==
    ASSUME EndlessInv, MtxInv', NEW x \in UserTasks, NEW m \in Mutexes, NEW u \in UserTasks,
           UnlockHandOff(x, m, u), NEW t \in UserTasks
    PROVE  PrioritiesOK(t)'
<1>1. /\ OnCpu(x) /\ in_call[x] = NULL /\ owner[m] = x /\ u \in waiters[m]
      /\ owner' = [owner EXCEPT ![m] = u]
      /\ waiters' = [w \in Waitlists |-> waiters[w] \ {u}]
      /\ ahead' = [v \in UserTasks |-> IF v \in {u} THEN {} ELSE ahead[v] \ {u}]
      /\ blocked_waitlist' = [blocked_waitlist EXCEPT ![u] = NULL]
      /\ owned_mutex_count' = [owned_mutex_count EXCEPT ![x] = @ - 1, ![u] = @ + 1]
      /\ UNCHANGED <<in_call, recompute>>
  BY DEF UnlockHandOff, InApplication, waitlist_unblock, Remove, NextWaiter
<1>2. PICK p \in BestOf(Sources(x, Owned(x) \ {m}, waiters')),
           q \in BestOf(Sources(u, Owned(u) \cup {m}, waiters')) :
        effective_priority' = [effective_priority EXCEPT ![x] = p, ![u] = q]
  BY DEF UnlockHandOff
<1>3. /\ effective_priority \in [UserTasks -> Nat]
      /\ waiters \in [Waitlists -> SUBSET UserTasks] /\ ahead \in [UserTasks -> SUBSET UserTasks]
      /\ blocked_waitlist \in [UserTasks -> Waitlists \cup {NULL}]
      /\ owner \in [Mutexes -> UserTasks \cup {NoTask}]
      /\ owned_mutex_count \in [UserTasks -> Nat]
  BY DEF EndlessInv, MtxInv, CoreInv, CoreTypeOK, OwnershipInv, OwnTypeOK
<1>4. /\ u # x /\ blocked_waitlist[u] # NULL
      /\ \A n \in Mutexes : x \notin waiters[n] /\ (n # m => u \notin waiters[n])
  <2>1. \A n \in Mutexes : x \notin waiters[n]
    BY <1>1, RunningIsInNoList, MutexesAssumption DEF EndlessInv, MtxInv
  <2>2. blocked_waitlist[u] = m /\ \A n \in Mutexes : u \in waiters[n] => n = m
    BY <1>1, MutexesAssumption DEF EndlessInv, MtxInv, CoreInv, TCBMatchesWaitlists
  <2> QED BY <1>1, <2>1, <2>2, NoTaskAssumption
<1>5. recompute[t].at # "idle" =>
         t # x /\ t # u /\ in_call[t] # NULL /\ blocked_waitlist[t] = NULL
  BY <1>1, <1>4, OutsideRecompute
<1>6. \A n \in Mutexes : \A v \in waiters'[n] :
         /\ v \in UserTasks /\ v # u /\ v # x /\ v \in waiters[n]
         /\ effective_priority'[v] = effective_priority[v]
  BY <1>1, <1>2, <1>3, <1>4, MutexesAssumption
<1>7. CASE t # x /\ t # u
  <2>1. ASSUME NEW n \in Mutexes, owner[n] = t
        PROVE  /\ owner'[n] = t /\ waiters'[n] = waiters[n]
               /\ \A v \in waiters[n] : ahead'[v] = ahead[v]
    <3>1. n # m /\ u \notin waiters[n] /\ waiters'[n] = waiters[n]
      BY <1>1, <1>3, <1>4, <1>7, <2>1, MutexesAssumption
    <3>2. \A v \in waiters[n] : ahead[v] \subseteq waiters[n] /\ v \in UserTasks
      BY <1>3, MutexesAssumption DEF EndlessInv, ListsOrdered, ListOrdered
    <3>3. ASSUME NEW v \in waiters[n] PROVE ahead'[v] = ahead[v]
      <4>1. ahead'[v] = ahead[v] \ {u}
        BY <1>1, <3>1, <3>2, <3>3
      <4>2. u \notin ahead[v]
        BY <3>1, <3>2, <3>3
      <4> QED BY <4>1, <4>2
    <3> QED BY <1>1, <1>3, <2>1, <3>1, <3>3
  <2>2. ListsOnlyGrow(t)
    BY <1>3, <1>6, <2>1 DEF ListsOnlyGrow
  <2>3. effective_priority'[t] = effective_priority[t]
    BY <1>2, <1>3, <1>7
  <2>4. blocked_waitlist'[t] = blocked_waitlist[t] /\ owned_mutex_count'[t] = owned_mutex_count[t]
    BY <1>1, <1>3, <1>7
  <2> QED BY <1>1, <1>5, <2>2, <2>3, <2>4, TaskUndisturbed
<1>8. ASSUME NEW mutexes \in SUBSET Mutexes, NEW best \in BestOf(Sources(t, mutexes, waiters')),
             \A n \in mutexes : owner'[n] = t,
             effective_priority'[t] = best, t = x \/ t = u
      PROVE  PrioritiesOK(t)'
  <2>1. OwnRecompute(t, recompute[t])'
    BY <1>1, <1>5, <1>8, IdleTask
  <2>2. best \in Sources(t, mutexes, waiters') /\ best <= base_priority[t]
    BY <1>8 DEF BestOf, Sources
  <2>3. best < base_priority[t] =>
           \E n \in mutexes : \E v \in waiters'[n] : best = effective_priority[v]
    BY <2>2, PriorityAssumption DEF Sources
  <2>4. best \in Nat
    BY <1>3, <1>6, <2>2, PriorityAssumption DEF Sources
  <2>5. best < base_priority[t] =>
           \E n \in Mutexes : owner'[n] = t /\ \E v \in waiters'[n] : effective_priority'[v] <= best
    <3> SUFFICES ASSUME best < base_priority[t]
                 PROVE \E n \in Mutexes : owner'[n] = t /\ \E v \in waiters'[n] : effective_priority'[v] <= best
      OBVIOUS
    <3>1. PICK n \in mutexes : \E v \in waiters'[n] : best = effective_priority[v]
      BY <2>3
    <3>2. PICK v \in waiters'[n] : best = effective_priority[v]
      BY <3>1
    <3>3. effective_priority'[v] <= best
      BY <1>6, <2>4, <3>2
    <3> QED BY <1>8, <3>3
  <2>6. MayHave(t, effective_priority[t])'
    BY <1>8, <2>2, <2>5 DEF MayHave
  <2> QED BY <2>1, <2>6 DEF PrioritiesOK
<1>9. \A v \in UserTasks : Owned(v) \in SUBSET Mutexes /\ \A n \in Mutexes : owner[n] = v <=> n \in Owned(v)
  BY DEF EndlessInv, MtxInv, OwnershipInv, OwnershipConsistent, EntriesAreMutexes
<1>10. CASE t = x
  <2>1. effective_priority'[t] = p
    BY <1>2, <1>3, <1>4, <1>10
  <2>2. Owned(x) \ {m} \in SUBSET Mutexes /\ \A n \in Owned(x) \ {m} : owner'[n] = x
    BY <1>1, <1>3, <1>9
  <2> QED BY <1>2, <1>8, <1>10, <2>1, <2>2
<1>11. CASE t = u
  <2>1. effective_priority'[t] = q
    BY <1>2, <1>3, <1>4, <1>11
  <2>2. Owned(u) \cup {m} \in SUBSET Mutexes /\ \A n \in Owned(u) \cup {m} : owner'[n] = u
    BY <1>1, <1>3, <1>9
  <2> QED BY <1>2, <1>8, <1>11, <2>1, <2>2
<1> QED BY <1>7, <1>10, <1>11

-----------------------------------------------------------------------------
(* The recompute itself, by the task that makes it.                         *)

\* A step that only moves in a recompute has to keep what is said of its locals.
LEMMA StepKeepsPriorities ==
    ASSUME EndlessInv, NEW x \in UserTasks, NEW r \in Recomputes, Step(x, r),
           OwnRecompute(x, r), NEW t \in UserTasks
    PROVE  PrioritiesOK(t)'
<1>1. PICK s : s = IF t = x THEN r ELSE recompute[t]
  OBVIOUS
<1>2. OwnRecompute(t, s) /\ MayHave(t, effective_priority[t])
  BY <1>1 DEF EndlessInv, OwnRecomputes, BoostsHaveWaiters
<1>3. recompute'[t] = s
  BY <1>1 DEF Step, EndlessInv, MtxInv, RecomputeOK
<1>4. UNCHANGED <<owner, owned_mutex_count, waiters, ahead, effective_priority, in_call, blocked_waitlist>>
  BY DEF Step, coreVars, ownVars
<1>5. MayHave(t, effective_priority[t])'
  BY <1>2, <1>4 DEF MayHave
<1>6. MayHave(t, s.best) => MayHave(t, s.best)'
  BY <1>4 DEF MayHave
<1>7. OwnRecompute(t, s)'
  BY <1>2, <1>4, <1>6 DEF OwnRecompute
<1>8. OwnRecompute(t, recompute[t])'
  BY <1>3, <1>7
<1> QED BY <1>5, <1>8 DEF PrioritiesOK

\* The locals of a recompute, for the steps below.
LEMMA RecomputeFields ==
    ASSUME EndlessInv, NEW t \in UserTasks, NEW r, r = recompute[t]
    PROVE  /\ r \in Recomputes /\ OwnRecompute(t, r)
           /\ r = [at |-> r.at, target |-> r.target, list |-> r.list, i |-> r.i, j |-> r.j,
                   best |-> r.best, iterations |-> r.iterations]
           /\ r.at \in {"idle", "scan", "mutex", "compare", "take", "store", "advance", "follow",
                        "done"}
           /\ r.target \in UserTasks \cup {NoTask} /\ r.list \in Mutexes \cup {NULL}
           /\ r.i \in Nat /\ r.j \in Nat /\ r.best \in Nat /\ r.iterations \in Nat
           /\ r.i + 1 \in Nat /\ r.j + 1 \in Nat /\ r.iterations + 1 \in Nat
           /\ r.at \in {"compare", "take"} => r.list \in Mutexes
BY DEF EndlessInv, MtxInv, RecomputeOK, OwnRecomputes, Recomputes

\* Woken by a handoff the task finds itself the owner, so it begins with itself.
LEMMA BeginOK ==
    ASSUME EndlessInv, NEW t \in UserTasks, NEW m \in Mutexes, RecomputeBegin(t, m)
    PROVE  \E r \in Recomputes : Step(t, r) /\ OwnRecompute(t, r)
<1>1. /\ OnCpu(t) /\ in_call[t] = m /\ m # NULL /\ ~timeout[t] /\ blocked_waitlist[t] = NULL
      /\ Step(t, StartScan(owner[m], 0))
  BY RunningIsInNoList, NoTaskAssumption
  DEF RecomputeBegin, EndlessInv, MtxInv, EndlessWaits
<1>2. owner[m] = t
  BY <1>1 DEF EndlessInv, MtxInv, ResultTellsOwnership
<1>3. t # NoTask /\ base_priority[t] \in Nat /\ 0 \in Nat
  BY NoTaskAssumption, IdleIsNoUserTask, PriorityAssumption
<1>4. PICK r : r = StartScan(t, 0)
  OBVIOUS
<1>5. \/ r = [at |-> "done", target |-> NoTask, list |-> NULL, i |-> 0, j |-> 0,
              best |-> 0, iterations |-> 0]
      \/ r = [at |-> "scan", target |-> t, list |-> NULL, i |-> 0, j |-> 0,
              best |-> base_priority[t], iterations |-> 0]
  BY <1>4 DEF StartScan, Idle
<1>6. r \in Recomputes
  BY <1>3, <1>5 DEF Recomputes
<1>7. MayHave(t, base_priority[t])
  BY <1>3 DEF MayHave
<1>8. OwnRecompute(t, r)
  BY <1>1, <1>5, <1>7 DEF OwnRecompute, Scanning
<1> QED BY <1>1, <1>2, <1>4, <1>6, <1>8

\* The loop conditions.
LEMMA ScanOK ==
    ASSUME EndlessInv, NEW t \in UserTasks, RecomputeScan(t)
    PROVE  \E r \in Recomputes : Step(t, r) /\ OwnRecompute(t, r)
<1>1. PICK r : r = recompute[t]
  OBVIOUS
<1>2. r \in Recomputes /\ r.at = "scan" /\ r.target = t /\ OwnRecompute(t, r)
  BY <1>1, RecomputeFields DEF RecomputeScan, OwnRecompute, Scanning
<1>3. PICK at \in {"compare", "mutex", "store"} :
        /\ Step(t, [r EXCEPT !.at = at])
        /\ at = "compare" => r.j < Cardinality(waiters[r.list])
        /\ at = "mutex" => r.i < owned_mutex_count[t]
  BY <1>1, <1>2 DEF RecomputeScan
<1>4. PICK s : s = [r EXCEPT !.at = at]
  OBVIOUS
<1>5. /\ s \in Recomputes /\ s.at = at /\ s.target = t /\ s.list = r.list /\ s.best = r.best
      /\ s.i = r.i /\ s.j = r.j
  BY <1>2, <1>4 DEF Recomputes
<1>6. OwnRecompute(t, s)
  BY <1>2, <1>3, <1>5 DEF OwnRecompute, Scanning
<1> QED BY <1>3, <1>4, <1>5, <1>6

\* The next mutex is one of the task's own.
LEMMA MutexOK ==
    ASSUME WithinLimit, EndlessInv, NEW t \in UserTasks, RecomputeMutex(t)
    PROVE  \E r \in Recomputes : Step(t, r) /\ OwnRecompute(t, r)
<1>1. PICK r : r = recompute[t]
  OBVIOUS
<1>2. r \in Recomputes /\ r.at = "mutex" /\ r.target = t /\ OwnRecompute(t, r) /\ r.i + 1 \in Nat
  BY <1>1, RecomputeFields DEF RecomputeMutex, OwnRecompute, Scanning
<1>3. PICK list : list = owned_mutexes[t][r.i]
  OBVIOUS
<1>4. list \in Mutexes /\ owner[list] = t
  <2>1. r.i < OS_MAX_MTX_PER_TASK /\ r.i < owned_mutex_count[t] /\ r.i \in Nat
    BY <1>1, <1>2, RecomputeFields DEF OwnRecompute, EndlessInv, MtxInv, RecomputeOK
  <2>2. r.i \in UsedIndexes(t)
    BY <2>1, LimitAssumption DEF UsedIndexes, OwnedIndexes
  <2>3. list \in Owned(t)
    BY <1>3, <2>2 DEF Owned
  <2> QED BY <2>3 DEF EndlessInv, MtxInv, OwnershipInv, OwnershipConsistent, EntriesAreMutexes
<1>5. PICK s : s = [r EXCEPT !.at = "scan", !.list = list, !.i = r.i + 1, !.j = 0]
  OBVIOUS
<1>6. /\ s \in Recomputes /\ s.at = "scan" /\ s.target = t /\ s.list = list /\ s.best = r.best
  BY <1>2, <1>4, <1>5 DEF Recomputes
<1>7. OwnRecompute(t, s)
  BY <1>2, <1>4, <1>6 DEF OwnRecompute, Scanning
<1>8. Step(t, s)
  BY <1>1, <1>2, <1>3, <1>5 DEF RecomputeMutex
<1> QED BY <1>6, <1>7, <1>8

\* Entry j is there, and what a load finds is the priority of the one waiter it is.
LEMMA EntryIsThere ==
    ASSUME EndlessInv, NEW m \in Mutexes, NEW r, r.list = m, r.j \in Nat,
           r.j < Cardinality(waiters[m])
    PROVE  \E u \in waiters[m] : /\ u \in UserTasks /\ Cardinality(ahead[u]) = r.j
                                 /\ EntryPriority(r) = {effective_priority[u]}
                                 /\ \A v \in waiters[m] : Cardinality(ahead[v]) = r.j => v = u
<1>1. /\ \A u, v \in waiters[m] : Cardinality(ahead[u]) = Cardinality(ahead[v]) => u = v
      /\ waiters[m] \subseteq UserTasks
  BY MutexesAssumption, IndexesAreFilled DEF EndlessInv, MtxInv, CoreInv, CoreTypeOK
<1>2. PICK u \in waiters[m] : Cardinality(ahead[u]) = r.j
  BY MutexesAssumption, IndexesAreFilled DEF EndlessInv, MtxInv
<1>3. {v \in waiters[m] : Cardinality(ahead[v]) = r.j} = {u}
  BY <1>1, <1>2
<1>4. EntryPriority(r) = {effective_priority[u]}
  BY <1>3 DEF EntryPriority
<1> QED BY <1>1, <1>2, <1>4

\* The first load, in the comparison.
LEMMA CompareOK ==
    ASSUME EndlessInv, NEW t \in UserTasks, RecomputeCompare(t)
    PROVE  \E r \in Recomputes : Step(t, r) /\ OwnRecompute(t, r)
<1>1. PICK r : r = recompute[t]
  OBVIOUS
<1>2. /\ r \in Recomputes /\ r.at = "compare" /\ r.target = t /\ OwnRecompute(t, r)
      /\ r.list \in Mutexes /\ r.j \in Nat /\ r.j + 1 \in Nat
  BY <1>1, RecomputeFields DEF RecomputeCompare, OwnRecompute, Scanning
<1>3. PICK u \in waiters[r.list] :
        /\ EntryPriority(r) = {effective_priority[u]}
        /\ \A v \in waiters[r.list] : Cardinality(ahead[v]) = r.j => v = u
  BY <1>2, EntryIsThere DEF OwnRecompute
<1>4. PICK s : /\ s = IF effective_priority[u] < r.best THEN [r EXCEPT !.at = "take"]
                      ELSE [r EXCEPT !.at = "scan", !.j = r.j + 1]
               /\ Step(t, s)
  BY <1>1, <1>3 DEF RecomputeCompare
<1>5. /\ s \in Recomputes /\ s.target = t /\ s.list = r.list /\ s.best = r.best
      /\ \/ s.at = "scan"
         \/ s.at = "take" /\ s.j = r.j /\ effective_priority[u] < r.best
  <2>1. CASE effective_priority[u] < r.best
    <3>1. s = [r EXCEPT !.at = "take"]
      BY <1>4, <2>1
    <3> QED BY <1>2, <2>1, <3>1 DEF Recomputes
  <2>2. CASE ~(effective_priority[u] < r.best)
    <3>1. s = [r EXCEPT !.at = "scan", !.j = r.j + 1]
      BY <1>4, <2>2
    <3> QED BY <1>2, <3>1 DEF Recomputes
  <2> QED BY <2>1, <2>2
<1>6. OwnRecompute(t, s)
  BY <1>2, <1>3, <1>5 DEF OwnRecompute, Scanning
<1> QED BY <1>4, <1>5, <1>6

\* The second one, in the assignment: the same waiter, with a priority at least as good.
LEMMA TakeOK ==
    ASSUME EndlessInv, NEW t \in UserTasks, RecomputeTake(t)
    PROVE  \E r \in Recomputes : Step(t, r) /\ OwnRecompute(t, r)
<1>1. PICK r : r = recompute[t]
  OBVIOUS
<1>2. /\ r \in Recomputes /\ r.at = "take" /\ r.target = t /\ OwnRecompute(t, r)
      /\ r.list \in Mutexes /\ owner[r.list] = t /\ r.j \in Nat /\ r.j + 1 \in Nat /\ r.best \in Nat
  BY <1>1, RecomputeFields, NoTaskAssumption DEF RecomputeTake, OwnRecompute, Scanning
<1>3. PICK u \in waiters[r.list] :
        /\ u \in UserTasks /\ Cardinality(ahead[u]) = r.j
        /\ EntryPriority(r) = {effective_priority[u]}
  BY <1>2, EntryIsThere DEF OwnRecompute
<1>4. PICK p \in Nat : p = effective_priority[u]
  BY <1>3 DEF EndlessInv, MtxInv, CoreInv, CoreTypeOK
<1>5. p < r.best /\ r.best <= base_priority[t]
  BY <1>2, <1>3, <1>4 DEF OwnRecompute, MayHave
<1>6. MayHave(t, p)
  <2>1. p <= base_priority[t]
    BY <1>2, <1>5, PriorityAssumption
  <2> QED BY <1>2, <1>3, <1>4, <2>1 DEF MayHave
<1>7. PICK s : /\ s = [r EXCEPT !.at = "scan", !.j = r.j + 1, !.best = p]
               /\ Step(t, s)
  BY <1>1, <1>3, <1>4 DEF RecomputeTake
<1>8. s \in Recomputes /\ s.target = t /\ s.list = r.list /\ s.best = p /\ s.at = "scan"
  BY <1>2, <1>7 DEF Recomputes
<1>9. OwnRecompute(t, s)
  BY <1>2, <1>6, <1>8 DEF OwnRecompute, Scanning
<1> QED BY <1>7, <1>8, <1>9

\* The store: the task runs, so it is in no list, and its new priority has a reason.
LEMMA StoreKeepsPriorities ==
    ASSUME EndlessInv, MtxInv', NEW x \in UserTasks, RecomputeStore(x), NEW t \in UserTasks
    PROVE  PrioritiesOK(t)'
<1>1. PICK r : r = recompute[x]
  OBVIOUS
<1>2. /\ r \in Recomputes /\ r.at = "store" /\ r.target = x /\ OwnRecompute(x, r)
      /\ r.best \in Nat /\ OnCpu(x)
  BY <1>1, RecomputeFields DEF RecomputeStore, OwnRecompute, Scanning
<1>3. PICK s : s = [Idle EXCEPT !.at = "advance", !.target = x, !.iterations = r.iterations]
  OBVIOUS
<1>4. s.at = "advance" /\ s.target = x
  BY <1>3 DEF Idle
<1>5. /\ effective_priority' = [effective_priority EXCEPT ![x] = r.best]
      /\ recompute' = [recompute EXCEPT ![x] = s]
      /\ UNCHANGED <<in_call, blocked_waitlist, waiters, ahead, owner, owned_mutex_count>>
  BY <1>1, <1>2, <1>3 DEF RecomputeStore, listVars, ownVars
<1>6. \A m \in Mutexes : waiters[m] \subseteq UserTasks /\ x \notin waiters[m]
  BY <1>2, RunningIsInNoList, MutexesAssumption DEF EndlessInv, MtxInv, CoreInv, CoreTypeOK
<1>7. effective_priority \in [UserTasks -> Nat] /\ recompute \in [UserTasks -> Recomputes]
  BY DEF EndlessInv, MtxInv, CoreInv, CoreTypeOK, RecomputeOK
<1>8. ListsOnlyGrow(t)
  <2>1. \A m \in Mutexes : \A u \in waiters[m] : effective_priority'[u] <= effective_priority[u]
    BY <1>5, <1>6, <1>7
  <2> QED BY <1>5, <2>1 DEF ListsOnlyGrow
<1>9. CASE t # x
  <2>1. OwnRecompute(t, recompute[t])
    BY DEF EndlessInv, OwnRecomputes
  <2> QED BY <1>5, <1>7, <1>8, <1>9, <2>1, TaskUndisturbed DEF OwnRecompute
<1>10. CASE t = x
  <2>1. MayHave(x, r.best)
    BY <1>2 DEF OwnRecompute
  <2>2. MayHave(x, r.best)'
    <3>1. effective_priority' \in [UserTasks -> Nat]
      BY DEF MtxInv, CoreInv, CoreTypeOK
    <3>2. PICK p \in Nat : p = r.best
      BY <1>2
    <3>3. MayHave(x, p)'
      BY <1>8, <1>10, <2>1, <3>1, <3>2, MayHaveStill
    <3> QED BY <3>2, <3>3
  <2>3. effective_priority'[x] = r.best /\ recompute'[x] = s
    BY <1>5, <1>7
  <2>4. MayHave(x, effective_priority[x])'
    BY <2>2, <2>3 DEF MayHave
  <2>5. in_call'[x] # NULL /\ blocked_waitlist'[x] = NULL
    BY <1>2, <1>5 DEF OwnRecompute
  <2>6. OwnRecompute(x, recompute[x])'
    BY <1>4, <2>3, <2>5 DEF OwnRecompute, Scanning
  <2> QED BY <1>10, <2>4, <2>6 DEF PrioritiesOK
<1> QED BY <1>9, <1>10

\* A running task is blocked on nothing, so its recompute ends with itself.
LEMMA AdvanceOK ==
    ASSUME EndlessInv, NEW t \in UserTasks, RecomputeAdvance(t)
    PROVE  \E r \in Recomputes : Step(t, r) /\ OwnRecompute(t, r)
<1>1. /\ recompute[t].at = "advance" /\ recompute[t].target = t /\ blocked_waitlist[t] = NULL
      /\ OwnRecompute(t, recompute[t])
  BY RecomputeFields DEF RecomputeAdvance, OwnRecompute, Scanning
<1>2. PICK s : s = [Idle EXCEPT !.at = "done"]
  OBVIOUS
<1>3. Step(t, s)
  BY <1>1, <1>2 DEF RecomputeAdvance
<1>4. s = [at |-> "done", target |-> NoTask, list |-> NULL, i |-> 0, j |-> 0,
           best |-> 0, iterations |-> 0]
  BY <1>2 DEF Idle
<1>5. s \in Recomputes
  BY <1>4 DEF Recomputes
<1>6. OwnRecompute(t, s)
  BY <1>1, <1>4 DEF OwnRecompute, Scanning
<1> QED BY <1>3, <1>5, <1>6

\* Every step of a recompute.
LEMMA RecomputeKeepsPriorities ==
    ASSUME WithinLimit, EndlessInv, MtxInv', NEW x \in UserTasks, RecomputeStep(x),
           NEW t \in UserTasks
    PROVE  PrioritiesOK(t)'
<1>1. ASSUME \E r \in Recomputes : Step(x, r) /\ OwnRecompute(x, r) PROVE PrioritiesOK(t)'
  BY <1>1, StepKeepsPriorities
<1>2. ASSUME NEW m \in Mutexes, RecomputeBegin(x, m) PROVE PrioritiesOK(t)'
  BY <1>1, <1>2, BeginOK
<1>3. RecomputeScan(x) => PrioritiesOK(t)'
  BY <1>1, ScanOK
<1>4. RecomputeMutex(x) => PrioritiesOK(t)'
  BY <1>1, MutexOK
<1>5. RecomputeCompare(x) => PrioritiesOK(t)'
  BY <1>1, CompareOK
<1>6. RecomputeTake(x) => PrioritiesOK(t)'
  BY <1>1, TakeOK
<1>7. RecomputeStore(x) => PrioritiesOK(t)'
  BY StoreKeepsPriorities
<1>8. RecomputeAdvance(x) => PrioritiesOK(t)'
  BY <1>1, AdvanceOK
<1>9. ~RecomputeFollow(x)
  BY DEF RecomputeFollow, EndlessInv, OwnRecomputes, OwnRecompute
<1>10. CASE LockReturn(x)
  <2>1. /\ recompute' = [recompute EXCEPT ![x] = Idle] /\ in_call' = [in_call EXCEPT ![x] = NULL]
        /\ UNCHANGED <<waiters, ahead, blocked_waitlist, effective_priority, owner, owned_mutex_count>>
    BY <1>10 DEF LockReturn, listVars, ownVars
  <2>2. /\ recompute \in [UserTasks -> Recomputes] /\ in_call \in [UserTasks -> Waitlists \cup {NULL}]
        /\ \A m \in Mutexes : waiters[m] \subseteq UserTasks
        /\ effective_priority \in [UserTasks -> Nat]
    BY MutexesAssumption DEF EndlessInv, MtxInv, RecomputeOK, CoreInv, CoreTypeOK
  <2>3. ListsOnlyGrow(t)
    BY <2>1, <2>2 DEF ListsOnlyGrow
  <2>4. CASE t # x
    <3>1. OwnRecompute(t, recompute[t])
      BY DEF EndlessInv, OwnRecomputes
    <3> QED BY <2>1, <2>2, <2>3, <2>4, <3>1, TaskUndisturbed DEF OwnRecompute
  <2>5. CASE t = x
    <3>1. OwnRecompute(t, recompute[t])'
      BY <2>1, <2>2, <2>5, IdleTask DEF Idle
    <3>2. MayHave(t, effective_priority[t])
      BY DEF EndlessInv, BoostsHaveWaiters
    <3>3. MayHave(t, effective_priority[t])'
      BY <2>1, <3>2 DEF MayHave
    <3> QED BY <3>1, <3>3 DEF PrioritiesOK
  <2> QED BY <2>4, <2>5
<1> HIDE DEF PrioritiesOK
<1> QED BY <1>2, <1>3, <1>4, <1>5, <1>6, <1>7, <1>8, <1>9, <1>10 DEF RecomputeStep

\* The initial state: nobody waits and nobody is boosted.
LEMMA EndlessInitInv == ASSUME WithinLimit PROVE MtxInit => EndlessInv
<1> SUFFICES ASSUME MtxInit PROVE EndlessInv
  OBVIOUS
<1>1. PriorityInv
  BY PriorityInitInv
<1>2. EndlessWaits /\ ListsOrdered
  BY DEF MtxInit, CoreInit, EndlessWaits, ListsOrdered, ListOrdered
<1>3. BoostsHaveWaiters /\ OwnRecomputes
  BY PriorityAssumption
  DEF MtxInit, CoreInit, Idle, BoostsHaveWaiters, MayHave, OwnRecomputes, OwnRecompute, Scanning
<1> QED BY <1>1, <1>2, <1>3 DEF EndlessInv, PriorityInv

\* Every step keeps the reasons of all priorities, and the recomputes that are under way.
LEMMA EndlessInvStep ==
    ASSUME WithinLimit, NoDeadlines PROVE EndlessInv /\ [MtxNext]_mtxVars => EndlessInv'
<1> SUFFICES ASSUME EndlessInv, [MtxNext]_mtxVars PROVE EndlessInv'
  OBVIOUS
<1>1. PriorityInv' /\ MtxInv'
  BY PriorityInvStep DEF EndlessInv, PriorityInv
<1>2. EndlessWaits' /\ ListsOrdered'
  BY EndlessWaitsStep
<1>3. ASSUME NEW t \in UserTasks PROVE PrioritiesOK(t)'
  <2> HIDE DEF PrioritiesOK
  <2>1. MtxTick => PrioritiesOK(t)'
    BY <1>1, TickLeavesLists, KernelKeepsPriorities
  <2>2. MtxSwitch => PrioritiesOK(t)'
    BY <1>1, KernelKeepsPriorities DEF MtxSwitch, PendSV_Handler, listVars
  <2>3. ASSUME NEW x \in UserTasks, NEW ticks \in Ticks, MtxDelay(x, ticks) PROVE PrioritiesOK(t)'
    BY <1>1, <2>3, KernelKeepsPriorities DEF MtxDelay, os_task_delay, listVars
  <2>4. UNCHANGED mtxVars => PrioritiesOK(t)'
    BY <1>1, KernelKeepsPriorities DEF mtxVars, coreVars
  <2>5. ASSUME NEW x \in UserTasks, NEW m \in Mutexes, LockFree(x, m) PROVE PrioritiesOK(t)'
    BY <1>1, <2>5, FreeLockKeepsPriorities
  <2>6. ASSUME NEW x \in UserTasks, NEW m \in Mutexes, UnlockFree(x, m) PROVE PrioritiesOK(t)'
    BY <1>1, <2>6, FreeUnlockKeepsPriorities
  <2>7. ASSUME NEW x \in UserTasks, NEW m \in Mutexes, NEW u \in UserTasks,
               UnlockHandOff(x, m, u)
        PROVE  PrioritiesOK(t)'
    BY <1>1, <2>7, HandOffKeepsPriorities
  <2>8. ASSUME NEW x \in UserTasks, NEW m \in Mutexes, LockBlock(x, m, OS_WAIT_FOREVER)
        PROVE  PrioritiesOK(t)'
    <3>1. OS_WAIT_FOREVER \in Ticks
      BY TickAssumption DEF Ticks, OS_WAIT_FOREVER
    <3> QED BY <1>1, <2>8, <3>1, DonationKeepsPriorities
  <2>9. ASSUME NEW x \in UserTasks, RecomputeStep(x) PROVE PrioritiesOK(t)'
    BY <1>1, <2>9, RecomputeKeepsPriorities
  <2> QED BY <2>1, <2>2, <2>3, <2>4, <2>5, <2>6, <2>7, <2>8, <2>9, EndlessSteps
<1>4. BoostsHaveWaiters' /\ OwnRecomputes'
  BY <1>3 DEF PrioritiesOK, BoostsHaveWaiters, OwnRecomputes
<1> QED BY <1>1, <1>2, <1>4 DEF EndlessInv, PriorityInv

\* Inheritance never costs a task its own priority (mutex_donate_priority, os_mutex_unlock,
\* mutex_recompute_owner_priority), however the steps of the recomputes of several tasks, the
\* locks and unlocks of others and the ticks fall between each other, while no lock has a
\* deadline.
THEOREM MtxNeverBelowBase == WithinLimit /\ NoDeadlines => (MtxSpec => []NeverBelowBase)
<1> SUFFICES ASSUME WithinLimit, NoDeadlines PROVE MtxSpec => []NeverBelowBase
  OBVIOUS
<1>1. EndlessInv => NeverBelowBase
  BY DEF EndlessInv, BoostsHaveWaiters, MayHave, NeverBelowBase
<1> QED BY <1>1, EndlessInitInv, EndlessInvStep, PTL DEF MtxSpec

\* No boost outlives the mutexes it was for: a task that owns none runs at its base priority,
\* while no lock has a deadline.  os_mutex_unlock without waiters computes no priority, and
\* does not have to.
THEOREM MtxBoostEnds == WithinLimit /\ NoDeadlines => (MtxSpec => []BoostEnds)
<1> SUFFICES ASSUME WithinLimit, NoDeadlines PROVE MtxSpec => []BoostEnds
  OBVIOUS
<1>1. EndlessInv => BoostEnds
  <2> SUFFICES ASSUME EndlessInv, NEW t \in UserTasks, owned_mutex_count[t] = 0
               PROVE  effective_priority[t] = base_priority[t]
    BY DEF BoostEnds
  <2>1. UsedIndexes(t) = {}
    BY DEF UsedIndexes, OwnedIndexes
  <2>2. \A m \in Mutexes : owner[m] # t
    BY <2>1 DEF Owned, EndlessInv, MtxInv, OwnershipInv, OwnershipConsistent
  <2>3. effective_priority[t] \in Nat /\ base_priority[t] \in Nat
    BY PriorityAssumption DEF EndlessInv, MtxInv, CoreInv, CoreTypeOK
  <2>4. MayHave(t, effective_priority[t])
    BY DEF EndlessInv, BoostsHaveWaiters
  <2> QED BY <2>2, <2>3, <2>4 DEF MayHave
<1> QED BY <1>1, EndlessInitInv, EndlessInvStep, PTL DEF MtxSpec

=============================================================================
