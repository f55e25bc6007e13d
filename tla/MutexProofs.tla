----------------------------- MODULE MutexProofs -----------------------------
(***************************************************************************)
(* Who owns a mutex: the safety properties of ownership, for any number of *)
(* tasks and mutexes, any priorities and any timeouts, deadlines included. *)
(* They hold as long as no task asks for more mutexes than owned_mutexes[] *)
(* has room for, which os_mutex_lock leaves to its callers.                *)
(***************************************************************************)
EXTENDS Mutex, KernelCoreProofs

\* The hypothesis of every theorem of this module.
WithinLimit == LockLimit <= OS_MAX_MTX_PER_TASK

OwnTypeOK ==
    /\ owner \in [Mutexes -> UserTasks \cup {NoTask}]
    /\ mutex_state \in [Mutexes -> {"unlocked", "locked"}]
    /\ owned_mutexes \in [UserTasks -> [OwnedIndexes -> Mutexes \cup {NULL}]]
    /\ owned_mutex_count \in [UserTasks -> Nat]

\* A task blocks with room for one mutex more: the one it will be handed.
RoomForOneMore ==
    \A t \in UserTasks :
        /\ owned_mutex_count[t] <= LockLimit
        /\ blocked_waitlist[t] # NULL => owned_mutex_count[t] < LockLimit

\* Blocking calls are calls of os_mutex_lock, and a delayed task is in none of them.
CallsAreLocks ==
    \A t \in UserTasks :
        /\ in_call[t] \in Mutexes \cup {NULL}
        /\ current_state[t] = "BLOCKED" /\ blocked_waitlist[t] = NULL => in_call[t] = NULL

\* The locals of a recompute are initialized where they are used.
Scanning == {"scan", "mutex", "compare", "take", "store", "advance"}

RecomputeOK ==
    /\ recompute \in [UserTasks -> Recomputes]
    /\ \A t \in UserTasks :
          LET r == recompute[t]
          IN  /\ r.at \in Scanning => r.target \in UserTasks
              /\ r.at \in {"compare", "take", "follow"} => r.list \in Mutexes
              /\ r.at = "mutex" => r.i < OS_MAX_MTX_PER_TASK

\* A used entry of owned_mutexes[] is not NULL.
EntriesAreMutexes == \A t \in UserTasks : Owned(t) \subseteq Mutexes

OwnershipInv ==
    OwnTypeOK /\ OwnershipConsistent /\ RoomForOneMore /\ EntriesAreMutexes

\* The inductive invariant.
MtxInv ==
    /\ CoreInv
    /\ OwnershipInv
    /\ WaitersHaveOwner
    /\ ResultTellsOwnership
    /\ CallsAreLocks
    /\ RecomputeOK

\* What the steps of a recompute have in common: all but the store leave the kernel
\* and the mutexes alone, and the store changes one priority.
QuietStep(t) ==
    /\ UNCHANGED ownVars
    /\ UNCHANGED <<schedVars, wakeup_tick, block_reason, timeout, systick_count,
                   in_call, listVars>>
    /\ effective_priority' \in [UserTasks -> Nat]
    /\ RecomputeOK'

\* The initial state, after os_mutex_create for each mutex.
LEMMA MtxInitInv == ASSUME WithinLimit PROVE MtxInit => MtxInv
<1> SUFFICES ASSUME MtxInit PROVE MtxInv
  OBVIOUS
<1>1. CoreInv
  BY InitCore DEF MtxInit
<1>2. OwnershipInv
  <2>1. OwnTypeOK
    BY DEF MtxInit, OwnTypeOK
  <2>2. \A t \in UserTasks : UsedIndexes(t) = {} /\ NoTask # t
    BY NoTaskAssumption, IdleIsNoUserTask DEF MtxInit, UsedIndexes, OwnedIndexes
  <2>3. OwnershipConsistent
    BY <2>2 DEF MtxInit, OwnershipConsistent, Owned
  <2>4. RoomForOneMore
    BY LimitAssumption DEF MtxInit, CoreInit, RoomForOneMore
  <2>5. EntriesAreMutexes
    BY <2>2 DEF EntriesAreMutexes, Owned
  <2> QED BY <2>1, <2>3, <2>4, <2>5 DEF OwnershipInv
<1>3. WaitersHaveOwner /\ ResultTellsOwnership /\ CallsAreLocks
  BY MutexesAssumption
  DEF MtxInit, CoreInit, WaitersHaveOwner, ResultTellsOwnership, CallsAreLocks
<1>4. RecomputeOK
  BY DEF MtxInit, RecomputeOK, Recomputes, Idle, Scanning
<1> QED BY <1>1, <1>2, <1>3, <1>4 DEF MtxInv

\* What can go on at a mutex, one disjunct per handler of the code.
LEMMA MtxSteps ==
    ASSUME MtxNext
    PROVE  \/ MtxTick \/ MtxSwitch
           \/ \E t \in UserTasks, m \in Mutexes :
                 \/ LockFree(t, m) \/ UnlockFree(t, m)
                 \/ \E u \in UserTasks : UnlockHandOff(t, m, u)
                 \/ \E ticks \in Ticks : LockBlock(t, m, ticks)
           \/ \E t \in UserTasks : RecomputeStep(t)
           \/ \E t \in UserTasks, ticks \in Ticks : MtxDelay(t, ticks)
BY UsesAssumption, MutexTimeoutsAssumption, DelaysAssumption DEF MtxNext, MtxTaskStep

-----------------------------------------------------------------------------
(* The array owned_mutexes[].                                               *)

\* What the loop of os_mutex_unlock does: the used entries are those it had but m,
\* each once.
LEMMA RemoveEntry ==
    ASSUME WithinLimit, OwnershipInv, NEW t \in UserTasks, NEW m \in Mutexes, owner[m] = t
    PROVE  LET c     == owned_mutex_count[t]
               array == WithoutOwned(t, m)
               used  == {i \in OwnedIndexes : i < c - 1}
           IN  /\ c > 0
               /\ array \in [OwnedIndexes -> Mutexes \cup {NULL}]
               /\ \A n \in Mutexes : n \in {array[i] : i \in used} <=> n # m /\ owner[n] = t
               /\ \A i \in used : array[i] \in Mutexes
               /\ \A i, j \in used : array[i] = array[j] => i = j
<1> DEFINE c     == owned_mutex_count[t]
           old   == owned_mutexes[t]
           array == WithoutOwned(t, m)
           used  == {i \in OwnedIndexes : i < c - 1}
<1>1. c \in Nat /\ c <= OS_MAX_MTX_PER_TASK /\ OS_MAX_MTX_PER_TASK \in Nat
  BY LimitAssumption DEF WithinLimit, OwnershipInv, OwnTypeOK, RoomForOneMore
<1>2. PICK k \in OwnedIndexes : k < c /\ old[k] = m
  BY DEF OwnershipInv, OwnershipConsistent, Owned, UsedIndexes
<1>3. c > 0 /\ c - 1 \in OwnedIndexes
  BY <1>1, <1>2 DEF OwnedIndexes
<1>4. array \in [OwnedIndexes -> Mutexes \cup {NULL}]
  BY <1>3 DEF WithoutOwned, OwnershipInv, OwnTypeOK
<1>5. \A i \in OwnedIndexes : i < c /\ i # k => old[i] # m
  BY <1>2 DEF OwnershipInv, OwnershipConsistent, UsedIndexes
<1>6. /\ \A i \in used : i # k => array[i] = old[i]
      /\ k \in used => array[k] = old[c - 1]
  BY <1>1, <1>2, <1>3, <1>5 DEF WithoutOwned, OwnedIndexes
<1>7. \A n \in Mutexes : owner[n] = t <=> \E i \in OwnedIndexes : i < c /\ old[i] = n
  BY DEF OwnershipInv, OwnershipConsistent, Owned, UsedIndexes
<1>8. \A i \in OwnedIndexes : i < c => old[i] \in Mutexes
  BY DEF OwnershipInv, EntriesAreMutexes, Owned, UsedIndexes
<1>9. ASSUME NEW i \in OwnedIndexes, NEW j \in OwnedIndexes, i < c, j < c, old[i] = old[j]
      PROVE  i = j
  BY <1>9, <1>8 DEF OwnershipInv, OwnershipConsistent, UsedIndexes
<1> HIDE DEF array, old, c
<1>10. ASSUME NEW n \in Mutexes
      PROVE  n \in {array[i] : i \in used} <=> n # m /\ owner[n] = t
  <2>1. ASSUME NEW i \in used, array[i] = n PROVE n # m /\ owner[n] = t
    <3>1. CASE i # k
      BY <2>1, <3>1, <1>1, <1>5, <1>6, <1>7 DEF OwnedIndexes
    <3>2. CASE i = k
      BY <2>1, <3>2, <1>1, <1>3, <1>5, <1>6, <1>7 DEF OwnedIndexes
    <3> QED BY <3>1, <3>2
  <2>2. ASSUME n # m, owner[n] = t PROVE \E i \in used : array[i] = n
    <3>1. PICK i \in OwnedIndexes : i < c /\ old[i] = n
      BY <2>2, <1>7
    <3>2. i # k
      BY <3>1, <2>2, <1>2
    <3>3. CASE i = c - 1
      BY <3>1, <3>2, <3>3, <1>1, <1>2, <1>6 DEF OwnedIndexes
    <3>4. CASE i < c - 1
      BY <3>1, <3>2, <3>4, <1>6
    <3> QED BY <3>1, <3>3, <3>4, <1>1 DEF OwnedIndexes
  <2> QED BY <2>1, <2>2
<1>11. ASSUME NEW i \in used, NEW j \in used, array[i] = array[j]
       PROVE  i = j
  <2>1. i < c /\ j < c /\ i # c - 1 /\ j # c - 1 /\ c - 1 < c
    BY <1>1 DEF OwnedIndexes
  <2>2. CASE i = k
    BY <1>11, <2>1, <2>2, <1>3, <1>6, <1>9
  <2>3. CASE j = k
    BY <1>11, <2>1, <2>3, <1>3, <1>6, <1>9
  <2>4. CASE i # k /\ j # k
    BY <1>11, <2>1, <2>4, <1>6, <1>9
  <2> QED BY <2>2, <2>3, <2>4
<1>12. \A i \in used : array[i] \in Mutexes
  BY <1>1, <1>3, <1>6, <1>8 DEF OwnedIndexes
<1> QED BY <1>3, <1>4, <1>10, <1>11, <1>12 DEF array, old, c

\* So after an unlock the task's used entries are the mutexes it still owns.
LEMMA RemovedEntry ==
    ASSUME WithinLimit, OwnershipInv, NEW t \in UserTasks, NEW m \in Mutexes, owner[m] = t,
           owned_mutexes'[t] = WithoutOwned(t, m),
           owned_mutex_count'[t] = owned_mutex_count[t] - 1
    PROVE  /\ Owned(t)' \subseteq Mutexes
           /\ \A n \in Mutexes : n \in Owned(t)' <=> n # m /\ owner[n] = t
           /\ \A n \in Mutexes : \A i, j \in UsedIndexes(t)' :
                 owned_mutexes'[t][i] = n /\ owned_mutexes'[t][j] = n => i = j
<1> DEFINE used == {i \in OwnedIndexes : i < owned_mutex_count[t] - 1}
<1>1. UsedIndexes(t)' = used /\ Owned(t)' = {owned_mutexes'[t][i] : i \in used}
  BY DEF UsedIndexes, Owned
<1>2. /\ \A n \in Mutexes : n \in {owned_mutexes'[t][i] : i \in used} <=> n # m /\ owner[n] = t
      /\ \A i \in used : owned_mutexes'[t][i] \in Mutexes
      /\ \A i, j \in used : owned_mutexes'[t][i] = owned_mutexes'[t][j] => i = j
  BY RemoveEntry
<1> HIDE DEF used
<1> QED BY <1>1, <1>2

\* Adding a mutex nobody owns to a task's array.
LEMMA AddEntry ==
    ASSUME WithinLimit, NEW t \in UserTasks, NEW m \in Mutexes,
           NEW array \in [UserTasks -> [OwnedIndexes -> Mutexes \cup {NULL}]],
           owned_mutex_count[t] \in Nat, owned_mutex_count[t] < LockLimit
    PROVE  LET c     == owned_mutex_count[t]
               added == WithOwned(array, t, m)
           IN  /\ c \in OwnedIndexes
               /\ added = [array EXCEPT ![t] = [array[t] EXCEPT ![c] = m]]
               /\ added \in [UserTasks -> [OwnedIndexes -> Mutexes \cup {NULL}]]
BY LimitAssumption DEF WithinLimit, WithOwned, OwnedIndexes

\* Its used entries are then those it had and the new one, each once.
LEMMA AddedEntry ==
    ASSUME WithinLimit, OwnershipInv, NEW t \in UserTasks, NEW m \in Mutexes, owner[m] # t,
           owned_mutex_count[t] < LockLimit,
           owned_mutexes'[t] = [owned_mutexes[t] EXCEPT ![owned_mutex_count[t]] = m],
           owned_mutex_count'[t] = owned_mutex_count[t] + 1
    PROVE  /\ Owned(t)' \subseteq Mutexes
           /\ \A n \in Mutexes : n \in Owned(t)' <=> n = m \/ owner[n] = t
           /\ \A n \in Mutexes : \A i, j \in UsedIndexes(t)' :
                 owned_mutexes'[t][i] = n /\ owned_mutexes'[t][j] = n => i = j
<1> DEFINE c   == owned_mutex_count[t]
           old == owned_mutexes[t]
           new == owned_mutexes'[t]
           before == UsedIndexes(t)
           after  == UsedIndexes(t)'
<1>1. c \in Nat /\ c \in OwnedIndexes /\ old \in [OwnedIndexes -> Mutexes \cup {NULL}]
  BY LimitAssumption DEF WithinLimit, OwnershipInv, OwnTypeOK, OwnedIndexes
<1>2. new[c] = m /\ \A i \in OwnedIndexes : i # c => new[i] = old[i]
  BY <1>1
<1>3. \A i \in OwnedIndexes : i \in after <=> i = c \/ i \in before
  BY <1>1 DEF UsedIndexes, OwnedIndexes
<1>4. c \notin before /\ before \subseteq OwnedIndexes /\ after \subseteq OwnedIndexes
  BY <1>1 DEF UsedIndexes
<1>5. \A n \in Mutexes : owner[n] = t <=> \E i \in before : old[i] = n
  BY DEF OwnershipInv, OwnershipConsistent, Owned
<1>6. \A n \in Mutexes : \A i, j \in before : old[i] = n /\ old[j] = n => i = j
  BY DEF OwnershipInv, OwnershipConsistent
<1>7. Owned(t)' = {new[i] : i \in after} /\ \A i \in before : old[i] \in Mutexes
  BY DEF Owned, OwnershipInv, EntriesAreMutexes
<1> HIDE DEF c, old, new, before, after
<1>8. ASSUME NEW n \in Mutexes
      PROVE  (\E i \in after : new[i] = n) <=> n = m \/ owner[n] = t
  <2>1. ASSUME NEW i \in after, new[i] = n PROVE n = m \/ owner[n] = t
    BY <2>1, <1>2, <1>3, <1>4, <1>5
  <2>2. CASE n = m
    BY <2>2, <1>1, <1>2, <1>3
  <2>3. CASE owner[n] = t
    BY <2>3, <1>2, <1>3, <1>4, <1>5
  <2> QED BY <2>1, <2>2, <2>3
<1>9. ASSUME NEW n \in Mutexes, NEW i \in after, NEW j \in after, new[i] = n, new[j] = n
      PROVE  i = j
  <2>1. n = m => i = c /\ j = c
    BY <1>9, <1>2, <1>3, <1>4, <1>5
  <2>2. n # m => i \in before /\ j \in before /\ old[i] = n /\ old[j] = n
    BY <1>9, <1>2, <1>3, <1>4
  <2> QED BY <2>1, <2>2, <1>6
<1>10. \A i \in after : new[i] \in Mutexes
  BY <1>2, <1>3, <1>4, <1>7
<1> QED BY <1>7, <1>8, <1>9, <1>10 DEF new, after

-----------------------------------------------------------------------------
(* The steps of a recompute.                                                *)

\* The priorities a load of an entry can find are numbers.
LEMMA EntryPriorityType ==
    ASSUME CoreInv, NEW t \in UserTasks, recompute[t].list \in Mutexes
    PROVE  EntryPriority(recompute[t]) \subseteq Nat
<1> DEFINE entry == {u \in waiters[recompute[t].list] :
                        Cardinality(ahead[u]) = recompute[t].j}
<1>1. entry \subseteq UserTasks
  BY MutexesAssumption DEF CoreInv, CoreTypeOK
<1>2. EntryPriority(recompute[t]) =
         IF entry = {} THEN FlashBytes ELSE {effective_priority[u] : u \in entry}
  BY DEF EntryPriority
<1> HIDE DEF entry
<1>3. \A u \in entry : effective_priority[u] \in Nat
  BY <1>1 DEF CoreInv, CoreTypeOK
<1>4. CASE entry = {}
  BY <1>2, <1>4, FlashAssumption
<1>5. CASE entry # {}
  BY <1>2, <1>3, <1>5
<1> QED BY <1>4, <1>5

\* A scan starts with a task that exists, or not at all.
LEMMA StartScanType ==
    ASSUME NEW target \in UserTasks \cup {NoTask}, NEW iterations \in Nat
    PROVE  LET r == StartScan(target, iterations)
           IN  r \in Recomputes /\ r.at \in {"scan", "done"}
               /\ (r.at = "scan" => r.target \in UserTasks)
BY PriorityAssumption DEF StartScan, Recomputes, Idle

\* Changing the locals of one task's recompute to well-initialized ones.
LEMMA RecomputeUpdate ==
    ASSUME RecomputeOK, NEW t \in UserTasks, NEW r \in Recomputes,
           recompute' = [recompute EXCEPT ![t] = r],
           r.at \in Scanning => r.target \in UserTasks,
           r.at \in {"compare", "take", "follow"} => r.list \in Mutexes,
           r.at = "mutex" => r.i < OS_MAX_MTX_PER_TASK
    PROVE  RecomputeOK'
BY DEF RecomputeOK

\* Every step of a recompute but the last keeps its locals initialized.
LEMMA RecomputeQuiet ==
    ASSUME WithinLimit, MtxInv, NEW t \in UserTasks, RecomputeStep(t), ~LockReturn(t)
    PROVE  QuietStep(t)
<1> DEFINE r == recompute[t]
<1>1. /\ r \in Recomputes
      /\ r.at \in Scanning => r.target \in UserTasks
      /\ r.at \in {"compare", "take", "follow"} => r.list \in Mutexes
      /\ r.at = "mutex" => r.i < OS_MAX_MTX_PER_TASK
  BY DEF MtxInv, RecomputeOK
<1>0. /\ r = [at |-> r.at, target |-> r.target, list |-> r.list, i |-> r.i, j |-> r.j,
              best |-> r.best, iterations |-> r.iterations]
      /\ r.at \in Scanning \cup {"idle", "follow", "done"}
      /\ r.target \in UserTasks \cup {NoTask} /\ r.list \in Mutexes \cup {NULL}
      /\ r.i \in Nat /\ r.j \in Nat /\ r.best \in Nat /\ r.iterations \in Nat
      /\ r.i + 1 \in Nat /\ r.j + 1 \in Nat /\ r.iterations + 1 \in Nat
  BY <1>1 DEF Recomputes, Scanning
<1>2. ASSUME NEW changes \in Recomputes, Step(t, changes),
             changes.at \in Scanning => changes.target \in UserTasks,
             changes.at \in {"compare", "take", "follow"} => changes.list \in Mutexes,
             changes.at = "mutex" => changes.i < OS_MAX_MTX_PER_TASK
      PROVE  QuietStep(t)
  <2>1. RecomputeOK'
    BY <1>2, RecomputeUpdate DEF Step, MtxInv
  <2>2. effective_priority' \in [UserTasks -> Nat]
    BY <1>2 DEF Step, coreVars, MtxInv, CoreInv, CoreTypeOK
  <2> QED BY <1>2, <2>1, <2>2 DEF QuietStep, Step, coreVars, schedVars, listVars
<1>3. ASSUME NEW m \in Mutexes, RecomputeBegin(t, m) PROVE QuietStep(t)
  <2> DEFINE next == StartScan(owner[m], 0)
  <2>1. Step(t, next) /\ owner[m] \in UserTasks \cup {NoTask}
    BY <1>3 DEF RecomputeBegin, MtxInv, OwnershipInv, OwnTypeOK
  <2>2. /\ next \in Recomputes /\ next.at \in {"scan", "done"}
        /\ next.at = "scan" => next.target \in UserTasks
    BY <2>1, StartScanType
  <2> HIDE DEF next
  <2> QED BY <2>1, <2>2, <1>2 DEF Scanning
<1>4. CASE RecomputeScan(t)
  <2>1. PICK at \in {"compare", "mutex", "store"} :
          /\ Step(t, [r EXCEPT !.at = at])
          /\ r.at = "scan"
          /\ at = "compare" => r.list # NULL
          /\ at = "mutex" => r.i < owned_mutex_count[r.target]
    BY <1>4 DEF RecomputeScan
  <2>2. at = "mutex" => r.i < OS_MAX_MTX_PER_TASK
    BY <2>1, <1>1, LimitAssumption
    DEF Scanning, Recomputes, WithinLimit, MtxInv, OwnershipInv, OwnTypeOK, RoomForOneMore
  <2> DEFINE next == [r EXCEPT !.at = at]
  <2>3. /\ next \in Recomputes /\ next.at = at
        /\ next.target = r.target /\ next.list = r.list /\ next.i = r.i
    BY <1>1 DEF Recomputes
  <2>4. r.target \in UserTasks /\ (at = "compare" => r.list \in Mutexes)
    BY <2>1, <1>1 DEF Scanning, Recomputes
  <2>5. Step(t, next)
    BY <2>1
  <2> HIDE DEF next
  <2> QED BY <2>1, <2>2, <2>3, <2>4, <2>5, <1>2
<1>5. CASE RecomputeMutex(t)
  <2>1. r.i \in OwnedIndexes /\ r.target \in UserTasks
    BY <1>1, <1>5, LimitAssumption
    DEF RecomputeMutex, OwnedIndexes, Recomputes, Scanning
  <2>2. owned_mutexes[r.target][r.i] \in Mutexes \cup {NULL}
    BY <2>1 DEF MtxInv, OwnershipInv, OwnTypeOK
  <2> DEFINE next == [r EXCEPT !.at = "scan", !.list = owned_mutexes[r.target][r.i],
                              !.i = r.i + 1, !.j = 0]
  <2>3. next \in Recomputes /\ next.at = "scan" /\ next.target = r.target
    BY <2>1, <2>2, <1>0 DEF Recomputes, Scanning
  <2>4. Step(t, next)
    BY <1>5 DEF RecomputeMutex
  <2> HIDE DEF next
  <2> QED BY <2>1, <2>3, <2>4, <1>2
<1>6. CASE RecomputeCompare(t)
  <2>1. PICK next \in {[r EXCEPT !.at = "take"], [r EXCEPT !.at = "scan", !.j = r.j + 1]} :
           Step(t, next)
    BY <1>6 DEF RecomputeCompare
  <2>2. r.target \in UserTasks /\ r.list \in Mutexes
    BY <1>1, <1>6 DEF RecomputeCompare, Scanning
  <2>3. /\ next \in Recomputes /\ next.at \in {"take", "scan"}
        /\ next.target = r.target /\ next.list = r.list
    BY <2>1, <1>0 DEF Recomputes, Scanning
  <2> QED BY <2>1, <2>2, <2>3, <1>2
<1>7. CASE RecomputeTake(t)
  <2>1. PICK p \in EntryPriority(r) :
           Step(t, [r EXCEPT !.at = "scan", !.j = r.j + 1, !.best = p])
    BY <1>7 DEF RecomputeTake
  <2>2. p \in Nat
    BY <1>1, <1>7, EntryPriorityType DEF RecomputeTake, MtxInv
  <2>3. r.target \in UserTasks
    BY <1>1, <1>7 DEF RecomputeTake, Scanning
  <2> DEFINE next == [r EXCEPT !.at = "scan", !.j = r.j + 1, !.best = p]
  <2>4. next \in Recomputes /\ next.at = "scan" /\ next.target = r.target
    BY <2>2, <1>0 DEF Recomputes, Scanning
  <2>5. Step(t, next)
    BY <2>1
  <2> HIDE DEF next
  <2> QED BY <2>3, <2>4, <2>5, <1>2
<1>8. CASE RecomputeStore(t)
  <2>1. effective_priority' \in [UserTasks -> Nat]
    BY <1>1, <1>8 DEF RecomputeStore, Recomputes, MtxInv, CoreInv, CoreTypeOK
  <2>2. r.at = "store" /\ r.target \in UserTasks
    BY <1>1, <1>8 DEF RecomputeStore, Scanning
  <2> DEFINE next == [Idle EXCEPT !.at = "advance", !.target = r.target,
                                  !.iterations = r.iterations]
  <2>3. next \in Recomputes /\ next.target = r.target /\ next.at = "advance"
    BY <1>1, <2>2 DEF Recomputes, Idle
  <2>4. RecomputeOK'
    BY <1>8, <2>2, <2>3, RecomputeUpdate DEF RecomputeStore, MtxInv
  <2> QED BY <1>8, <2>1, <2>4 DEF RecomputeStore, QuietStep
<1>9. CASE RecomputeAdvance(t)
  <2>1. r.target \in UserTasks
    BY <1>1, <1>9 DEF RecomputeAdvance, Scanning
  <2>2. blocked_waitlist[r.target] \in Mutexes \cup {NULL}
    BY <2>1 DEF MtxInv, CoreInv, CoreTypeOK, TCBMatchesWaitlists, CallsAreLocks
  <2> DEFINE follow == [Idle EXCEPT !.at = "follow", !.list = blocked_waitlist[r.target],
                                    !.iterations = r.iterations + 1]
             done   == [Idle EXCEPT !.at = "done"]
  <2>3. (Step(t, follow) /\ blocked_waitlist[r.target] # NULL) \/ Step(t, done)
    BY <1>9 DEF RecomputeAdvance
  <2>4. follow \in Recomputes /\ follow.at = "follow" /\ follow.list = blocked_waitlist[r.target]
    BY <2>2, <1>0 DEF Recomputes, Idle
  <2>5. done \in Recomputes /\ done.at = "done"
    BY DEF Recomputes, Idle
  <2> HIDE DEF follow, done
  <2> QED BY <2>2, <2>3, <2>4, <2>5, <1>2 DEF Scanning
<1>10. CASE RecomputeFollow(t)
  <2> DEFINE next == StartScan(owner[r.list], r.iterations)
  <2>1. /\ Step(t, next)
        /\ owner[r.list] \in UserTasks \cup {NoTask} /\ r.iterations \in Nat
    BY <1>1, <1>10 DEF RecomputeFollow, Recomputes, MtxInv, OwnershipInv, OwnTypeOK
  <2>2. /\ next \in Recomputes /\ next.at \in {"scan", "done"}
        /\ next.at = "scan" => next.target \in UserTasks
    BY <2>1, StartScanType
  <2> HIDE DEF next
  <2> QED BY <2>1, <2>2, <1>2 DEF Scanning
<1> QED
  BY <1>3, <1>4, <1>5, <1>6, <1>7, <1>8, <1>9, <1>10 DEF RecomputeStep

-----------------------------------------------------------------------------
(* The operations, one lemma each.                                          *)

\* What leaves owners and arrays alone keeps them consistent.
LEMMA OwnershipKept ==
    ASSUME OwnershipInv, UNCHANGED ownVars,
           \A t \in UserTasks : blocked_waitlist'[t] # NULL =>
                blocked_waitlist[t] # NULL \/ owned_mutex_count[t] < LockLimit
    PROVE  OwnershipInv'
<1>1. OwnTypeOK'
  BY DEF OwnershipInv, OwnTypeOK, ownVars
<1>2. OwnershipConsistent'
  BY DEF OwnershipInv, OwnershipConsistent, Owned, UsedIndexes, ownVars
<1>3. RoomForOneMore'
  BY DEF OwnershipInv, RoomForOneMore, ownVars
<1>4. EntriesAreMutexes'
  BY DEF OwnershipInv, EntriesAreMutexes, Owned, UsedIndexes, ownVars
<1> QED BY <1>1, <1>2, <1>3, <1>4 DEF OwnershipInv

\* A step of a recompute.
LEMMA QuietKeepsInv ==
    ASSUME MtxInv, NEW t \in UserTasks, QuietStep(t)
    PROVE  MtxInv'
<1> USE DEF MtxInv, QuietStep, schedVars, listVars, ownVars
<1>1. CoreInv'
  BY DEF CoreInv, CoreTypeOK, TCBMatchesWaitlists, ProcessorConsistent
<1>2. OwnershipInv'
  BY OwnershipKept
<1>3. WaitersHaveOwner' /\ ResultTellsOwnership' /\ CallsAreLocks'
  BY DEF WaitersHaveOwner, ResultTellsOwnership, CallsAreLocks
<1> QED BY <1>1, <1>2, <1>3

\* Returning from os_mutex_lock.
LEMMA ReturnKeepsInv ==
    ASSUME MtxInv, NEW t \in UserTasks, LockReturn(t)
    PROVE  MtxInv'
<1> USE DEF MtxInv, LockReturn, schedVars, listVars, ownVars
<1>1. CoreInv'
  <2>1. CoreTypeOK'
    BY DEF CoreInv, CoreTypeOK
  <2>2. TCBMatchesWaitlists'
    BY RunningIsInNoList DEF CoreInv, CoreTypeOK, TCBMatchesWaitlists
  <2>3. ProcessorConsistent'
    BY DEF CoreInv, ProcessorConsistent
  <2> QED BY <2>1, <2>2, <2>3 DEF CoreInv
<1>2. OwnershipInv'
  BY OwnershipKept
<1>3. WaitersHaveOwner'
  BY DEF WaitersHaveOwner
<1>4. ResultTellsOwnership' /\ CallsAreLocks'
  BY DEF CoreInv, CoreTypeOK, ResultTellsOwnership, CallsAreLocks
<1>5. RecomputeOK'
  BY DEF RecomputeOK, Recomputes, Idle, Scanning
<1> QED BY <1>1, <1>2, <1>3, <1>4, <1>5

\* os_tick: a wait that ends by its deadline was not handed the mutex.
LEMMA TickKeepsInv ==
    ASSUME MtxInv, MtxTick
    PROVE  MtxInv'
<1> USE DEF MtxInv, MtxTick
<1> DEFINE expired == Expired((systick_count + 1) % TickModulus)
<1>1. CoreInv'
  BY TickKeepsCore
<1>2. unblock_tasks(expired) /\ UNCHANGED <<in_call, ownVars, recompute>>
  BY DEF os_tick
<1>3. expired \subseteq UserTasks /\ \A t \in expired : current_state[t] = "BLOCKED"
  BY DEF Expired
<1> HIDE DEF expired
<1>4. \A t \in expired : blocked_waitlist[t] # NULL <=> FoundInList(t)
  BY <1>3 DEF CoreInv, CoreTypeOK, TCBMatchesWaitlists, FoundInList
<1>5. \A t \in UserTasks :
         /\ blocked_waitlist'[t] = IF t \in expired THEN NULL ELSE blocked_waitlist[t]
         /\ timeout'[t] = IF t \in expired THEN blocked_waitlist[t] # NULL ELSE timeout[t]
         /\ current_state'[t] = IF t \in expired THEN "READY" ELSE current_state[t]
  BY <1>2, <1>4, IdleIsNoUserTask, Zenon DEF unblock_tasks
<1>6. OwnershipInv'
  BY <1>2, <1>5, OwnershipKept
<1>7. WaitersHaveOwner'
  BY <1>2, MutexesAssumption DEF unblock_tasks, Remove, WaitersHaveOwner, ownVars
<1>8. ResultTellsOwnership'
  <2> SUFFICES ASSUME NEW t \in UserTasks, in_call[t] # NULL, blocked_waitlist'[t] = NULL
               PROVE  owner[in_call[t]] = t <=> ~timeout'[t]
    BY <1>2 DEF ResultTellsOwnership, ownVars
  <2>1. CASE t \notin expired
    BY <2>1, <1>5 DEF ResultTellsOwnership
  <2>2. CASE t \in expired
    <3>1. blocked_waitlist[t] # NULL
      BY <2>2, <1>3 DEF CallsAreLocks
    <3>2. in_call[t] \in Mutexes /\ t \in waiters[in_call[t]]
      BY <3>1, MutexesAssumption
      DEF CallsAreLocks, CoreInv, CoreTypeOK, TCBMatchesWaitlists
    <3>3. owner[in_call[t]] # t
      BY <3>2 DEF WaitersHaveOwner
    <3>4. timeout'[t]
      BY <2>2, <3>1, <1>5
    <3> QED BY <3>3, <3>4
  <2> QED BY <2>1, <2>2
<1>9. CallsAreLocks'
  BY <1>2, <1>5 DEF CallsAreLocks
<1>10. RecomputeOK'
  BY <1>2 DEF RecomputeOK
<1> QED BY <1>1, <1>6, <1>7, <1>8, <1>9, <1>10

\* PendSV.
LEMMA SwitchKeepsInv ==
    ASSUME MtxInv, MtxSwitch
    PROVE  MtxInv'
<1> USE DEF MtxInv, MtxSwitch, PendSV_Handler, listVars
<1>1. CoreInv'
  BY SwitchKeepsCore
<1>2. OwnershipInv'
  BY OwnershipKept
<1>3. WaitersHaveOwner' /\ ResultTellsOwnership' /\ RecomputeOK'
  BY DEF WaitersHaveOwner, ResultTellsOwnership, RecomputeOK, ownVars
<1>4. CallsAreLocks'
  <2>1. \A t \in UserTasks : current_state'[t] = "BLOCKED" => current_state[t] = "BLOCKED"
    BY IdleIsNoUserTask DEF os_schedule_next_task, RunningToReady, CoreInv, CoreTypeOK
  <2> QED BY <2>1 DEF CallsAreLocks
<1> QED BY <1>1, <1>2, <1>3, <1>4

\* os_task_delay.
LEMMA DelayKeepsInv ==
    ASSUME MtxInv, NEW t \in UserTasks, NEW ticks \in Ticks, MtxDelay(t, ticks)
    PROVE  MtxInv'
<1> USE DEF MtxInv, MtxDelay, os_task_delay, BlockCurrent, listVars, InApplication
<1>1. CoreInv'
  BY DelayKeepsCore
<1>2. OwnershipInv'
  BY OwnershipKept
<1>3. WaitersHaveOwner' /\ ResultTellsOwnership' /\ RecomputeOK'
  BY DEF WaitersHaveOwner, ResultTellsOwnership, RecomputeOK, ownVars
<1>4. CallsAreLocks'
  BY IdleIsNoUserTask DEF CallsAreLocks, OnCpu, CoreInv, CoreTypeOK
<1> QED BY <1>1, <1>2, <1>3, <1>4

\* os_mutex_lock on an unlocked mutex: nobody waits for it or owns it.
LEMMA LockFreeKeepsInv ==
    ASSUME WithinLimit, MtxInv, NEW t \in UserTasks, NEW m \in Mutexes, LockFree(t, m)
    PROVE  MtxInv'
<1> USE DEF MtxInv, coreVars
<1>1. /\ OnCpu(t) /\ in_call[t] = NULL /\ owned_mutex_count[t] < LockLimit
      /\ owner[m] = NoTask /\ waiters[m] = {}
      /\ UNCHANGED <<coreVars, recompute>>
      /\ owner' = [owner EXCEPT ![m] = t]
      /\ mutex_state' = [mutex_state EXCEPT ![m] = "locked"]
      /\ owned_mutex_count' = [owned_mutex_count EXCEPT ![t] = @ + 1]
  BY DEF LockFree, InApplication, OwnershipInv, OwnershipConsistent, WaitersHaveOwner
<1>2. /\ owned_mutexes' = [owned_mutexes EXCEPT ![t] =
                               [owned_mutexes[t] EXCEPT ![owned_mutex_count[t]] = m]]
      /\ owned_mutexes' \in [UserTasks -> [OwnedIndexes -> Mutexes \cup {NULL}]]
  BY <1>1, AddEntry DEF LockFree, OwnershipInv, OwnTypeOK
<1>3. CoreInv'
  BY <1>1 DEF CoreInv, CoreTypeOK, TCBMatchesWaitlists, ProcessorConsistent
<1>4. OwnershipInv'
  <2>1. OwnTypeOK'
    BY <1>1, <1>2 DEF OwnershipInv, OwnTypeOK
  <2>2. RoomForOneMore'
    BY <1>1, <1>3, RunningIsInNoList, LimitAssumption
    DEF OwnershipInv, OwnTypeOK, RoomForOneMore
  <2>3. /\ Owned(t)' \subseteq Mutexes
        /\ \A n \in Mutexes : n \in Owned(t)' <=> n = m \/ owner[n] = t
        /\ \A n \in Mutexes : \A i, j \in UsedIndexes(t)' :
              owned_mutexes'[t][i] = n /\ owned_mutexes'[t][j] = n => i = j
    <3>1. /\ owned_mutexes'[t] = [owned_mutexes[t] EXCEPT ![owned_mutex_count[t]] = m]
          /\ owned_mutex_count'[t] = owned_mutex_count[t] + 1
      BY <1>1, <1>2 DEF OwnershipInv, OwnTypeOK
    <3>2. owner[m] # t
      BY <1>1, NoTaskAssumption, IdleIsNoUserTask
    <3> QED BY <1>1, <3>1, <3>2, AddedEntry
  <2>4. \A u \in UserTasks \ {t} :
           Owned(u)' = Owned(u) /\ UsedIndexes(u)' = UsedIndexes(u)
           /\ owned_mutexes'[u] = owned_mutexes[u]
    BY <1>1, <1>2 DEF Owned, UsedIndexes, OwnershipInv, OwnTypeOK
  <2>5. \A n \in Mutexes :
           /\ owner'[n] = IF n = m THEN t ELSE owner[n]
           /\ mutex_state'[n] = IF n = m THEN "locked" ELSE mutex_state[n]
    BY <1>1 DEF OwnershipInv, OwnTypeOK
  <2>6. t # NoTask /\ "locked" # "unlocked"
    BY NoTaskAssumption, IdleIsNoUserTask
  <2>7. OwnershipConsistent'
    <3> SUFFICES ASSUME NEW n \in Mutexes, NEW u \in UserTasks
                 PROVE  /\ mutex_state'[n] = "unlocked" <=> owner'[n] = NoTask
                        /\ owner'[n] = u <=> n \in Owned(u)'
                        /\ \A i, j \in UsedIndexes(u)' :
                              owned_mutexes'[u][i] = n /\ owned_mutexes'[u][j] = n => i = j
      BY DEF OwnershipConsistent
    <3>1. mutex_state'[n] = "unlocked" <=> owner'[n] = NoTask
      BY <2>5, <2>6 DEF OwnershipInv, OwnershipConsistent
    <3>2. owner'[n] = u <=> n \in Owned(u)'
      <4>1. owner[n] = u <=> n \in Owned(u)
        BY DEF OwnershipInv, OwnershipConsistent
      <4>2. CASE u = t
        BY <4>2, <2>3, <2>5
      <4>3. CASE u # t
        BY <4>1, <4>3, <1>1, <2>4, <2>5, <2>6, NoTaskAssumption, IdleIsNoUserTask
      <4> QED BY <4>2, <4>3
    <3>3. \A i, j \in UsedIndexes(u)' :
             owned_mutexes'[u][i] = n /\ owned_mutexes'[u][j] = n => i = j
      BY <2>3, <2>4 DEF OwnershipInv, OwnershipConsistent
    <3> QED BY <3>1, <3>2, <3>3
  <2>8. EntriesAreMutexes'
    BY <2>3, <2>4 DEF OwnershipInv, EntriesAreMutexes
  <2> QED BY <2>1, <2>2, <2>7, <2>8 DEF OwnershipInv
<1>5. WaitersHaveOwner'
  BY <1>1 DEF WaitersHaveOwner, OwnershipInv, OwnTypeOK
<1>6. ResultTellsOwnership'
  BY <1>1, NoTaskAssumption, IdleIsNoUserTask
  DEF ResultTellsOwnership, CallsAreLocks, OwnershipInv, OwnTypeOK
<1>7. CallsAreLocks' /\ RecomputeOK'
  BY <1>1 DEF CallsAreLocks, RecomputeOK
<1> QED BY <1>3, <1>4, <1>5, <1>6, <1>7

\* os_mutex_lock on a mutex of another task.
LEMMA LockBlockKeepsInv ==
    ASSUME MtxInv, NEW t \in UserTasks, NEW m \in Mutexes, NEW ticks \in Ticks,
           LockBlock(t, m, ticks)
    PROVE  MtxInv'
<1> USE MutexesAssumption, NullAssumption DEF MtxInv
<1>1. /\ OnCpu(t) /\ in_call[t] = NULL /\ owned_mutex_count[t] < LockLimit
      /\ mutex_state[m] = "locked" /\ owner[m] # t
      /\ effective_priority' = Donated(owner[m])
      /\ waitlist_block_current(m, ticks, "MUTEX")
      /\ UNCHANGED <<ownVars, recompute>>
      /\ current_task = t
  BY DEF LockBlock, InApplication, OnCpu
<1>2. blocked_waitlist[t] = NULL /\ m \in Waitlists
  BY <1>1, RunningIsInNoList
<1>3. effective_priority' \in [UserTasks -> Nat]
  BY <1>1 DEF Donated, CoreInv, CoreTypeOK
<1>4. CoreInv'
  BY <1>1, <1>2, <1>3, BlockKeepsCore DEF Reasons
<1>5. /\ in_call' = [in_call EXCEPT ![t] = m]
      /\ blocked_waitlist' = [blocked_waitlist EXCEPT ![t] = m]
      /\ waiters' = [waiters EXCEPT ![m] = @ \cup {t}]
      /\ current_state' = [current_state EXCEPT ![t] = "BLOCKED"]
      /\ timeout' = timeout
  BY <1>1 DEF waitlist_block_current, BlockCurrent, AppendCurrent
<1>6. OwnershipInv'
  BY <1>1, <1>5, OwnershipKept DEF CoreInv, CoreTypeOK
<1>7. WaitersHaveOwner'
  BY <1>1, <1>2, <1>5
  DEF WaitersHaveOwner, OwnershipInv, OwnershipConsistent, CoreInv, CoreTypeOK, ownVars
<1>8. ResultTellsOwnership'
  BY <1>1, <1>2, <1>5 DEF ResultTellsOwnership, CoreInv, CoreTypeOK, ownVars
<1>9. CallsAreLocks'
  BY <1>2, <1>5, IdleIsNoUserTask DEF CallsAreLocks, CoreInv, CoreTypeOK
<1>10. RecomputeOK'
  BY <1>1 DEF RecomputeOK
<1> QED BY <1>4, <1>6, <1>7, <1>8, <1>9, <1>10

\* os_mutex_unlock without a waiter.
LEMMA UnlockFreeKeepsInv ==
    ASSUME WithinLimit, MtxInv, NEW t \in UserTasks, NEW m \in Mutexes, UnlockFree(t, m)
    PROVE  MtxInv'
<1> USE DEF MtxInv
<1>1. /\ OnCpu(t) /\ in_call[t] = NULL /\ owner[m] = t /\ waiters[m] = {}
      /\ UNCHANGED <<coreVars, recompute>>
      /\ owner' = [owner EXCEPT ![m] = NoTask]
      /\ mutex_state' = [mutex_state EXCEPT ![m] = "unlocked"]
      /\ owned_mutexes' = [owned_mutexes EXCEPT ![t] = WithoutOwned(t, m)]
      /\ owned_mutex_count' = [owned_mutex_count EXCEPT ![t] = @ - 1]
  BY DEF UnlockFree, NothingToUnblock, InApplication, coreVars, listVars
<1> USE DEF coreVars
<1>2. owned_mutex_count[t] > 0 /\ WithoutOwned(t, m) \in [OwnedIndexes -> Mutexes \cup {NULL}]
  BY <1>1, RemoveEntry
<1>3. CoreInv'
  BY <1>1 DEF CoreInv, CoreTypeOK, TCBMatchesWaitlists, ProcessorConsistent
<1>4. OwnershipInv'
  <2>1. OwnTypeOK'
    BY <1>1, <1>2 DEF OwnershipInv, OwnTypeOK
  <2>2. RoomForOneMore'
    BY <1>1, LimitAssumption DEF OwnershipInv, OwnTypeOK, RoomForOneMore
  <2>3. /\ Owned(t)' \subseteq Mutexes
        /\ \A n \in Mutexes : n \in Owned(t)' <=> n # m /\ owner[n] = t
        /\ \A n \in Mutexes : \A i, j \in UsedIndexes(t)' :
              owned_mutexes'[t][i] = n /\ owned_mutexes'[t][j] = n => i = j
    <3>1. /\ owned_mutexes'[t] = WithoutOwned(t, m)
          /\ owned_mutex_count'[t] = owned_mutex_count[t] - 1
      BY <1>1 DEF OwnershipInv, OwnTypeOK
    <3> QED BY <1>1, <3>1, RemovedEntry
  <2>4. \A u \in UserTasks \ {t} :
           Owned(u)' = Owned(u) /\ UsedIndexes(u)' = UsedIndexes(u)
           /\ owned_mutexes'[u] = owned_mutexes[u]
    BY <1>1 DEF Owned, UsedIndexes, OwnershipInv, OwnTypeOK
  <2>5. \A n \in Mutexes :
           /\ owner'[n] = IF n = m THEN NoTask ELSE owner[n]
           /\ mutex_state'[n] = IF n = m THEN "unlocked" ELSE mutex_state[n]
    BY <1>1 DEF OwnershipInv, OwnTypeOK
  <2>6. NoTask \notin UserTasks
    BY NoTaskAssumption, IdleIsNoUserTask
  <2>7. OwnershipConsistent'
    <3> SUFFICES ASSUME NEW n \in Mutexes, NEW u \in UserTasks
                 PROVE  /\ mutex_state'[n] = "unlocked" <=> owner'[n] = NoTask
                        /\ owner'[n] = u <=> n \in Owned(u)'
                        /\ \A i, j \in UsedIndexes(u)' :
                              owned_mutexes'[u][i] = n /\ owned_mutexes'[u][j] = n => i = j
      BY DEF OwnershipConsistent
    <3>1. mutex_state'[n] = "unlocked" <=> owner'[n] = NoTask
      BY <2>5 DEF OwnershipInv, OwnershipConsistent
    <3>2. owner'[n] = u <=> n \in Owned(u)'
      <4>1. owner[n] = u <=> n \in Owned(u)
        BY DEF OwnershipInv, OwnershipConsistent
      <4>2. CASE u = t
        BY <4>2, <2>3, <2>5, <2>6
      <4>3. CASE u # t
        BY <4>1, <4>3, <1>1, <2>4, <2>5, <2>6
      <4> QED BY <4>2, <4>3
    <3>3. \A i, j \in UsedIndexes(u)' :
             owned_mutexes'[u][i] = n /\ owned_mutexes'[u][j] = n => i = j
      BY <2>3, <2>4 DEF OwnershipInv, OwnershipConsistent
    <3> QED BY <3>1, <3>2, <3>3
  <2>8. EntriesAreMutexes'
    BY <2>3, <2>4 DEF OwnershipInv, EntriesAreMutexes
  <2> QED BY <2>1, <2>2, <2>7, <2>8 DEF OwnershipInv
<1>5. WaitersHaveOwner'
  BY <1>1 DEF WaitersHaveOwner, OwnershipInv, OwnTypeOK
<1>6. ResultTellsOwnership'
  BY <1>1, NoTaskAssumption, IdleIsNoUserTask
  DEF ResultTellsOwnership, CallsAreLocks, OwnershipInv, OwnTypeOK
<1>7. CallsAreLocks' /\ RecomputeOK'
  BY <1>1 DEF CallsAreLocks, RecomputeOK
<1> QED BY <1>3, <1>4, <1>5, <1>6, <1>7

\* os_mutex_unlock with a waiter u, which becomes the owner.
LEMMA HandOffKeepsInv ==
    ASSUME WithinLimit, MtxInv, NEW t \in UserTasks, NEW m \in Mutexes, NEW u \in UserTasks,
           UnlockHandOff(t, m, u)
    PROVE  MtxInv'
<1> USE MutexesAssumption, NullAssumption DEF MtxInv
<1>1. /\ OnCpu(t) /\ in_call[t] = NULL /\ owner[m] = t
      /\ waitlist_unblock(m, u) /\ port_yield
      /\ UNCHANGED <<current_task, systick_count, in_call, mutex_state, recompute>>
      /\ owner' = [owner EXCEPT ![m] = u]
      /\ owned_mutex_count' = [owned_mutex_count EXCEPT ![t] = @ - 1, ![u] = @ + 1]
      /\ owned_mutexes' = WithOwned([owned_mutexes EXCEPT ![t] = WithoutOwned(t, m)], u, m)
  BY DEF UnlockHandOff, InApplication
<1>2. /\ u \in waiters[m] /\ u # t
      /\ blocked_waitlist[u] = m /\ in_call[u] = m
      /\ owned_mutex_count[u] < LockLimit
  <2>1. u \in waiters[m]
    BY <1>1 DEF waitlist_unblock, NextWaiter
  <2>2. blocked_waitlist[u] = m /\ in_call[u] = m /\ m # NULL
    BY <2>1 DEF CoreInv, CoreTypeOK, TCBMatchesWaitlists
  <2> QED BY <1>1, <2>1, <2>2 DEF OwnershipInv, RoomForOneMore
<1>3. owned_mutex_count[t] > 0 /\ WithoutOwned(t, m) \in [OwnedIndexes -> Mutexes \cup {NULL}]
  BY <1>1, RemoveEntry
<1>4. /\ owned_mutexes'[t] = WithoutOwned(t, m)
      /\ owned_mutexes'[u] = [owned_mutexes[u] EXCEPT ![owned_mutex_count[u]] = m]
      /\ \A v \in UserTasks \ {t, u} : owned_mutexes'[v] = owned_mutexes[v]
      /\ owned_mutexes' \in [UserTasks -> [OwnedIndexes -> Mutexes \cup {NULL}]]
  <2> DEFINE array == [owned_mutexes EXCEPT ![t] = WithoutOwned(t, m)]
  <2>1. /\ array \in [UserTasks -> [OwnedIndexes -> Mutexes \cup {NULL}]]
        /\ array[t] = WithoutOwned(t, m)
        /\ \A v \in UserTasks \ {t} : array[v] = owned_mutexes[v]
    BY <1>3 DEF OwnershipInv, OwnTypeOK
  <2>2. owned_mutexes' = WithOwned(array, u, m)
    BY <1>1
  <2> HIDE DEF array
  <2>3. /\ owned_mutexes' = [array EXCEPT ![u] = [array[u] EXCEPT ![owned_mutex_count[u]] = m]]
        /\ owned_mutexes' \in [UserTasks -> [OwnedIndexes -> Mutexes \cup {NULL}]]
    BY <1>2, <2>1, <2>2, AddEntry DEF OwnershipInv, OwnTypeOK
  <2> QED BY <1>2, <2>1, <2>3
<1>5. \A v \in UserTasks :
         /\ blocked_waitlist'[v] = IF v = u THEN NULL ELSE blocked_waitlist[v]
         /\ timeout'[v] = IF v = u THEN FALSE ELSE timeout[v]
         /\ current_state'[v] = IF v = u THEN "READY" ELSE current_state[v]
  BY <1>1, IdleIsNoUserTask, Zenon
  DEF waitlist_unblock, ClearTimeout, CoreInv, CoreTypeOK
<1>6. \A v \in UserTasks :
         owned_mutex_count'[v] = IF v = t THEN owned_mutex_count[t] - 1
                                 ELSE IF v = u THEN owned_mutex_count[u] + 1
                                 ELSE owned_mutex_count[v]
  BY <1>1, <1>2 DEF OwnershipInv, OwnTypeOK
<1>7. effective_priority' \in [UserTasks -> Nat]
  <2>1. waiters' \in [Waitlists -> SUBSET UserTasks]
    BY <1>1 DEF waitlist_unblock, Remove, CoreInv, CoreTypeOK
  <2>2. PICK p \in BestOf(Sources(t, Owned(t) \ {m}, waiters')),
             q \in BestOf(Sources(u, Owned(u) \cup {m}, waiters')) :
           effective_priority' = [effective_priority EXCEPT ![t] = p, ![u] = q]
    BY DEF UnlockHandOff
  <2>3. ASSUME NEW v \in UserTasks, NEW mutexes \in SUBSET Mutexes
        PROVE  BestOf(Sources(v, mutexes, waiters')) \subseteq Nat
    <3>1. UNION {waiters'[n] : n \in mutexes} \subseteq UserTasks
      BY <2>1
    <3>2. Sources(v, mutexes, waiters') \subseteq Nat
      BY <3>1, PriorityAssumption DEF Sources, CoreInv, CoreTypeOK
    <3> QED BY <3>2 DEF BestOf
  <2>4. p \in Nat /\ q \in Nat
    BY <2>2, <2>3 DEF OwnershipInv, EntriesAreMutexes
  <2> QED BY <2>2, <2>4 DEF CoreInv, CoreTypeOK
<1>8. CoreInv'
  BY <1>1, <1>7, UnblockKeepsCore
<1>9. OwnershipInv'
  <2>0. /\ owner \in [Mutexes -> UserTasks \cup {NoTask}]
        /\ mutex_state \in [Mutexes -> {"unlocked", "locked"}]
        /\ owned_mutex_count \in [UserTasks -> Nat]
        /\ owned_mutex_count[t] - 1 \in Nat /\ owned_mutex_count[u] + 1 \in Nat
    BY <1>3 DEF OwnershipInv, OwnTypeOK
  <2>1. OwnTypeOK'
    <3>1. owner' \in [Mutexes -> UserTasks \cup {NoTask}]
      BY <1>1, <2>0
    <3>2. owned_mutex_count' \in [UserTasks -> Nat]
      BY <1>1, <1>2, <2>0
    <3> QED BY <1>1, <1>4, <2>0, <3>1, <3>2 DEF OwnTypeOK
  <2>2. RoomForOneMore'
    <3> SUFFICES ASSUME NEW v \in UserTasks
                 PROVE  /\ owned_mutex_count'[v] <= LockLimit
                        /\ blocked_waitlist'[v] # NULL => owned_mutex_count'[v] < LockLimit
      BY DEF RoomForOneMore
    <3>1. /\ owned_mutex_count[v] <= LockLimit
          /\ blocked_waitlist[v] # NULL => owned_mutex_count[v] < LockLimit
      BY DEF OwnershipInv, RoomForOneMore
    <3>2. LockLimit \in Nat /\ owned_mutex_count[v] \in Nat
      BY <2>0, LimitAssumption
    <3>3. CASE v = u
      <4>1. owned_mutex_count'[u] = owned_mutex_count[u] + 1 /\ blocked_waitlist'[u] = NULL
        BY <1>2, <1>5, <1>6
      <4>2. owned_mutex_count[u] < LockLimit
        BY <1>2
      <4> QED BY <3>2, <3>3, <4>1, <4>2
    <3>4. CASE v = t
      <4>1. owned_mutex_count'[t] = owned_mutex_count[t] - 1
        BY <1>6
      <4>2. owned_mutex_count[t] <= LockLimit
        BY <3>1, <3>4
      <4> QED BY <3>2, <3>4, <4>1, <4>2
    <3>5. CASE v \notin {t, u}
      BY <3>1, <3>5, <1>5, <1>6
    <3> QED BY <3>3, <3>4, <3>5
  <2>3. /\ Owned(t)' \subseteq Mutexes
        /\ \A n \in Mutexes : n \in Owned(t)' <=> n # m /\ owner[n] = t
        /\ \A n \in Mutexes : \A i, j \in UsedIndexes(t)' :
              owned_mutexes'[t][i] = n /\ owned_mutexes'[t][j] = n => i = j
    <3>1. owned_mutexes'[t] = WithoutOwned(t, m) /\ owned_mutex_count'[t] = owned_mutex_count[t] - 1
      BY <1>4, <1>6
    <3> QED BY <1>1, <3>1, RemovedEntry
  <2>4. /\ Owned(u)' \subseteq Mutexes
        /\ \A n \in Mutexes : n \in Owned(u)' <=> n = m \/ owner[n] = u
        /\ \A n \in Mutexes : \A i, j \in UsedIndexes(u)' :
              owned_mutexes'[u][i] = n /\ owned_mutexes'[u][j] = n => i = j
    <3>1. /\ owned_mutexes'[u] = [owned_mutexes[u] EXCEPT ![owned_mutex_count[u]] = m]
          /\ owned_mutex_count'[u] = owned_mutex_count[u] + 1 /\ owner[m] # u
      BY <1>1, <1>2, <1>4, <1>6
    <3> QED BY <1>2, <3>1, AddedEntry
  <2>5. \A v \in UserTasks \ {t, u} :
           Owned(v)' = Owned(v) /\ UsedIndexes(v)' = UsedIndexes(v)
           /\ owned_mutexes'[v] = owned_mutexes[v]
    BY <1>4, <1>6 DEF Owned, UsedIndexes
  <2>6. \A n \in Mutexes : owner'[n] = IF n = m THEN u ELSE owner[n]
    BY <1>1 DEF OwnershipInv, OwnTypeOK
  <2>7. NoTask \notin UserTasks
    BY NoTaskAssumption, IdleIsNoUserTask
  <2>8. OwnershipConsistent'
    <3> SUFFICES ASSUME NEW n \in Mutexes, NEW v \in UserTasks
                 PROVE  /\ mutex_state'[n] = "unlocked" <=> owner'[n] = NoTask
                        /\ owner'[n] = v <=> n \in Owned(v)'
                        /\ \A i, j \in UsedIndexes(v)' :
                              owned_mutexes'[v][i] = n /\ owned_mutexes'[v][j] = n => i = j
      BY DEF OwnershipConsistent
    <3>1. mutex_state'[n] = "unlocked" <=> owner'[n] = NoTask
      BY <1>1, <2>6, <2>7 DEF OwnershipInv, OwnershipConsistent
    <3>2. owner'[n] = v <=> n \in Owned(v)'
      <4>1. owner[n] = v <=> n \in Owned(v)
        BY DEF OwnershipInv, OwnershipConsistent
      <4>2. CASE v = t
        BY <4>2, <1>2, <2>3, <2>6
      <4>3. CASE v = u
        BY <4>3, <1>2, <2>4, <2>6
      <4>4. CASE v \notin {t, u}
        BY <4>1, <4>4, <1>1, <2>5, <2>6
      <4> QED BY <4>2, <4>3, <4>4
    <3>3. \A i, j \in UsedIndexes(v)' :
             owned_mutexes'[v][i] = n /\ owned_mutexes'[v][j] = n => i = j
      BY <2>3, <2>4, <2>5 DEF OwnershipInv, OwnershipConsistent
    <3> QED BY <3>1, <3>2, <3>3
  <2>9. EntriesAreMutexes'
    BY <2>3, <2>4, <2>5 DEF OwnershipInv, EntriesAreMutexes
  <2> QED BY <2>1, <2>2, <2>8, <2>9 DEF OwnershipInv
<1>10. WaitersHaveOwner'
  <2>1. /\ \A n \in Mutexes : waiters'[n] = waiters[n] \ {u}
        /\ \A n \in Mutexes : owner'[n] = IF n = m THEN u ELSE owner[n]
        /\ u # NoTask
    BY <1>1, NoTaskAssumption, IdleIsNoUserTask
    DEF waitlist_unblock, Remove, OwnershipInv, OwnTypeOK
  <2> QED BY <2>1 DEF WaitersHaveOwner
<1>11. ResultTellsOwnership'
  <2> SUFFICES ASSUME NEW v \in UserTasks, in_call[v] # NULL, blocked_waitlist'[v] = NULL
               PROVE  owner'[in_call[v]] = v <=> ~timeout'[v]
    BY <1>1 DEF ResultTellsOwnership
  <2>1. /\ in_call[v] \in Mutexes
        /\ owner'[in_call[v]] = IF in_call[v] = m THEN u ELSE owner[in_call[v]]
    BY <1>1 DEF CallsAreLocks, OwnershipInv, OwnTypeOK
  <2>2. CASE v = u
    BY <2>1, <2>2, <1>2, <1>5
  <2>3. CASE v # u
    <3>1. timeout'[v] = timeout[v] /\ blocked_waitlist[v] = NULL
      BY <2>3, <1>5, Zenon
    <3>2. owner[in_call[v]] = v <=> ~timeout[v]
      BY <3>1 DEF ResultTellsOwnership
    <3>3. owner'[in_call[v]] = v <=> owner[in_call[v]] = v
      BY <2>1, <2>3, <1>1
    <3> QED BY <3>1, <3>2, <3>3
  <2> QED BY <2>2, <2>3
<1>12. CallsAreLocks' /\ RecomputeOK'
  BY <1>1, <1>5 DEF CallsAreLocks, RecomputeOK
<1> QED BY <1>8, <1>9, <1>10, <1>11, <1>12

-----------------------------------------------------------------------------
\* The conjunction is inductive.
LEMMA MtxInvStep == ASSUME WithinLimit PROVE MtxInv /\ [MtxNext]_mtxVars => MtxInv'
<1> SUFFICES ASSUME MtxInv, [MtxNext]_mtxVars PROVE MtxInv'
  OBVIOUS
<1>1. CASE UNCHANGED mtxVars
  <2>1. PICK t \in UserTasks : TRUE
    BY TaskCountAssumption DEF UserTasks
  <2>2. RecomputeOK' /\ effective_priority' \in [UserTasks -> Nat]
    BY <1>1 DEF mtxVars, coreVars, MtxInv, RecomputeOK, CoreInv, CoreTypeOK
  <2>3. QuietStep(t)
    BY <1>1, <2>2 DEF mtxVars, coreVars, QuietStep, schedVars, listVars
  <2> QED BY <2>3, QuietKeepsInv
<1>2. CASE MtxTick \/ MtxSwitch
  BY <1>2, TickKeepsInv, SwitchKeepsInv
<1>3. ASSUME NEW t \in UserTasks, NEW m \in Mutexes, LockFree(t, m) \/ UnlockFree(t, m)
      PROVE  MtxInv'
  BY <1>3, LockFreeKeepsInv, UnlockFreeKeepsInv
<1>4. ASSUME NEW t \in UserTasks, NEW m \in Mutexes, NEW u \in UserTasks,
             UnlockHandOff(t, m, u)
      PROVE  MtxInv'
  BY <1>4, HandOffKeepsInv
<1>5. ASSUME NEW t \in UserTasks, NEW m \in Mutexes, NEW ticks \in Ticks,
             LockBlock(t, m, ticks)
      PROVE  MtxInv'
  BY <1>5, LockBlockKeepsInv
<1>6. ASSUME NEW t \in UserTasks, RecomputeStep(t)
      PROVE  MtxInv'
  BY <1>6, RecomputeQuiet, QuietKeepsInv, ReturnKeepsInv
<1>7. ASSUME NEW t \in UserTasks, NEW ticks \in Ticks, MtxDelay(t, ticks)
      PROVE  MtxInv'
  BY <1>7, DelayKeepsInv
<1> QED BY <1>1, <1>2, <1>3, <1>4, <1>5, <1>6, <1>7, MtxSteps

\* It holds in every reachable state.
THEOREM MtxInvariant == WithinLimit => (MtxSpec => []MtxInv)
<1> SUFFICES ASSUME WithinLimit PROVE MtxSpec => []MtxInv
  OBVIOUS
<1> QED BY MtxInitInv, MtxInvStep, PTL DEF MtxSpec

\* Every variable keeps its type: what a recompute loads and stores are priorities, and
\* the arrays hold mutexes of the application.
THEOREM MtxTypeCorrect == WithinLimit => (MtxSpec => []MtxTypeOK)
<1>1. MtxInv => MtxTypeOK
  BY DEF MtxInv, CoreInv, OwnershipInv, OwnTypeOK, RecomputeOK, MtxTypeOK
<1> QED BY <1>1, MtxInvariant, PTL

\* mtx->owner and the owned_mutexes[] of all tasks never disagree, in whatever order
\* mutexes are unlocked and handed over (os_mutex_lock, os_mutex_unlock).
THEOREM MtxOwnershipConsistent == WithinLimit => (MtxSpec => []OwnershipConsistent)
<1>1. MtxInv => OwnershipConsistent
  BY DEF MtxInv, OwnershipInv
<1> QED BY <1>1, MtxInvariant, PTL

\* A mutex with waiters has an owner, who is not one of them (os_mutex_unlock,
\* unblock_tasks).
THEOREM MtxWaitersHaveOwner == WithinLimit => (MtxSpec => []WaitersHaveOwner)
<1>1. MtxInv => WaitersHaveOwner
  BY DEF MtxInv
<1> QED BY <1>1, MtxInvariant, PTL

\* os_mutex_lock returns OS_OK to the tasks that own the mutex and OS_ERR_UNAVAILABLE
\* to those that do not, whatever races with their deadlines.
THEOREM MtxResultTellsOwnership == WithinLimit => (MtxSpec => []ResultTellsOwnership)
<1>1. MtxInv => ResultTellsOwnership
  BY DEF MtxInv
<1> QED BY <1>1, MtxInvariant, PTL

=============================================================================
