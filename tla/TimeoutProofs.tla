---------------------------- MODULE TimeoutProofs ----------------------------
(***************************************************************************)
(* Proofs about Timeouts: a block that recorded a deadline is over when    *)
(* the deadline comes, and not before, for every range of the tick         *)
(* counter, every set of tasks, waitlists and timeouts, and every          *)
(* interleaving of ticks, switches and calls.                              *)
(***************************************************************************)
EXTENDS Timeouts, KernelCoreProofs

\* The task waits for a deadline that os_task_delay or waitlist_block_current recorded.
Waiting(t) == current_state[t] = "BLOCKED" /\ wakeup_tick[t] # 0

\* The deadline is the tick that many ticks ahead, or, for a delay of 0 ticks, the one
\* at which it was asked for; in neither case the sentinel of the longest timeout.
DeadlineAhead ==
    \A t \in UserTasks : Waiting(t) =>
        /\ left[t] \in 1 .. OS_WAIT_FOREVER - 1
        /\ \/ wakeup_tick[t] = (systick_count + left[t]) % TickModulus
           \/ left[t] = 1 /\ wakeup_tick[t] = systick_count

LeftTypeOK == left \in [UserTasks -> 0 .. Forever]

TimeInv == CoreInv /\ LeftTypeOK /\ DeadlineAhead

\* What is left of a timeout is at most half the range of the counter.
WithinHalfRange == \A t \in UserTasks : Waiting(t) => left[t] <= TickModulus \div 2

\* The timeouts the application asks for are: the longest is OS_WAIT_FOREVER, which is none.
ShortTimeouts ==
    \A t \in UserTasks : \A ticks \in Delays[t] \cup WaitTicks[t] :
        ticks = OS_WAIT_FOREVER \/ ticks <= TickModulus \div 2

-----------------------------------------------------------------------------
\* The comparison of os_tick, (int32_t)(now - wakeup_tick) >= 0, at the next tick: true when
\* the deadline is that tick, and false before, for a timeout of at most half the range.
LEMMA ReachedWhenDue ==
    ASSUME NEW now \in Ticks, NEW ticks \in 1 .. OS_WAIT_FOREVER - 1, NEW tick \in Ticks,
           \/ tick = (now + ticks) % TickModulus
           \/ ticks = 1 /\ tick = now
    PROVE  LET next == (now + 1) % TickModulus
           IN  /\ ticks = 1 => Reached(tick, next)
               /\ ticks # 1 => tick = (next + (ticks - 1)) % TickModulus
               /\ Reached(tick, next) /\ ticks <= TickModulus \div 2 => ticks = 1
<1> DEFINE M == TickModulus
           next == (now + 1) % M
           half == M \div 2
<1>1. /\ M \in Nat /\ M > 2 /\ M = 2 * half /\ half \in Nat /\ half > 1
      /\ now \in Nat /\ now < M /\ ticks \in Nat /\ ticks >= 1 /\ ticks < M - 1
  BY TickAssumption DEF Ticks, OS_WAIT_FOREVER
<1>2. next = IF now + 1 < M THEN now + 1 ELSE 0
  BY <1>1
<1>3. (now + ticks) % M = IF now + ticks < M THEN now + ticks ELSE now + ticks - M
  BY <1>1
<1> HIDE DEF M, next, half
<1>4. ASSUME ticks = 1 PROVE (next - tick) % M \in {0, 1}
  <2>1. CASE tick = now
    <3>1. next - tick = 1 \/ next - tick = 1 - M
      BY <1>1, <1>2, <2>1
    <3> QED BY <1>1, <3>1
  <2>2. CASE tick # now
    <3>1. next - tick = 0
      BY <1>1, <1>2, <1>3, <1>4, <2>2 DEF M
    <3> QED BY <1>1, <3>1
  <2> QED BY <2>1, <2>2
<1>5. ASSUME ticks # 1 PROVE tick = (next + (ticks - 1)) % M
  <2>1. tick = (now + ticks) % M
    BY <1>5 DEF M
  <2>2. (next + (ticks - 1)) % M = IF next + (ticks - 1) < M THEN next + (ticks - 1)
                                   ELSE next + (ticks - 1) - M
    BY <1>1, <1>2
  <2> QED BY <1>1, <1>2, <1>3, <2>1, <2>2
<1>6. ASSUME ticks # 1, ticks <= half PROVE (next - tick) % M >= half
  <2>1. tick = IF now + ticks < M THEN now + ticks ELSE now + ticks - M
    BY <1>3, <1>6 DEF M
  <2>2. next - tick = 1 - ticks \/ next - tick = M + 1 - ticks
    BY <1>1, <1>2, <2>1
  <2>3. (next - tick) % M = M + 1 - ticks
    BY <1>1, <1>6, <2>2
  <2> QED BY <1>1, <1>6, <2>3
<1> QED
  BY <1>1, <1>4, <1>5, <1>6 DEF Reached, M, next, half

\* What a block records and counts down from.
LEMMA BlockAhead ==
    ASSUME systick_count \in Ticks, NEW ticks \in Ticks, Deadline(ticks) # 0
    PROVE  LET asked == IF ticks = OS_WAIT_FOREVER THEN Forever
                        ELSE IF ticks = 0 THEN 1 ELSE ticks
           IN  /\ ticks # OS_WAIT_FOREVER
               /\ asked \in 1 .. OS_WAIT_FOREVER - 1
               /\ \/ Deadline(ticks) = (systick_count + asked) % TickModulus
                  \/ asked = 1 /\ Deadline(ticks) = systick_count
<1>1. TickModulus \in Nat /\ TickModulus > 2 /\ ticks # OS_WAIT_FOREVER
  BY TickAssumption DEF Deadline
<1>2. Deadline(ticks) = (systick_count + ticks) % TickModulus
  BY <1>1 DEF Deadline
<1>3. CASE ticks = 0
  <2>1. (systick_count + 0) % TickModulus = systick_count
    BY <1>1 DEF Ticks
  <2>2. TickModulus > 3
    BY TickAssumption
  <2> QED BY <1>1, <1>2, <1>3, <2>1, <2>2 DEF OS_WAIT_FOREVER
<1>4. CASE ticks # 0
  BY <1>1, <1>2, <1>4 DEF OS_WAIT_FOREVER, Ticks
<1> QED BY <1>3, <1>4

\* What the deadlines mean is kept by every step that blocks nobody and lets no time pass.
LEMMA AheadUntouched ==
    ASSUME TimeInv, UNCHANGED <<systick_count, left>>,
           \A t \in UserTasks : Waiting(t)' => Waiting(t) /\ wakeup_tick'[t] = wakeup_tick[t]
    PROVE  LeftTypeOK' /\ DeadlineAhead' /\ (WithinHalfRange => WithinHalfRange')
BY DEF TimeInv, LeftTypeOK, DeadlineAhead, WithinHalfRange

\* The same for the steps that block their caller, Delay and Wait.
LEMMA AheadOfBlock ==
    ASSUME TimeInv, NEW t \in UserTasks, t = current_task, NEW ticks \in Ticks,
           NEW reason \in Reasons, BlockCurrent(ticks, reason), Ask(t, ticks)
    PROVE  /\ LeftTypeOK' /\ DeadlineAhead'
           /\ ticks = OS_WAIT_FOREVER \/ ticks <= TickModulus \div 2
                => (WithinHalfRange => WithinHalfRange')
<1> DEFINE asked == IF ticks = OS_WAIT_FOREVER THEN Forever ELSE IF ticks = 0 THEN 1 ELSE ticks
<1>1. /\ wakeup_tick' = [wakeup_tick EXCEPT ![t] = Deadline(ticks)]
      /\ left' = [left EXCEPT ![t] = asked] /\ systick_count' = systick_count
      /\ current_state' = [current_state EXCEPT ![t] = "BLOCKED"]
  BY DEF BlockCurrent, Ask
<1>2. /\ wakeup_tick \in [UserTasks -> Ticks] /\ systick_count \in Ticks
      /\ left \in [UserTasks -> 0 .. Forever] /\ DOMAIN current_state = Tasks
      /\ TickModulus \in Nat /\ TickModulus > 2 /\ 1 <= TickModulus \div 2
  BY TickAssumption DEF TimeInv, CoreInv, CoreTypeOK, LeftTypeOK
<1>3. asked \in 0 .. Forever
  BY <1>2 DEF Forever, Ticks
<1>4. \A u \in UserTasks : u # t => /\ left'[u] = left[u] /\ wakeup_tick'[u] = wakeup_tick[u]
                                    /\ Waiting(u)' <=> Waiting(u)
  BY <1>1, <1>2, IdleIsNoUserTask DEF Waiting
<1>5. left'[t] = asked /\ wakeup_tick'[t] = Deadline(ticks) /\ (Waiting(t)' => Deadline(ticks) # 0)
  BY <1>1, <1>2 DEF Waiting
<1>6. LeftTypeOK'
  BY <1>1, <1>2, <1>3 DEF LeftTypeOK
<1>7. Deadline(ticks) # 0 => /\ ticks # OS_WAIT_FOREVER
                             /\ asked \in 1 .. OS_WAIT_FOREVER - 1
                             /\ \/ Deadline(ticks) = (systick_count + asked) % TickModulus
                                \/ asked = 1 /\ Deadline(ticks) = systick_count
  BY <1>2, BlockAhead
<1> HIDE DEF asked
<1>8. DeadlineAhead'
  <2> SUFFICES ASSUME NEW u \in UserTasks, Waiting(u)'
               PROVE  /\ left'[u] \in 1 .. OS_WAIT_FOREVER - 1
                      /\ \/ wakeup_tick'[u] = (systick_count' + left'[u]) % TickModulus
                         \/ left'[u] = 1 /\ wakeup_tick'[u] = systick_count'
    BY DEF DeadlineAhead, OS_WAIT_FOREVER
  <2>1. CASE u = t
    BY <1>1, <1>5, <1>7, <2>1
  <2>2. CASE u # t
    BY <1>1, <1>4, <2>2 DEF TimeInv, DeadlineAhead
  <2> QED BY <2>1, <2>2
<1>9. ASSUME ticks = OS_WAIT_FOREVER \/ ticks <= TickModulus \div 2, WithinHalfRange
      PROVE  WithinHalfRange'
  <2>1. Deadline(ticks) # 0 => asked <= TickModulus \div 2
    BY <1>2, <1>7, <1>9 DEF asked
  <2> QED BY <1>4, <1>5, <2>1, <1>9 DEF WithinHalfRange
<1> QED BY <1>6, <1>8, <1>9

\* A tick wakes the tasks whose deadline it is, and brings the others one tick nearer.  When
\* the timeouts are within half the range it wakes no other task.
LEMMA AheadOfTick ==
    ASSUME TimeInv, Tick
    PROVE  /\ LeftTypeOK' /\ DeadlineAhead'
           /\ WithinHalfRange =>
                /\ WithinHalfRange'
                /\ \A t \in UserTasks :
                      current_state[t] = "BLOCKED" /\ current_state'[t] = "READY"
                        => left'[t] = 0
<1> DEFINE next == (systick_count + 1) % TickModulus
<1>1. /\ systick_count' = next /\ unblock_tasks(Expired(next))
      /\ left' = [t \in UserTasks |-> IF current_state[t] = "BLOCKED" /\ left[t] \in 1 .. Forever - 1
                                      THEN left[t] - 1 ELSE left[t]]
  BY DEF Tick, os_tick
<1>2. /\ wakeup_tick \in [UserTasks -> Ticks] /\ systick_count \in Ticks
      /\ left \in [UserTasks -> 0 .. Forever]
      /\ TickModulus \in Nat /\ TickModulus > 2
  BY TickAssumption DEF TimeInv, CoreInv, CoreTypeOK, LeftTypeOK
<1>3. \A t \in UserTasks :
         /\ current_state'[t] = IF t \in Expired(next) THEN "READY" ELSE current_state[t]
         /\ wakeup_tick'[t] = IF t \in Expired(next) THEN 0 ELSE wakeup_tick[t]
  BY <1>1, IdleIsNoUserTask DEF unblock_tasks
<1>4. \A t \in UserTasks : t \in Expired(next) <=> Waiting(t) /\ Reached(wakeup_tick[t], next)
  BY DEF Expired, Waiting
<1>5. \A t \in UserTasks : Waiting(t)' => Waiting(t) /\ t \notin Expired(next)
  BY <1>3 DEF Waiting
<1>6. ASSUME NEW t \in UserTasks, Waiting(t)
      PROVE  /\ left[t] \in 1 .. OS_WAIT_FOREVER - 1 /\ left'[t] = left[t] - 1
             /\ left[t] = 1 => Reached(wakeup_tick[t], next)
             /\ left[t] # 1 => wakeup_tick[t] = (next + left'[t]) % TickModulus
             /\ Reached(wakeup_tick[t], next) /\ left[t] <= TickModulus \div 2 => left[t] = 1
  <2>1. /\ left[t] \in 1 .. OS_WAIT_FOREVER - 1
        /\ \/ wakeup_tick[t] = (systick_count + left[t]) % TickModulus
           \/ left[t] = 1 /\ wakeup_tick[t] = systick_count
    BY <1>6 DEF TimeInv, DeadlineAhead
  <2>2. left'[t] = left[t] - 1
    BY <1>1, <1>2, <1>6, <2>1 DEF Waiting, Forever, OS_WAIT_FOREVER
  <2>3. wakeup_tick[t] \in Ticks
    BY <1>2
  <2> QED BY <1>2, <2>1, <2>2, <2>3, ReachedWhenDue
<1> HIDE DEF next
<1>7. LeftTypeOK'
  BY <1>1, <1>2 DEF LeftTypeOK, Forever
<1>8. ASSUME NEW t \in UserTasks, Waiting(t)'
      PROVE  /\ left'[t] \in 1 .. OS_WAIT_FOREVER - 1 /\ left'[t] <= left[t]
             /\ wakeup_tick'[t] = (systick_count' + left'[t]) % TickModulus
  <2>1. Waiting(t) /\ ~Reached(wakeup_tick[t], next) /\ wakeup_tick'[t] = wakeup_tick[t]
    BY <1>3, <1>4, <1>5, <1>8
  <2>2. left[t] \in 1 .. OS_WAIT_FOREVER - 1 /\ left'[t] = left[t] - 1 /\ left[t] # 1
        /\ wakeup_tick[t] = (next + left'[t]) % TickModulus
    BY <1>6, <2>1
  <2>3. OS_WAIT_FOREVER - 1 \in Int
    BY <1>2 DEF OS_WAIT_FOREVER
  <2> QED BY <1>1, <2>1, <2>2, <2>3
<1>9. DeadlineAhead'
  BY <1>8 DEF DeadlineAhead, OS_WAIT_FOREVER
<1>10. ASSUME WithinHalfRange
       PROVE  /\ WithinHalfRange'
              /\ \A t \in UserTasks :
                    current_state[t] = "BLOCKED" /\ current_state'[t] = "READY"
                      => left'[t] = 0
  <2>1. WithinHalfRange'
    <3> SUFFICES ASSUME NEW t \in UserTasks, Waiting(t)' PROVE left'[t] <= TickModulus \div 2
      BY DEF WithinHalfRange
    <3>1. left[t] <= TickModulus \div 2
      BY <1>5, <1>10 DEF WithinHalfRange
    <3> QED BY <1>2, <1>8, <3>1 DEF OS_WAIT_FOREVER
  <2>2. ASSUME NEW t \in UserTasks, current_state[t] = "BLOCKED", current_state'[t] = "READY"
        PROVE  left'[t] = 0
    <3>1. Waiting(t) /\ Reached(wakeup_tick[t], next)
      BY <1>3, <1>4, <2>2
    <3>2. left[t] = 1
      BY <1>6, <1>10, <3>1 DEF WithinHalfRange
    <3> QED BY <1>6, <3>1, <3>2
  <2> QED BY <2>1, <2>2
<1> QED BY <1>7, <1>9, <1>10

-----------------------------------------------------------------------------
\* A step but the tick wakes nobody when the counter moves, as it does not move.
LEMMA TimeStep ==
    ASSUME TimeInv, [TimeNext]_timeVars
    PROVE  /\ TimeInv'
           /\ ShortTimeouts /\ WithinHalfRange =>
                /\ WithinHalfRange'
                /\ \A t \in UserTasks :
                      /\ systick_count' # systick_count
                      /\ current_state[t] = "BLOCKED" /\ current_state'[t] = "READY"
                      => left'[t] = 0
<1> USE DEF TimeInv
<1>1. CASE Tick
  <2>1. CoreInv'
    BY <1>1, TickKeepsCore DEF Tick
  <2> QED BY <1>1, <2>1, AheadOfTick
<1>2. CASE Switch
  <2>1. CoreInv' /\ PendSV_Handler
    BY <1>2, SwitchKeepsCore DEF Switch
  <2>2. \A t \in UserTasks : Waiting(t)' => Waiting(t) /\ wakeup_tick'[t] = wakeup_tick[t]
    <3>1. PICK next \in Tasks :
             current_state' = [RunningToReady EXCEPT ![next] = "RUNNING"]
      BY <2>1 DEF PendSV_Handler, os_schedule_next_task
    <3>2. \A t \in UserTasks : current_state'[t] = "BLOCKED" => current_state[t] = "BLOCKED"
      BY <3>1, IdleIsNoUserTask DEF RunningToReady, CoreInv, CoreTypeOK
    <3> QED BY <2>1, <3>2 DEF PendSV_Handler, Waiting
  <2>3. UNCHANGED <<systick_count, left>>
    BY <1>2, <2>1 DEF Switch, PendSV_Handler
  <2> QED BY <2>1, <2>2, <2>3, AheadUntouched
<1>3. ASSUME NEW t \in UserTasks, NEW ticks \in Delays[t], Delay(t, ticks)
      PROVE  /\ TimeInv' /\ systick_count' = systick_count
             /\ ShortTimeouts /\ WithinHalfRange => WithinHalfRange'
  <2>1. ticks \in Ticks
    BY DelaysAssumption
  <2>2. /\ os_task_delay(t, ticks) /\ BlockCurrent(ticks, "DELAY") /\ t = current_task
        /\ Ask(t, ticks) /\ "DELAY" \in Reasons
    BY <1>3 DEF Delay, os_task_delay, InApplication, OnCpu, Reasons
  <2>3. CoreInv'
    BY <2>1, <2>2, DelayKeepsCore
  <2>4. systick_count' = systick_count
    BY <2>2 DEF BlockCurrent
  <2>5. ShortTimeouts => ticks = OS_WAIT_FOREVER \/ ticks <= TickModulus \div 2
    BY DEF ShortTimeouts
  <2> QED BY <2>1, <2>2, <2>3, <2>4, <2>5, AheadOfBlock
<1>4. ASSUME NEW t \in UserTasks, NEW w \in Waitlists, NEW ticks \in WaitTicks[t],
             Wait(t, w, ticks)
      PROVE  /\ TimeInv' /\ systick_count' = systick_count
             /\ ShortTimeouts /\ WithinHalfRange => WithinHalfRange'
  <2>1. ticks \in Ticks
    BY WaitTicksAssumption
  <2>2. /\ OnCpu(t) /\ waitlist_block_current(w, ticks, "SEM") /\ BlockCurrent(ticks, "SEM")
        /\ t = current_task /\ Ask(t, ticks) /\ UNCHANGED effective_priority
    BY <1>4 DEF Wait, InApplication, OnCpu, waitlist_block_current
  <2>3. "SEM" \in Reasons \ {"NONE"} /\ blocked_waitlist[t] = NULL
        /\ effective_priority' \in [UserTasks -> Nat]
    BY <2>2, RunningIsInNoList DEF Reasons, CoreInv, CoreTypeOK
  <2>4. CoreInv'
    BY <2>1, <2>2, <2>3, BlockKeepsCore
  <2>5. systick_count' = systick_count
    BY <2>2 DEF BlockCurrent
  <2>6. ShortTimeouts => ticks = OS_WAIT_FOREVER \/ ticks <= TickModulus \div 2
    BY DEF ShortTimeouts
  <2> QED BY <2>1, <2>2, <2>3, <2>4, <2>5, <2>6, AheadOfBlock
<1>5. ASSUME NEW t \in UserTasks, NEW w \in Waitlists, Release(t, w)
      PROVE  /\ TimeInv' /\ systick_count' = systick_count
             /\ WithinHalfRange => WithinHalfRange'
  <2>1. PICK u \in UserTasks : waitlist_unblock(w, u)
    BY <1>5 DEF Release
  <2>2. CoreInv'
    BY <1>5, <2>1, UnblockKeepsCore DEF Release, CoreInv, CoreTypeOK
  <2>3. \A v \in UserTasks : Waiting(v)' => Waiting(v) /\ wakeup_tick'[v] = wakeup_tick[v]
    <3>1. /\ wakeup_tick' = [wakeup_tick EXCEPT ![u] = 0]
          /\ current_state' = [current_state EXCEPT ![u] = "READY"]
      BY <2>1 DEF waitlist_unblock
    <3> QED BY <3>1, IdleIsNoUserTask DEF Waiting, CoreInv, CoreTypeOK
  <2>4. UNCHANGED <<systick_count, left>>
    BY <1>5 DEF Release
  <2> QED BY <2>2, <2>3, <2>4, AheadUntouched
<1>6. ASSUME NEW t \in UserTasks, NEW w \in Waitlists, Return(t, w)
      PROVE  /\ TimeInv' /\ systick_count' = systick_count
             /\ WithinHalfRange => WithinHalfRange'
  <2>1. blocked_waitlist[t] = NULL
    BY <1>6, RunningIsInNoList DEF Return
  <2>2. CoreInv'
    BY <1>6, <2>1
    DEF Return, CoreInv, CoreTypeOK, TCBMatchesWaitlists, ProcessorConsistent, ReadyTasks,
        schedVars, listVars
  <2>3. \A v \in UserTasks : Waiting(v)' => Waiting(v) /\ wakeup_tick'[v] = wakeup_tick[v]
    BY <1>6 DEF Return, Waiting, schedVars
  <2>4. UNCHANGED <<systick_count, left>>
    BY <1>6 DEF Return
  <2> QED BY <2>2, <2>3, <2>4, AheadUntouched
<1>7. CASE UNCHANGED timeVars
  <2>1. CoreInv'
    BY <1>7
    DEF timeVars, coreVars, CoreInv, CoreTypeOK, TCBMatchesWaitlists, ProcessorConsistent
  <2>2. UNCHANGED <<systick_count, left>> /\ \A t \in UserTasks : Waiting(t)' => Waiting(t) /\ wakeup_tick'[t] = wakeup_tick[t]
    BY <1>7 DEF timeVars, coreVars, Waiting
  <2> QED BY <2>1, <2>2, AheadUntouched
<1> QED BY <1>1, <1>2, <1>3, <1>4, <1>5, <1>6, <1>7 DEF TimeNext, TimeTaskStep

\* The invariant holds before the first tick, when nothing is blocked.
LEMMA TimeStart == TimeInit => TimeInv /\ WithinHalfRange
<1> SUFFICES ASSUME TimeInit PROVE TimeInv /\ WithinHalfRange
  OBVIOUS
<1>1. CoreInv
  BY InitCore DEF TimeInit
<1>2. LeftTypeOK
  BY TickAssumption DEF TimeInit, LeftTypeOK, Forever
<1>3. \A t \in UserTasks : ~Waiting(t)
  BY DEF TimeInit, CoreInit, Waiting
<1> QED BY <1>1, <1>2, <1>3 DEF TimeInv, DeadlineAhead, WithinHalfRange

\* A block that recorded a deadline has not outlived it: os_tick has ended it at the latest
\* when the counter reached it, across every wrap-around, whatever the timeout.
THEOREM TimeDeadlinesEndBlocks == TimeSpec => []NotLateOnceRecorded
<1>1. TimeInv => NotLateOnceRecorded
  BY TickAssumption
  DEF TimeInv, DeadlineAhead, NotLateOnceRecorded, Waiting, OS_WAIT_FOREVER
<1> QED BY <1>1, TimeStart, TimeStep, PTL DEF TimeSpec

\* No tick ends a block before its deadline, provided the timeouts are at most half the
\* range of the counter: the comparison of os_tick takes a longer one for one in the past.
THEOREM TimeNeverEarly == ShortTimeouts => (TimeSpec => NeverEarly)
<1> SUFFICES ASSUME ShortTimeouts PROVE TimeSpec => NeverEarly
  OBVIOUS
<1> DEFINE Inv == TimeInv /\ WithinHalfRange
           NotEarly == \A t \in UserTasks :
                          /\ systick_count' # systick_count
                          /\ current_state[t] = "BLOCKED" /\ current_state'[t] = "READY"
                          => left'[t] = 0
<1>1. TimeInit => Inv
  BY TimeStart
<1>2. Inv /\ [TimeNext]_timeVars => Inv' /\ NotEarly
  BY TimeStep
<1> QED BY <1>1, <1>2, PTL DEF TimeSpec, NeverEarly

=============================================================================
