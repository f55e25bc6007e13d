# KoRTOS in TLA+

A verification project for KoRTOS, a preemptive real-time kernel for the Cortex-M4
with semaphores, mutexes with priority inheritance and message queues, and a
hardware abstraction layer (HAL) for the STM32F446. The modules translate the C code
of `src/`; TLC checks them on small instances, TLAPS proves the main results for all
instances.

## The system

| Part | State | Operations |
|------|-------|------------|
| Task table and scheduler (`kernel/kernel.c`) | `user_tasks[]` (state, two priorities, deadline, block reason, waitlist, owned mutexes, timeout flag), `task_count`, `current_task`, `systick_count` | `os_task_create`, `os_kernel_start`, `os_task_delay`, `os_tick`, `os_schedule_next_task` |
| Waitlists (`kernel.c`) | `task_waitlist[]`, `wait_count`, policy | block the current task, unblock one by policy, remove one by its deadline |
| Semaphores | `count`, one waitlist | wait, post |
| Mutexes | `owner`, `state`, one waitlist | lock, unlock; donate and recompute priorities |
| Message queues | ring buffer, `count`, `head`, `tail`, two waitlists, `dropped_count` | send and receive, from tasks and from interrupts |
| Port (`port/arm/cortex_m4`) | PRIMASK, PendSV pending, PSP/MSP, the saved contexts | enter/exit critical, yield, `SysTick_Handler`, `PendSV_Handler` |
| USART, SPI, I2C (`kortos_hal/STM32F446xx`) | a handle each: buffers, lengths, busy state; the control, status and data registers | blocking and interrupt transfers, IRQ handlers with callbacks, settings |
| CAN (`CAN.c`) | controller mode, three mailboxes with the flags of TSR, two FIFOs, filters | initialisation, transmit and receive by polling or interrupt, handlers |
| GPIO (`GPIO.c`) | port registers, SYSCFG and EXTI | pin configuration, outputs, external interrupts |
| Clocks, resets, interrupt lines (`STM32F446xx.h`, `rcc.c`, `bsp/startup.c`) | RCC enables, NVIC enables, vector table | clock control, deinit, IRQ configuration, bus clocks |
| Rest of board support (`bsp`), configuration (`config`) | none over time | reset, section copying, system calls |
| Sample applications (`sample_apps`) | - | scenarios over the kernel and the HAL |

How they interact. Tasks call the primitives; every call is one critical section
(PRIMASK), except that a blocking call leaves it inside `waitlist_block_current`, is
switched away from, and goes on later with interrupts enabled. Blocking, waking and
every tick pend PendSV, which runs once nothing else is active, calls
`os_schedule_next_task` and exchanges contexts. A waiting task is referred to from two
sides: by the TCB (`blocked_waitlist`) and by the waitlist's array. It leaves the
list through a release or through its deadline, and learns which from its `timeout`
flag only when it runs again. Interrupt handlers use the same queues. Drivers report
completion through weak callbacks from their IRQ handlers, from which applications
call the kernel.

What is hard: a release and a deadline that end the same wait; everything that
happens between the wake-up of a task and its running; priorities that follow
chains of owners while those chains change; the one piece of shared-state code that
runs outside a critical section (the recompute of `os_mutex_lock`); interrupts
between any two steps of the switch; the wrap-around of the tick counter; in the
drivers, registers that a task and a handler both change by read-modify-write, flags
that reading or writing another register clears, and a bus that goes on while the
handler looks at it. The `hazards` of PROJECT.json list each at its line.

What makes each part correct: TCBs and waitlists agree; the best ready task
runs; peers take turns; contexts are never mixed up; blocks end when they
should, never before; permits are neither lost nor made up; a mutex has one owner
that both records name, owners have the priority of their waiters and lose it with
the mutex; a queue is a bounded FIFO whatever is rechecked, and loses no wake-up. A
driver moves the words of a buffer in order, each once, reports the transfer once and
leaves no interrupt that is taken for ever; registers hold what was last asked for, whatever
was asked of a neighbour.

## The modules

| Module | Models |
|--------|--------|
| `KernelCore` | the task table, waitlists, delay, tick and switch, extended by the primitives |
| `Semaphore`, `AbstractSemaphore` | `os_sem_*`; what callers are promised |
| `Mutex` | `os_mutex_*`, donation and recompute |
| `MessageQueue`, `BoundedFifo` | `os_queue_*`; what callers are promised |
| `Scheduler` | `PendSV_Handler` and `os_schedule_next_task` step by step |
| `Timeouts` | delays and timed waits against the ticks that were asked for |
| `Transfer` | what callers of the USART, SPI and I2C drivers are promised of a transfer |
| `UsartDriver`, `SpiDriver`, `I2cDriver` | the transfers of `USART.c`, `SPI.c`, `I2C.c`, branch by branch, with the peripheral and the line |
| `CanDriver` | `CAN.c` with one controller |
| `DriverSettings` | `USART_init`, `I2C_init`, `SPI_init` and the bus clocks of `rcc.c` |
| `Peripherals` | clocks, resets and interrupt lines of every driver, the vector table |
| `Gpio` | pins, outputs and external interrupts of `GPIO.c` |
| `KernelCoreProofs`, `SemaphoreProofs`, `MutexProofs`, `MutexPriorityProofs`, `MessageQueueProofs`, `SchedulerProofs`, `TimeoutProofs`, `DriverProofs` | the theorems |
| `MC*` | the constants of the runs |

**Steps.** In `KernelCore` and the primitives one step is one critical section, and
the switch is one step. `OnCpu(t)` is thread-mode execution: `t` is the current
task and no PendSV waits, because PendSV is taken as soon as PRIMASK is cleared and
no handler is active. A tick can come between any two steps. `Scheduler` opens the
switch up: interrupts fall between saving, scanning, dispatching and loading, and the
run shows that the switch as a whole still does what `KernelCore` says it does.

**Calls on the stack.** `in_call[t]` stands for the stack frame of a blocked call:
the waitlist it blocked on, kept until the call returns. A call that does not block
is one step and leaves no trace in it. A call that only returns an error changes
nothing and is a stuttering step, so it has no action.

**Waitlists.** The array is kept as a set and, for each entry, the set of entries
at lower indexes. Index `j` of the code is the entry with `j` others ahead of it.
`WaitlistsAreArrays` is proved of every primitive: the indexes below `wait_count` hold one
entry each and no entry is there twice. `OS_ERR_WAITLIST_FULL` never happens: only user tasks
block in the models, and there are fewer than `OS_MAX_TASKS` of them; so the append has no guard.

**Priorities and ticks.** Priorities are numbers, lower is better. `systick_count`
and `wakeup_tick` are numbers modulo `TickModulus`, 2^32 in the code;
`OS_WAIT_FOREVER` is the largest of them and `wakeup_tick` 0 means no deadline.

**The recompute.** `os_mutex_lock` recomputes the owner's priority after its
wake-up with interrupts enabled. `Mutex` gives each task the locals of
`mutex_recompute_owner_priority` and makes the loop checks, the load of a mutex, the two
loads of an entry's priority (the build is `-O0`, so the comparison and the assignment
each load it), the store and the move to the next owner steps of their own. The loads of
an entry's pointer and of the byte it points to are one step, and so are those of a
target's `block_reason` and waitlist. `FlashBytes` is what a load through a NULL entry may find:
address 0 is readable on this part and holds the vector table.

**Driver steps.** A driver module has the handle (`uTxState` is `Tx_state`), the
bits of the registers its code looks at, the peripheral as an environment, and history
variables that only the properties read. The prefix of a variable says whose it is. A
blocking call is one step per word; an interrupt call is its preparation, then one load and one
store for each `CR1 |= ...` or `CR2 |= ...`. A handler is one step per branch and one per
callback, in the order of the code; the line may move between any two of them. A task
goes on only when no handler runs and no interrupt is pending (`TaskRuns`), as
handlers preempt it. Words are numbered in the order of the buffer or of their
arrival, so that a lost, repeated or swapped one shows. Callbacks do what hal.md and the samples
allow: nothing, or start the next transfer. A call that finds the driver busy changes
nothing and has no action; no call is made with a length of 0.

* USART: `SR &= ~TC` (USART.c:474) and `SR &= ~CTS` (:619) are a load and a store each. The store
  clears RXNE, TC and CTS where they were not set at the load (`StoreSR`): a word that arrives in
  between is lost (`uLost`), and so may be the TC of a transmission, which then never ends
  (`EndMissed`). The branches for ORE, IDLE and the errors read DR and lose the word in it.
* SPI: every word shifted out brings one in, so a transmission overruns the receiver; the
  driver leaves an overrun during a transmission to the callback.
* I2C: START, address, data and STOP as the bus does them, a slave that may refuse its address
  or any byte, BTF and the two-stage receive register. `I2C_ER_IRQ_handling` with AF, and
  the callback that closes the transfer, are one step.
* CAN: the steps of `CAN_init` with the controller's acknowledgements and the timeouts, the three
  mailboxes, TSR's flags that a write of 1 clears, the FIFOs of three.
* Settings: registers are sets of bit names and numbers; the properties compare them with
  the formulas of the reference manual, written independently of the code's.
* `Peripherals` keeps the tables of `STM32F446xx.h` and `startup.c` entry by entry, beside the
  device's own addresses, and the calls as they are: one for GPIOG does nothing, a write at a
  wrong address or to a peripheral without its clock is lost, a disable takes the enabled lines of its word
  along (`pTaken`). `PeripheralsAsAsked` and `LinesAsAsked` are equalities: they say what is as
  it was asked for and name every exception, so that any further one violates them. `Gpio` keeps
  registers as sets of bit positions, so that a wrong shift or mask hits a neighbour.

**Faults.** An operator whose name is another's with a suffix, under the comment
"Fault:", is not used by the specification. It is a plausible bug in the operator
below it, and shows which property would catch it.

## The runs

All passing runs explore their state space completely. A property that several modules share
runs where its instance is richest (`HighestPriorityRuns` in `queue`, `TurnComesCloser` and
`NoOvertaking` in `semaphore`); the theorems state it of each of them. The type invariants of
`Semaphore` and `Mutex` are theorems only. `MCTransfers` and `MCDevices` put modules
that share no state side by side: the initial state chooses the one that runs, so the
state space is the sum of theirs.

| Run | Instance | Shows |
|-----|----------|-------|
| `semaphore` | 3 tasks, 2 of one priority; a FIFO and a PRIORITY semaphore; timeouts 1 and forever; modulus 4 | TCBs and lists agree, no permit is counted while a task waits, `AbstractSemaphore` is implemented, each switch brings a ready task closer to its turn, nobody is overtaken in a list |
| `mutex_forever` | 4 tasks of 4 priorities, 2 mutexes, no deadlines | boosts end with the mutexes, no task falls below its base priority |
| `mutex_timeouts` | 3 tasks, task 1's waits time out | ownership is consistent, results tell it, only the store of a recompute costs an inheritance or leaves a better task ready |
| `mutex_boost_leak`, `mutex_stale_recompute` | as above, small changes | the findings below |
| `queue` | 2 slots, 3 tasks that send and receive, an interrupt handler that does both | `BoundedFifo` is implemented, no lost wake-up, deadlines survive rechecks, the best task runs |
| `scheduler` | 4 tasks, 3 on the top level | the best task runs, the scan is round robin, contexts stay intact, the top level takes turns |
| `scheduler_peers` | 3 tasks, 2 on the lower level | the finding below |
| `timeouts` | 2 tasks, 1 list, modulus 8 | never early, never late once recorded, recorded blocks end |
| `timeouts_sentinel` | the same | the finding below |
| `driver_transfers` | one of `UsartDriver`, `SpiDriver`, `I2cDriver` per behaviour; transfers of 2 words, 1 and 2 for SPI, 1 to 3 bytes for I2C | `Transfer` is implemented, transfers end, an overrun is cleared, the last I2C byte is refused |
| `driver_devices` | one of `CanDriver`, `DriverSettings`, `Peripherals`, `Gpio` per behaviour | CAN runs as configured, reports each completion, delivers frames in order; clocks and lines are as asked but for the exceptions the properties name, settings and pins are as asked |

**Bounds and why they are enough.** Three user tasks give one on the processor, one
that waits and one in between, chains of two owners, cycles of two, and a waitlist
of two on which policies differ; four tasks in `scheduler` give a middle index among
three peers, and in `mutex_forever` a waitlist whose entries are replaced while an owner and its
recompute are preempted. Two mutexes are the least for chains and out-of-order unlocks. Two slots
tell a full from an empty ring and wrap around. `TickModulus` 4 and 8 wrap all the
time and leave room for timeouts below half the range. `MaxCount` bounds the posts
nobody waits for, `LockLimit` the mutexes a task asks for while it owns others
(2, the size of `owned_mutexes[]` in these instances), `MaxDropped` the counted drops. `Uses` says which task locks which mutex and cuts
symmetric cases. Counters that the code does not bound are bounded only there.

In `driver_transfers` two words have a first and a last one and three I2C bytes one in between
(the handler treats the last two apart); `UsartWordBytes` and `SpiWordBytes` are 2, which
lengths must count right. `UsartMaxBurst` 2 is two line events per visit of the handler, which
is fast against a line and lets a word fall between the load and the store of `SR &= ~CTS`. The line
shows framing errors and changes of CTS; the IDLE branch, which drops a word as the error branches do, is
left to the theorems, which hold for any flags, enables and bursts. The runs stop at the first store of a task that overwrites what the
handler stored between its load and that store (`uClobbered`, `sClobbered`, `iClobbered`):
what follows is listed below. `I2cPrompt` says that the handler keeps up with the bus,
`I2cSendAfterRS` that the application does not send after a send that kept the bus. In
`driver_devices`: two frames over two FIFOs; every mailbox; completions served before the next
one (`CanPrompt`) and no polling calls with the lines enabled (`CanMixed`); two peripherals or lines
per behaviour, any two of all there are, which is what a table entry or a shift could confuse; three clock trees, all
frames, and six bauds, which are those of hal.md's ends and middle, some of them without a divider on the
slow clocks, and one (336000) whose fraction carries; three pins (one per half of AFR, one shared by two ports) with six
configurations; two tasks that write one port each (`GShared`). Each of these switches stands for
a limit of the code below, and setting it the other way makes TLC show it.

**Deadlock** is checked in the kernel's runs; the tick is always enabled, so it says
little. It is off in the two driver runs, where a behaviour may stop: after an
overwritten store, in `Default_Handler`, or with a blocking I2C call that was refused.

**Fairness.** Safety runs assume none. `FairSchedSpec` assumes that interrupts keep
coming (SysTick is a hardware timer) and that a pending or active PendSV makes
progress (it runs whenever no interrupt does). Nothing is assumed of tasks: they may
run for ever or block. `FairTimeSpec` assumes only the timer. `scheduler_peers`
assumes in its property that the peer keeps being dispatched. In the drivers, the handler
is weakly fair (the NVIC enters it as long as its request stands), the line and shifter are weakly fair
(clocked by the peripheral; the I2C bus strongly, as `I2cPrompt` makes it wait for the handler), and
a task's step in a call is strongly fair, because it runs in the gaps between
interrupts. No call has to be made, and no line has to bring a word.

## The findings

* `mutex_boost_leak` (kernel.c:288). H waits on a mutex of L with a timeout and
  boosts L; the timeout expires, and before H runs L unlocks. There is no waiter any
  more, so the branch skips the recompute ("its priority was not boosted"), and H's
  own recompute starts from owner NULL. L keeps H's priority until some later
  recompute that concerns L.
* `mutex_stale_recompute` (kernel.c:777). The recompute after a wake-up is
  preempted between its scan and its store; another task blocks on the same mutex and
  donates; the store puts the old maximum back. The owner runs below its waiter,
  which is the inversion inheritance exists to prevent.
* `scheduler_peers` (kernel.c:519). The scan starts after the last running task, of
  whatever level. When a task of a better level with a lower index preempts the first of two
  peers each time, the next scan meets the first peer first again. The peers
  of the top level do take turns (`TopTasksTakeTurns`).
* `timeouts_sentinel` (kernel.c:82, 642). A deadline that falls on tick 0 reads as
  "no deadline": once every 2^32 ticks, and for `os_task_delay(0)` in the first tick.

**Limits of the code** that the models show, or that reading it for them did, and no run records.

*Kernel.* The 256th unclaimed
post makes `count` zero (kernel.c:157; `CountModulus`, and the hypothesis
`MaxCount < CountModulus` of `SemPermitsConserved`); a timeout of more than 2^31 ticks
ends at the next tick (kernel.c:585). The recompute loads
`task_waitlist[j]->effective_priority` twice (kernel.c:769 and 771): a deadline in between removes the
entry, a task of worse priority takes its place, and the owner ends below its own base
priority; with no successor the entry is NULL. `NeverBelowBase` is therefore checked with
endless waits, and TLC violates it with timeouts and four tasks. Nothing checks
`OS_MAX_MTX_PER_TASK` (kernel.c:184, 271): one mutex more is stored past `owned_mutexes[]`.
After a wake-up the recompute can lower the
running task's own priority below that of a ready one without a yield, so with mutexes
`HighestPriorityRuns` can fail until the next tick. It is checked and proved for the other
primitives; of mutexes it is proved that nothing but this store breaks it (`BestRunsUnlessStored`); the target of a recompute may be woken and block on a semaphore between the
check of its `block_reason` and the load of its waitlist (kernel.c:781-782), which the
models load together.

*Clocks and interrupt lines.* `ICER[w] |= bit` (GPIO.c:294, SPI.c:319, I2C.c:400, USART.c:435, CAN.c:224) reads the enabled lines of the
word and disables them all. The numbers of CAN2's lines (72 to 75) are I2C3's and two others, and
`vectors[]` has CAN2 at 63 to 66. The base addresses of GPIOF to GPIOH (STM32F446xx.h:36) are not the device's, and GPIOG has no
branch in the clock and reset chains (GPIO.c:16, 185). These calls are in the model and in the run: `LinesAsAsked` and
`PeripheralsAsAsked` hold with these exceptions written out, and with no others.

*GPIO.* `PR |= bit` (GPIO.c:322) clears every pending line, so an edge served later is
lost (`GPrompt`). A line given a second port ors its code into the first's, and a pin
configured as plain again keeps its line enabled (`GKeep`). Outputs of one port written by two
tasks are lost (GPIO.c:277, `GShared`).

*CAN.* `TSR |= RQCPm` (CAN.c:274) clears the completions of the other mailboxes, which are then not
reported (`CanPrompt`); a polling call with the lines enabled has its completion taken by the
handler and returns an error (`CanMixed`); one that times out leaves its mailbox pending.
Two callers can find the same mailbox free (CAN.c:467), so the caller brings the mutex.

*USART.* Lengths of 0, and odd ones with nine bits, run past the buffer (USART.c:509).
`USART_init` never clears RE, TE and the flow control bits (`XUsartAgain`) and does not enable
the clock. The dividers of bauds above pclk / 16 are too small for the USART to run (921600 on a 250 kHz clock gives
BRR 0), and a fraction that rounds up to a sixteenth more than there are does not carry into the mantissa; a baud of hal.md's range
(1200 to 3M) has the right divider just when neither is the case (`BaudFits`, and `SettingsAsAsked` for both directions).
It writes the STOP codes of 1.5 and 2 stop bits the wrong way round (USART.c:151-158: 2 and 3;
USART.h:64-65 and the device have 3 and 2): the run and the proof show that each makes the other (`StopsMade`).
With CTS interrupts, `SR &= ~CTS` (USART.c:619) may clear the TC of a transmission or the RXNE of a word.
`USART_close_send` and `USART_close_receive` are declared (USART.h:145) and not defined.
A task that changes CR1 or CR2 while the handler does loses the handler's change.

*SPI.* An overrun between the state's and the enable's store (SPI.c:266, 269) is never cleared unless the
callback does it (`SpiCallbackClears`).

*I2C.* A send right after one that kept the bus is completed by the BTF of the previous one
(`I2cSendAfterRS`). A handler slower than a byte leaves ACK on for one byte too many
(`I2cPrompt`). Blocking calls wait for ever on a refused address and do not look at
`TxRxstate`; lost arbitration and bus errors leave the driver busy. TRISE in fast mode
overflows above 14.3 MHz. CCR has 12 bits, which bus speeds below about 2 kHz overflow. The PLL is not supported as a clock source.

## The proofs

Proved by TLAPS from the assumptions on the constants that the modules name, for any number
of tasks, waitlists, semaphores, slots and ticks, any priorities, policies, timeouts and
lengths of transfers:

| Theorems | Module | Hypotheses |
|----------|--------|------------|
| `SemTypeCorrect`, `SemTCBsMatchWaitlists`, `SemNoIdlePermit`, `SemHighestPriorityRuns`, `SemTurnComesCloser`, `SemNoOvertaking`, `SemWaitlistsAreArrays` | `SemaphoreProofs` | none |
| `SemPermitsConserved`: `Semaphore` implements `AbstractSemaphore` | `SemaphoreProofs` | `MaxCount < CountModulus` |
| `MtxTypeCorrect`, `MtxOwnershipConsistent`, `MtxWaitersHaveOwner`, `MtxResultTellsOwnership` | `MutexProofs` | `LockLimit <= OS_MAX_MTX_PER_TASK` |
| `MtxInheritanceKept`, `MtxBestRunsUnlessStored`, `MtxInversionBounded`, `MtxTurnComesCloser`, `MtxNoOvertaking`, `MtxWaitlistsAreArrays` | `MutexPriorityProofs` | `LockLimit <= OS_MAX_MTX_PER_TASK` |
| `MtxNeverBelowBase`, `MtxBoostEnds` | `MutexPriorityProofs` | the same, and no lock has a deadline (`NoDeadlines`) |
| `QueueTypeCorrect`, `QueueHighestPriorityRuns`, `QueueNoLostWakeup`, `QueueDeadlineKept`, `QueueIsBoundedFifo`: `MessageQueue` implements `BoundedFifo`; `QueueTurnComesCloser`, `QueueNoOvertaking`, `QueueWaitlistsAreArrays` | `MessageQueueProofs` | none |
| `SchedTypeCorrect`, `SchedContextsIntact`, `SchedScanIsRoundRobin`, `SchedBestTaskRuns`, `SchedSwitchIsBounded` | `SchedulerProofs` | none |
| `TimeDeadlinesEndBlocks` | `TimeoutProofs` | none |
| `TimeNeverEarly` | `TimeoutProofs` | timeouts of at most half the counter's range (`ShortTimeouts`) |
| `UsartTransmits`, `UsartReceivesWords`, `SpiTransfers`: the drivers implement `Transfer` | `DriverProofs` | none |
| `I2cTransfers` (the driver implements `Transfer`), `I2cRefusesLastByte` | `DriverProofs` | `I2cPrompt`, `~I2cSendAfterRS` |
| `CanRunsConfigured` | `DriverProofs` | none |
| `CanReportsOnce` | `DriverProofs` | `CanPrompt`, `~CanMixed` |
| `CanReceivesInOrder` | `DriverProofs` | `~CanMixed` |
| `PeripheralsGetWhatTheyAsk` | `DriverProofs` | none |
| `LinesGetTheirHandlers` | `DriverProofs` | none |
| `GpioPinsAsAsked` | `DriverProofs` | `GKeep`, `GPrompt`, `~GShared` |
| `SettingsHold` | `DriverProofs` | `SettingsWithinLimits`: `~XUsartAgain`, I2C speeds from 1954 Hz |

Each hypothesis is a limit of the code listed above, and its negation makes TLC show the
violation: `LockLimit` says that no task asks for a mutex when its `owned_mutexes[]` is full,
`NoDeadlines` keeps the recompute's two loads apart from waits that time out (the limits and
findings above), and
the constants of the CAN, I2C and GPIO modules and of the settings say how a caller must use
the drivers. The constants of the runs satisfy all of them.

**Kernel and semaphores.** `TCBMatchesWaitlists` is not inductive: a return clears `in_call`, so
one has to know that a task that runs is an entry of no list. It is RUNNING
(`ProcessorConsistent`), and entries are BLOCKED. `CoreInv`, the conjunction of these
two and the types, is inductive, and `KernelCoreProofs` shows once for each operation of
the kernel that it is preserved, for every primitive that uses it. `SemInv`
adds the type of `count`, `NoIdlePermit` and `HighestPriorityRuns`; the latter holds
because every step that makes a task ready or stops the running one pends PendSV. The
refinement needs one fact more, `DelayedInNoCall`: the tick that wakes a task from a
delay clears its `timeout` flag, which would turn a call that timed out into one that was
granted if the task could be in such a call.

**Turns and order.** Every step of a primitive is, for the scheduler, one of three things: it is the switch,
it leaves PendSV pended, or it leaves the states, the priorities and the processor alone
(`SchedulingStep`). `SchedulingKeepsBest` and `SchedulingServesTurns` are shown of these once, and
`HighestPriorityRuns` and `TurnComesCloser` follow for each primitive from the lemma that its
steps are such steps (`SemScheduling`, `QueueScheduling`, `MtxScheduling`). The distance of a task in
the scan is what a switch reduces: the task chosen was nearer, so that from its place the others are
nearer than before. The wait lists are treated the same way: a step appends the current
task to a list, releases a list's next waiter, or removes tasks by their deadlines (`WaitlistStep`). From this follow the order of
release (`WaitlistStepInOrder`) and that `ahead` remains the order of an array (`ListsOrdered`, from
which `WaitlistsAreArrays`).

**Mutexes.** `MtxInv` joins `OwnershipConsistent`, `WaitersHaveOwner` and
`ResultTellsOwnership`, which need each other: a handoff must find its mutex among the
owner's entries, a wait that ends by its deadline must not be the owner's, an unlocked
mutex must have no waiters. Three facts are added. A waiter has room for one entry more
(`RoomForOneMore`), because the owner that hands over appends to an array it cannot look
at. A task blocked in `os_task_delay` is in no call (`CallsAreLocks`). The locals
of a recompute are set where they are used (`RecomputeOK`), so that its store writes a
priority; it changes nothing else that these properties are about.

**Priorities of the mutexes.** `InheritanceKept` needs what `mutex_donate_priority`
reaches. Its loop runs `OS_MAX_TASKS` times, and `DonationChainClosed` shows that this is enough: the
tasks visited are closed under "the owner of the mutex it waits for", because as long as
they are not every round finds a task not seen before, and there are at most as many as rounds. This holds for
chains that end in a cycle too. The induction is over a set of numbers (`NatInductionInSet`, from the
well-foundedness of `<`), which is how it can be done without an operator as a parameter.
With this lemma a task that blocks raises whole chains to its own priority, so no waiter on
them is left better than its owner; a handoff recomputes both priorities from the lists that remain.

`InversionBounded` is what inheritance is for. Along the chain of owners before a waiter everyone is as urgent
as the waiter (`ChainIsUrgent`, by the same induction over the rounds of the loop), so that a task of the chain that
could run keeps less urgent ones off the processor. It is proved of all states where `Inherits` and `HighestPriorityRuns`
hold, which `InheritanceKept` and `BestRunsUnlessStored` say only a store can end; the finding
`mutex_stale_recompute` is such a store.

`EndlessInv` is for `NeverBelowBase` and `BoostEnds`. Every priority has a reason (`BoostsHaveWaiters`):
it is the base priority, or a task of that priority or a better one waits for a mutex of the
task. This is preserved by donations, the reason being the task before in the chain, and by handoffs, but
the store of a recompute writes what was computed some steps ago. So `OwnRecomputes` says of
its locals, without deadlines, that the target is always the task itself, that the best priority
so far has a reason, and that entry `j` is there at both of its loads, with a priority at least as good at the
second. Others cannot disturb this: while the task is in the call the lists of its
mutexes only grow at the end, and their entries only improve (`ListsOnlyGrow`, over
`ListsOrdered`, so that index `j` is that of exactly one entry).

**Queues.** `QueueInv` adds to the properties what they rest on: the ring's `head` is `count` slots
behind `tail` (`RingIntact`), a task in a send still has its item (`SendersCarryItems`), and
again `DelayedInNoCall`. `NoLostWakeup` counts the woken tasks of a side: a call that succeeds
uses up one slot and one woken task at most, and wakes one of the other side, and one that was
woken in vain blocks again only when its slot has gone. `DeadlineKept` is arithmetic modulo
`TickModulus`: what is left of a timeout is never `OS_WAIT_FOREVER` by accident, and blocking
for it finds the old deadline. The refinement maps the items from `tail` on to
the sequence of `BoundedFifo` and shows that every call that succeeds is one of its operations and
everything else a stuttering step.

**The switch.** `BestTaskRuns` says nothing of the middle of a scan. `SchedInv` says what each loop
has found so far: the best of the indexes passed (`KeptIsBest`), still ready (`KeptIsReady`),
unless an interrupt has come in, and then a further PendSV is pending (`DisturbedIsPended`). It follows
that the step-by-step scan picks what `KernelCore` picks in one step. `SwitchIsBounded` and
`SwitchCountsDown` give the switch its length: `StepsLeft` is `task_count + 6` at its entry and one less
after each of its steps, and interrupts do not change it. This is the part of the switch's liveness that needs no fairness.

**Timeouts.** `DeadlineAhead` ties the recorded deadline to the ticks that were asked for: it is
`systick_count` plus what is left, modulo `TickModulus`. `ReachedWhenDue` then shows that the signed
comparison of `os_tick` is true when nothing is left, and false before that if what is left is below half
the range, which needs the hypothesis of `TimeNeverEarly`. A deadline that is 0 is not recorded and
covered by neither theorem (`timeouts_sentinel`).

**Drivers.** The invariants account for every word. A USART transmission has put its words
on the wire, in the shifter or in DR, or still has them to send, and the sum is the size of the
transfer, so when TC
closes a transfer (`NothingInFlight`) every word is on the wire. The length counts bytes, so the invariants multiply words by
`UsartWordBytes`. The SPI handler looks at the enables of CR2 and not at the state of the handle, so that
its refinement rests on `EnabledInTransfer`: an enable is on, or about to be turned on, only during a transfer
(up to an overwritten store, where the module stops).
An I2C transfer goes through the phases of the bus (`I2cPhaseOK`: at rest, asked for, addressing, sending,
receiving, refused, or a blocking call stuck on a refusal). Sending, DR and the shifter hold the next one or two
bytes, and what is left is the rest. Receiving, ACK is on exactly as long as more than one byte is left, up to the one
branch of the handler where ADDR is cleared first (`iIsr = "ACK"`); a byte ends only when the one before has
been read, which `I2cPrompt` provides, so none comes after the last. `I2cCallOK` says which enables a task has set by
each store, so that an interrupt driven transfer never runs the handler half enabled, and a blocking call never runs it.
What a reception has lost (`uLost`, `sLost`) is kept apart: then the words are counted only. For the CAN
mailboxes the fact that matters is `OneOutcomeAtMost`: clearing one RQCP flag clears all, so no other may be
set. The tables of clocks and lines are injective (`EnableBitsDiffer`, `VectorsDiffer`), so an operation on
one entry leaves the others alone. `PutIsRead` and `PutIsElsewhere` say the same of the
shifts and masks that set a pin's field in a register; an edge is pending exactly when its pin
asked for it because EXTICR and the edge selections are what the line's one source wants (`LinesMatch`).
The settings are compared with the reference manual's formulas. The prescaler tables of
`rcc.c` are powers of two at the index that the manual's bits name (`ApbIsTrue`, by cases), and `BrrIsClose` is the
arithmetic of `USART_init`: BRR is the clock over the baud rate to half a sixteenth and the hundredth that
the code drops, and at least 16, exactly if `BaudFits`. `ClocksInvStep` and `LinesInvStep` carry the exceptions of
the clocks and lines along (`WritesReachTheirOwn`: an address is either its own peripheral's or nobody's).

**Only model-checked.** Liveness (`TopTasksTakeTurns`, `RecordedBlocksEnd`, `UsartTransmissionsEnd`,
`SpiOverrunEnds`, `I2cTransfersEnd`), which the proof system does not reach: for the first,
`TurnComesCloser` and `SchedSwitchIsBounded` are the proved steps towards it. Every other property of a
passing run is a theorem.

## Not modelled

* Stack frames and alignment, SysTick's registers, the ITM output, start-up up to the first
  dispatch, system calls: no behaviour over time, or pure I/O. `os_task_create` and the
  `*_create` calls are the initial states. The idle task makes no calls (an application's idle
  hook might).
* The slave side of I2C and of SPI, I2C errors other than AF, CAN bus errors, overrun of a CAN
  FIFO beyond the loss of the frame, the DMA and the slave-select and priority settings of the drivers.
* What frames and buffers carry: a word is its number.
* The sample applications: they say how the drivers are called, and the environments
  of the driver modules follow them.

## The plan

1. Done: `KernelCore`, `Semaphore`, `Mutex`, `MessageQueue`, `Scheduler`, `Timeouts`,
   their runs, `KernelCoreProofs`, the theorems about semaphores and the ownership of mutexes.
2. Done: the HAL drivers over the registers their handlers use, with the peripheral as the
   environment, `Transfer`, the settings, clocks, lines and pins.
3. Done: the theorems about the queue, the switch, the timeouts, the drivers and their settings,
   clocks, lines and pins, the priorities of the mutexes, the turns of tasks and the order of wait lists.
4. Then: a module that composes a queue, a mutex and a driver as
   `CAN_loopback_mutex_queue.c` does, the slave side of I2C, and what a queue's calls, rather than its entries,
   are promised of their turn: one that is woken in vain goes to the end of the list (kernel.c:372).
