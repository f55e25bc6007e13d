----------------------------- MODULE MessageQueue -----------------------------
(***************************************************************************)
(* A message queue (os_queue_send_from_task, os_queue_recv_from_task and   *)
(* their from_isr variants): a ring buffer with a waitlist on each side.   *)
(* A woken task finds out only when it runs whether the slot or the item   *)
(* it was woken for is still there, and blocks again for the rest of its   *)
(* timeout when it is not.                                                 *)
(* Calls that only return an error change nothing and are stuttering steps.*)
(***************************************************************************)
EXTENDS KernelCore, Sequences

CONSTANTS
    send_waitlist, recv_waitlist,  \* the queue's two waitlists
    max_items,
    Items,          \* the items sent
    NoItem,         \* the contents of a slot never written
    IsrItems,       \* the items interrupt handlers send
    IsrReceives,    \* whether an interrupt handler receives
    SendTimeouts,   \* the timeouts each task passes to os_queue_send_from_task
    RecvTimeouts,   \* and to os_queue_recv_from_task
    MaxDropped      \* bound: interrupts fail to send only so many times

ASSUME ListsAssumption ==
    {send_waitlist, recv_waitlist} \subseteq Waitlists /\ send_waitlist # recv_waitlist
ASSUME ItemsAssumption == NoItem \notin Items /\ IsrItems \subseteq Items
ASSUME SizeAssumption  == max_items \in Nat \ {0} /\ MaxDropped \in Nat
ASSUME IsrAssumption   == IsrReceives \in BOOLEAN
ASSUME QueueTimeoutsAssumption ==
    SendTimeouts \in [UserTasks -> SUBSET Ticks] /\ RecvTimeouts \in [UserTasks -> SUBSET Ticks]

VARIABLES
    count,          \* queue_t.count
    head,           \* where the next item is written
    tail,           \* where the next item is read
    buffer,
    dropped_count,
    received,       \* the item the last successful receive copied out
    outgoing,       \* outgoing[t]: the item t's send call carries
    deadline_tick   \* deadline_tick[t]: the local of that name of t's call, 0 for none

ringVars  == <<count, head, tail, buffer, received>>
localVars == <<outgoing, deadline_tick>>
queueVars == <<coreVars, ringVars, dropped_count, localVars>>

Slots == 0 .. max_items - 1

QueueTypeOK ==
    /\ CoreTypeOK
    /\ count \in 0 .. max_items
    /\ head \in Slots /\ tail \in Slots
    /\ buffer \in [Slots -> Items \cup {NoItem}]
    /\ dropped_count \in 0 .. MaxDropped
    /\ received \in Items \cup {NoItem}
    /\ outgoing \in [UserTasks -> Items \cup {NoItem}]
    /\ deadline_tick \in [UserTasks -> Ticks]

QueueInit ==
    /\ CoreInit
    /\ count = 0 /\ head = 0 /\ tail = 0
    /\ buffer = [i \in Slots |-> NoItem]
    /\ dropped_count = 0
    /\ received = NoItem
    /\ outgoing = [t \in UserTasks |-> NoItem]
    /\ deadline_tick = [t \in UserTasks |-> 0]

IsFull  == count >= max_items
IsEmpty == count = 0

-----------------------------------------------------------------------------
\* Fault: the other side is not woken.
WakeOne_Nobody(w) ==
    UNCHANGED <<schedVars, effective_priority, wakeup_tick, block_reason, timeout,
                systick_count, listVars>>

\* waitlist_unblock on the other side of the queue, and the yield if it woke a task.
WakeOne(w) ==
    /\ \/ port_yield /\ \E u \in UserTasks : waitlist_unblock(w, u)
       \/ NothingToUnblock(w) /\ UNCHANGED pendsv
    /\ UNCHANGED <<current_task, effective_priority, systick_count>>

\* The end of os_queue_send_from_task, from the copy on.
PutItem(item) ==
    /\ buffer' = [buffer EXCEPT ![head] = item]
    /\ count' = count + 1
    /\ head' = (head + 1) % max_items
    /\ WakeOne(recv_waitlist)
    /\ UNCHANGED <<tail, received, dropped_count>>

\* The end of os_queue_recv_from_task, from the copy on.
TakeItem ==
    /\ received' = buffer[tail]
    /\ count' = count - 1
    /\ tail' = (tail + 1) % max_items
    /\ WakeOne(send_waitlist)
    /\ UNCHANGED <<head, buffer, dropped_count>>

\* Fault: a tick more at every round.
RemainingTimeout_Late(deadline) ==
    IF deadline = 0 THEN OS_WAIT_FOREVER ELSE (deadline + 1 - systick_count) % TickModulus

RemainingTimeout(deadline) ==
    IF deadline = 0 THEN OS_WAIT_FOREVER ELSE (deadline - systick_count) % TickModulus

Passed(deadline) == deadline # 0 /\ Reached(deadline, systick_count)

\* One round of the wait loop that ends in a block: the queue is not ready and the
\* call has time left.
WaitRound(w, deadline, reason) ==
    /\ ~Passed(deadline)
    /\ waitlist_block_current(w, RemainingTimeout(deadline), reason)
    /\ UNCHANGED <<effective_priority, ringVars, dropped_count>>

\* The call of t is over.
Leave(t) ==
    /\ in_call' = [in_call EXCEPT ![t] = NULL]
    /\ outgoing' = [outgoing EXCEPT ![t] = NoItem]
    /\ deadline_tick' = [deadline_tick EXCEPT ![t] = 0]

\* Back from the block in a call on waitlist w.
Woken(t, w) == OnCpu(t) /\ in_call[t] = w

\* The loop ends in OS_ERR_UNAVAILABLE: the deadline ended the block, or it has
\* passed while the task waited for the processor and the queue is not ready again.
GiveUp(t, w, notReady) ==
    /\ Woken(t, w)
    /\ timeout[t] \/ (notReady /\ Passed(deadline_tick[t]))
    /\ Leave(t)
    /\ UNCHANGED <<schedVars, effective_priority, wakeup_tick, block_reason, timeout,
                   systick_count, listVars, ringVars, dropped_count>>

-----------------------------------------------------------------------------
(* os_queue_send_from_task.                                                 *)

Send(t, item) ==
    /\ InApplication(t) /\ ~IsFull
    /\ PutItem(item)
    /\ UNCHANGED <<in_call, localVars>>

SendBlock(t, item, ticks) ==
    /\ InApplication(t)
    /\ IsFull
    /\ ticks # 0
    /\ WaitRound(send_waitlist, Deadline(ticks), "QUEUE_SEND")
    /\ outgoing' = [outgoing EXCEPT ![t] = item]
    /\ deadline_tick' = [deadline_tick EXCEPT ![t] = Deadline(ticks)]

\* Fault: the queue is not rechecked after the wake-up.
SendFinish_NoRecheck(t) ==
    /\ Woken(t, send_waitlist) /\ ~timeout[t]
    /\ PutItem(outgoing[t])
    /\ Leave(t)

SendFinish(t) ==
    /\ Woken(t, send_waitlist) /\ ~timeout[t]
    /\ ~IsFull
    /\ PutItem(outgoing[t])
    /\ Leave(t)

SendAgain(t) ==
    /\ Woken(t, send_waitlist) /\ ~timeout[t]
    /\ IsFull
    /\ WaitRound(send_waitlist, deadline_tick[t], "QUEUE_SEND")
    /\ UNCHANGED localVars

SendGiveUp(t) == GiveUp(t, send_waitlist, IsFull)

(* os_queue_recv_from_task.                                                 *)

Receive(t) ==
    /\ InApplication(t) /\ ~IsEmpty
    /\ TakeItem
    /\ UNCHANGED <<in_call, localVars>>

ReceiveBlock(t, ticks) ==
    /\ InApplication(t)
    /\ IsEmpty
    /\ ticks # 0
    /\ WaitRound(recv_waitlist, Deadline(ticks), "QUEUE_RECV")
    /\ deadline_tick' = [deadline_tick EXCEPT ![t] = Deadline(ticks)]
    /\ UNCHANGED outgoing

ReceiveFinish(t) ==
    /\ Woken(t, recv_waitlist) /\ ~timeout[t]
    /\ ~IsEmpty
    /\ TakeItem
    /\ Leave(t)

ReceiveAgain(t) ==
    /\ Woken(t, recv_waitlist) /\ ~timeout[t]
    /\ IsEmpty
    /\ WaitRound(recv_waitlist, deadline_tick[t], "QUEUE_RECV")
    /\ UNCHANGED localVars

ReceiveGiveUp(t) == GiveUp(t, recv_waitlist, IsEmpty)

(* os_queue_send_from_isr and os_queue_recv_from_isr: timeout 0, whatever   *)
(* task is current and whether or not a switch is pending.                  *)

IsrSend(item) == ~IsFull /\ PutItem(item) /\ UNCHANGED <<in_call, localVars>>

IsrDrop ==
    /\ IsFull
    /\ dropped_count < MaxDropped
    /\ dropped_count' = dropped_count + 1
    /\ UNCHANGED <<coreVars, ringVars, localVars>>

IsrReceive == IsrReceives /\ ~IsEmpty /\ TakeItem /\ UNCHANGED <<in_call, localVars>>

-----------------------------------------------------------------------------
queueOnly == <<ringVars, dropped_count, localVars>>

QueueDelay(t, ticks) == os_task_delay(t, ticks) /\ UNCHANGED queueOnly
QueueTick            == os_tick /\ UNCHANGED queueOnly
QueueSwitch          == PendSV_Handler /\ UNCHANGED queueOnly

\* Which tasks send and which receive follows from their timeouts: a task with
\* none for a call does not make it.
QueueTaskStep(t) ==
    \/ \E item \in Items : /\ SendTimeouts[t] # {}
                           /\ \/ Send(t, item)
                              \/ \E ticks \in SendTimeouts[t] : SendBlock(t, item, ticks)
    \/ SendFinish(t) \/ SendAgain(t) \/ SendGiveUp(t)
    \/ RecvTimeouts[t] # {} /\ Receive(t)
    \/ \E ticks \in RecvTimeouts[t] : ReceiveBlock(t, ticks)
    \/ ReceiveFinish(t) \/ ReceiveAgain(t) \/ ReceiveGiveUp(t)
    \/ \E ticks \in Delays[t] : QueueDelay(t, ticks)

IsrStep ==
    \/ \E item \in IsrItems : IsrSend(item)
    \/ IsrItems # {} /\ IsrDrop
    \/ IsrReceive

QueueNext == QueueTick \/ QueueSwitch \/ IsrStep \/ \E t \in UserTasks : QueueTaskStep(t)

QueueSpec == QueueInit /\ [][QueueNext]_queueVars

-----------------------------------------------------------------------------
\* The tasks woken for a slot (an item) that have not looked at the queue again.
WokenFor(w) ==
    {t \in UserTasks : in_call[t] = w /\ blocked_waitlist[t] = NULL /\ ~timeout[t]}

\* No wake-up is lost: while tasks wait on one side, every slot (item) that would
\* serve them has a woken task on its way to it, however often the slot is taken by
\* a task or an interrupt that came first and the woken task blocks again.
NoLostWakeup ==
    /\ waiters[send_waitlist] # {} => max_items - count <= Cardinality(WokenFor(send_waitlist))
    /\ waiters[recv_waitlist] # {} => count <= Cardinality(WokenFor(recv_waitlist))

\* Blocking again never moves the deadline the call began with (kernel.md, "Recheck
\* on Wake").
DeadlineKept ==
    \A t \in UserTasks :
        blocked_waitlist[t] # NULL => wakeup_tick[t] = deadline_tick[t]

Fifo == INSTANCE BoundedFifo WITH
    MaxItems <- max_items,
    contents <- [i \in 1 .. count |-> buffer[(tail + i - 1) % max_items]]

\* The ring buffer, the waits and the rechecks implement the bounded FIFO queue: no
\* item is lost, duplicated, overwritten or delivered out of order.
IsBoundedFifo == Fifo!Spec

=============================================================================
