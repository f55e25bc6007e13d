-------------------------- MODULE MessageQueueProofs --------------------------
(***************************************************************************)
(* The message queue, for any number of tasks, slots and ticks, any        *)
(* timeouts and any priorities: no wake-up is lost, no deadline moves, and *)
(* the ring buffer with its waits implements the bounded FIFO queue.       *)
(***************************************************************************)
EXTENDS MessageQueue, KernelCoreProofs, FiniteSetTheorems, SequenceTheorems

\* The ring's indexes agree with its count.
RingIntact == head = (tail + count) % max_items

\* Who is in a send call carries an item.
SendersCarryItems == \A t \in UserTasks : in_call[t] = send_waitlist => outgoing[t] \in Items

\* The inductive invariant.  NoLostWakeup needs DelayedInNoCall: a task that a tick wakes
\* from a delay is on no errand for the queue.
QueueInv ==
    /\ CoreInv /\ QueueTypeOK /\ RingIntact /\ SendersCarryItems
    /\ HighestPriorityRuns /\ DelayedInNoCall /\ NoLostWakeup /\ DeadlineKept

-----------------------------------------------------------------------------
(* What the queue's calls have in common.                                   *)

\* The call on a side succeeds: without a block, from an interrupt, or after one.
Succeeds(w) ==
    \/ UNCHANGED <<in_call, localVars>>
    \/ \E t \in UserTasks : Woken(t, w) /\ ~timeout[t] /\ Leave(t)

Puts(item) == ~IsFull /\ PutItem(item) /\ Succeeds(send_waitlist)

Takes == ~IsEmpty /\ TakeItem /\ Succeeds(recv_waitlist)

NotReady(w) ==
    \/ w = send_waitlist /\ IsFull
    \/ w = recv_waitlist /\ IsEmpty

\* The call of t blocks, for the first time or again.
Blocks(t, w, deadline) ==
    /\ OnCpu(t) /\ in_call[t] \in {NULL, w} /\ NotReady(w)
    /\ \E reason \in Reasons \ {"NONE"} : WaitRound(w, deadline, reason)
    /\ deadline_tick' = [deadline_tick EXCEPT ![t] = deadline]
    /\ \E item \in Items \cup {NoItem} :
          /\ outgoing' = [outgoing EXCEPT ![t] = item]
          /\ w = send_waitlist => item \in Items

GivesUp(t, w) == GiveUp(t, w, NotReady(w))

Sides == {send_waitlist, recv_waitlist}

\* A queue's two waitlists are different ones, and neither is NULL.
LEMMA SidesDiffer ==
    /\ send_waitlist \in Waitlists /\ recv_waitlist \in Waitlists
    /\ send_waitlist # recv_waitlist /\ send_waitlist # NULL /\ recv_waitlist # NULL
    /\ Sides \subseteq Waitlists
BY ListsAssumption, NullAssumption DEF Sides

\* Every handler of the queue is one of these.
LEMMA QueueSteps ==
    ASSUME QueueInv, QueueNext
    PROVE  \/ QueueTick \/ QueueSwitch \/ IsrDrop
           \/ \E item \in Items : Puts(item)
           \/ Takes
           \/ \E t \in UserTasks, w \in Sides, deadline \in Ticks : Blocks(t, w, deadline)
           \/ \E t \in UserTasks, w \in Sides : GivesUp(t, w)
           \/ \E t \in UserTasks, ticks \in Ticks : QueueDelay(t, ticks)
<1> USE SidesDiffer DEF QueueInv, Sides
<1>1. ASSUME NEW t \in UserTasks, NEW item \in Items, Send(t, item)
      PROVE  Puts(item)
  BY <1>1 DEF Send, Puts, Succeeds
<1>2. ASSUME NEW t \in UserTasks, NEW item \in Items, NEW ticks \in SendTimeouts[t],
             SendBlock(t, item, ticks)
      PROVE  \E deadline \in Ticks : Blocks(t, send_waitlist, deadline)
  <2>1. Deadline(ticks) \in Ticks
    BY DeadlineType, QueueTimeoutsAssumption DEF CoreInv, CoreTypeOK
  <2>2. \E reason \in Reasons \ {"NONE"} :
           WaitRound(send_waitlist, Deadline(ticks), reason)
    BY <1>2 DEF SendBlock, Reasons
  <2>3. Blocks(t, send_waitlist, Deadline(ticks))
    BY <1>2, <2>2, Zenon DEF SendBlock, InApplication, Blocks, NotReady
  <2> QED BY <2>1, <2>3
<1>3. ASSUME NEW t \in UserTasks, SendFinish(t)
      PROVE  \E item \in Items : Puts(item)
  <2>1. outgoing[t] \in Items
    BY <1>3 DEF SendFinish, Woken, SendersCarryItems
  <2>2. Puts(outgoing[t])
    BY <1>3 DEF SendFinish, Puts, Succeeds
  <2> QED BY <2>1, <2>2
<1>4. ASSUME NEW t \in UserTasks, SendAgain(t)
      PROVE  Blocks(t, send_waitlist, deadline_tick[t]) /\ deadline_tick[t] \in Ticks
  <2>1. outgoing[t] \in Items /\ outgoing' = outgoing /\ deadline_tick' = deadline_tick
    BY <1>4 DEF SendAgain, Woken, SendersCarryItems, localVars
  <2>2. /\ outgoing' = [outgoing EXCEPT ![t] = outgoing[t]]
        /\ deadline_tick' = [deadline_tick EXCEPT ![t] = deadline_tick[t]]
    BY <2>1 DEF QueueTypeOK
  <2>3. \E reason \in Reasons \ {"NONE"} : WaitRound(send_waitlist, deadline_tick[t], reason)
    BY <1>4 DEF SendAgain, Reasons
  <2>4. Blocks(t, send_waitlist, deadline_tick[t])
    BY <1>4, <2>1, <2>2, <2>3, Zenon DEF SendAgain, Woken, Blocks, NotReady
  <2> QED BY <2>4 DEF QueueTypeOK
<1>5. ASSUME NEW t \in UserTasks, SendGiveUp(t)
      PROVE  GivesUp(t, send_waitlist)
  BY <1>5 DEF SendGiveUp, GiveUp, GivesUp, NotReady, IsFull
<1>6. ASSUME NEW t \in UserTasks, Receive(t) \/ ReceiveFinish(t)
      PROVE  Takes
  BY <1>6 DEF Receive, ReceiveFinish, Takes, Succeeds
<1>7. ASSUME NEW t \in UserTasks, NEW ticks \in RecvTimeouts[t], ReceiveBlock(t, ticks)
      PROVE  \E deadline \in Ticks : Blocks(t, recv_waitlist, deadline)
  <2>1. Deadline(ticks) \in Ticks
    BY DeadlineType, QueueTimeoutsAssumption DEF CoreInv, CoreTypeOK
  <2>2. outgoing' = [outgoing EXCEPT ![t] = outgoing[t]] /\ outgoing[t] \in Items \cup {NoItem}
    BY <1>7 DEF ReceiveBlock, QueueTypeOK
  <2>3. Blocks(t, recv_waitlist, Deadline(ticks))
    BY <1>7, <2>2 DEF ReceiveBlock, InApplication, Blocks, NotReady, Reasons
  <2> QED BY <2>1, <2>3
<1>8. ASSUME NEW t \in UserTasks, ReceiveAgain(t)
      PROVE  Blocks(t, recv_waitlist, deadline_tick[t]) /\ deadline_tick[t] \in Ticks
  <2>1. outgoing' = outgoing /\ deadline_tick' = deadline_tick
    BY <1>8 DEF ReceiveAgain, localVars
  <2>2. /\ outgoing' = [outgoing EXCEPT ![t] = outgoing[t]]
        /\ deadline_tick' = [deadline_tick EXCEPT ![t] = deadline_tick[t]]
        /\ outgoing[t] \in Items \cup {NoItem}
    BY <2>1 DEF QueueTypeOK
  <2> QED BY <1>8, <2>2 DEF ReceiveAgain, Woken, Blocks, NotReady, Reasons, QueueTypeOK
<1>9. ASSUME NEW t \in UserTasks, ReceiveGiveUp(t)
      PROVE  GivesUp(t, recv_waitlist)
  BY <1>9 DEF ReceiveGiveUp, GiveUp, GivesUp, NotReady, IsEmpty
<1>10. ASSUME IsrStep
       PROVE  IsrDrop \/ Takes \/ \E item \in Items : Puts(item)
  BY <1>10, ItemsAssumption DEF IsrStep, IsrSend, IsrReceive, Puts, Takes, Succeeds
<1>11. ASSUME NEW t \in UserTasks, QueueTaskStep(t)
       PROVE  \/ \E item \in Items : Puts(item)
              \/ Takes
              \/ \E w \in Sides, deadline \in Ticks : Blocks(t, w, deadline)
              \/ \E w \in Sides : GivesUp(t, w)
              \/ \E ticks \in Ticks : QueueDelay(t, ticks)
  BY <1>11, <1>1, <1>2, <1>3, <1>4, <1>5, <1>6, <1>7, <1>8, <1>9, DelaysAssumption
  DEF QueueTaskStep
<1> QED BY <1>10, <1>11 DEF QueueNext

-----------------------------------------------------------------------------
(* A call that succeeds.                                                    *)

\* The locals of the call's task are cleared when it has blocked before.
LEMMA AfterSuccess ==
    ASSUME QueueInv, NEW v \in Sides, Succeeds(v)
    PROVE  /\ in_call' \in [UserTasks -> Waitlists \cup {NULL}]
           /\ outgoing' \in [UserTasks -> Items \cup {NoItem}]
           /\ deadline_tick' \in [UserTasks -> Ticks]
           /\ \A t \in UserTasks :
                 \/ /\ in_call'[t] = in_call[t] /\ outgoing'[t] = outgoing[t]
                    /\ deadline_tick'[t] = deadline_tick[t]
                 \/ /\ t = current_task /\ in_call[t] = v /\ in_call'[t] = NULL
                    /\ blocked_waitlist[t] = NULL /\ current_state[t] # "BLOCKED"
<1> USE SidesDiffer DEF QueueInv, QueueTypeOK, CoreTypeOK
<1>1. CASE UNCHANGED <<in_call, localVars>>
  BY <1>1 DEF localVars
<1>2. ASSUME NEW t \in UserTasks, Woken(t, v), ~timeout[t], Leave(t)
      PROVE  /\ in_call' = [in_call EXCEPT ![t] = NULL]
             /\ outgoing' = [outgoing EXCEPT ![t] = NoItem]
             /\ deadline_tick' = [deadline_tick EXCEPT ![t] = 0] /\ 0 \in Ticks
             /\ t = current_task /\ in_call[t] = v
             /\ blocked_waitlist[t] = NULL /\ current_state[t] # "BLOCKED"
  <2>1. blocked_waitlist[t] = NULL /\ current_state[t] # "BLOCKED" /\ t = current_task
    BY <1>2, RunningIsInNoList DEF Woken, OnCpu, CoreInv, ProcessorConsistent
  <2> QED BY <1>2, <2>1, TickAssumption DEF Woken, Leave, Ticks
<1> QED BY <1>1, <1>2 DEF Succeeds

\* The tasks of a set of tasks can be counted.
LEMMA TasksFinite ==
    ASSUME NEW S \in SUBSET UserTasks
    PROVE  IsFiniteSet(S) /\ Cardinality(S) \in Nat
<1>1. IsFiniteSet(UserTasks)
  BY TaskCountAssumption, FS_Interval DEF UserTasks
<1> QED BY <1>1, FS_Subset, FS_CardinalityType

\* A set that keeps all but one element of another is at most one smaller.
LEMMA LosesOne ==
    ASSUME NEW S \in SUBSET UserTasks, NEW T \in SUBSET UserTasks, NEW x, S \ {x} \subseteq T
    PROVE  Cardinality(T) >= Cardinality(S) - 1
<1>1. IsFiniteSet(S) /\ IsFiniteSet(T) /\ Cardinality(S) \in Nat /\ Cardinality(T) \in Nat
  BY TasksFinite
<1>2. Cardinality(S \ {x}) = IF x \in S THEN Cardinality(S) - 1 ELSE Cardinality(S)
  BY <1>1, FS_RemoveElement
<1>3. Cardinality(S \ {x}) <= Cardinality(T)
  BY <1>1, FS_Subset
<1> QED BY <1>1, <1>2, <1>3

\* The wake-up on the other side w: the invariant survives, and what NoLostWakeup counts
\* changes by the task woken and by the caller, if it was a woken one itself.
LEMMA SuccessKeeps ==
    ASSUME QueueInv, NEW v \in Sides, NEW w \in Sides \ {v}, WakeOne(w), Succeeds(v)
    PROVE  /\ CoreInv' /\ SendersCarryItems' /\ HighestPriorityRuns'
           /\ DelayedInNoCall' /\ DeadlineKept'
           /\ waiters'[v] = waiters[v]
           /\ Cardinality(WokenFor(v)') >= Cardinality(WokenFor(v)) - 1
           /\ waiters'[w] # {} =>
                 /\ waiters[w] # {}
                 /\ Cardinality(WokenFor(w)') = Cardinality(WokenFor(w)) + 1
<1> USE SidesDiffer DEF QueueInv, CoreInv, CoreTypeOK
<1>0. /\ v \in Waitlists /\ w \in Waitlists /\ v # NULL /\ w # NULL /\ v # w
      /\ UNCHANGED <<current_task, effective_priority, systick_count>>
  BY NullAssumption DEF WakeOne
<1> DEFINE Left(t) == /\ t = current_task /\ in_call[t] = v /\ in_call'[t] = NULL
                      /\ blocked_waitlist[t] = NULL /\ current_state[t] # "BLOCKED"
<1>1. /\ in_call' \in [UserTasks -> Waitlists \cup {NULL}]
      /\ \A t \in UserTasks :
            \/ /\ in_call'[t] = in_call[t] /\ outgoing'[t] = outgoing[t]
               /\ deadline_tick'[t] = deadline_tick[t]
            \/ Left(t)
  BY AfterSuccess
<1> HIDE DEF Left
<1>2. SendersCarryItems'
  BY <1>0, <1>1 DEF SendersCarryItems, Left
<1>3. CASE NothingToUnblock(w) /\ UNCHANGED pendsv
  <2>1. /\ waiters[w] = {}
        /\ UNCHANGED <<wakeup_tick, current_state, block_reason, timeout, waiters, ahead,
                       blocked_waitlist, pendsv>>
    BY <1>3 DEF NothingToUnblock, listVars
  <2>2. CoreInv'
    <3>1. CoreTypeOK'
      BY <1>0, <1>1, <2>1
    <3>2. TCBMatchesWaitlists'
      BY <1>1, <2>1 DEF TCBMatchesWaitlists, Left
    <3>3. ProcessorConsistent'
      BY <1>0, <2>1 DEF ProcessorConsistent
    <3> QED BY <3>1, <3>2, <3>3
  <2>3. HighestPriorityRuns'
    BY <1>0, <2>1 DEF HighestPriorityRuns, ReadyTasks
  <2>4. DelayedInNoCall'
    BY <1>1, <2>1 DEF DelayedInNoCall, Left
  <2>5. DeadlineKept'
    BY <1>1, <2>1 DEF DeadlineKept, Left
  <2>6. WokenFor(v) \ {current_task} \subseteq WokenFor(v)'
    BY <1>1, <2>1 DEF WokenFor, Left
  <2>7. WokenFor(v) \subseteq UserTasks /\ WokenFor(v)' \subseteq UserTasks
    BY DEF WokenFor
  <2>8. Cardinality(WokenFor(v)') >= Cardinality(WokenFor(v)) - 1
    BY <2>6, <2>7, LosesOne
  <2> QED BY <1>2, <2>1, <2>2, <2>3, <2>4, <2>5, <2>8
<1>4. ASSUME NEW u \in UserTasks, waitlist_unblock(w, u), port_yield
      PROVE  /\ CoreInv' /\ HighestPriorityRuns' /\ DelayedInNoCall' /\ DeadlineKept'
             /\ waiters'[v] = waiters[v] /\ waiters[w] # {}
             /\ Cardinality(WokenFor(v)') >= Cardinality(WokenFor(v)) - 1
             /\ Cardinality(WokenFor(w)') = Cardinality(WokenFor(w)) + 1
  <2>1. /\ u \in waiters[w] /\ blocked_waitlist[u] = w /\ in_call[u] = w
        /\ current_state[u] = "BLOCKED" /\ ~Left(u)
    BY <1>0, <1>4 DEF waitlist_unblock, NextWaiter, TCBMatchesWaitlists, Left
  <2>2. \A t \in UserTasks :
           /\ blocked_waitlist'[t] = IF t = u THEN NULL ELSE blocked_waitlist[t]
           /\ timeout'[t] = IF t = u THEN FALSE ELSE timeout[t]
           /\ wakeup_tick'[t] = IF t = u THEN 0 ELSE wakeup_tick[t]
           /\ current_state'[t] = IF t = u THEN "READY" ELSE current_state[t]
    BY <1>4, IdleIsNoUserTask, Zenon DEF waitlist_unblock, ClearTimeout
  <2>3. CoreInv'
    <3>1. \A t \in UserTasks : blocked_waitlist[t] # NULL => in_call'[t] = in_call[t]
      BY <1>1 DEF Left
    <3> QED BY <1>0, <1>1, <1>4, <3>1, WakeKeepsCore
  <2>4. HighestPriorityRuns'
    BY <1>4 DEF HighestPriorityRuns, port_yield
  <2>5. DelayedInNoCall'
    BY <1>1, <2>2 DEF DelayedInNoCall, Left
  <2>6. DeadlineKept'
    BY <1>1, <2>2 DEF DeadlineKept, Left
  <2>7. waiters'[v] = waiters[v]
    <3>1. u \notin waiters[v] /\ waiters'[v] = waiters[v] \ {u}
      BY <1>0, <1>4, <2>1 DEF waitlist_unblock, Remove, TCBMatchesWaitlists
    <3> QED BY <3>1
  <2>8. WokenFor(v) \subseteq UserTasks /\ WokenFor(v)' \subseteq UserTasks
        /\ WokenFor(w) \subseteq UserTasks
    BY DEF WokenFor
  <2>9. WokenFor(v) \ {current_task} \subseteq WokenFor(v)'
    BY <1>1, <2>1, <2>2 DEF WokenFor, Left
  <2>10. Cardinality(WokenFor(v)') >= Cardinality(WokenFor(v)) - 1
    BY <2>8, <2>9, LosesOne
  <2>11. u \notin WokenFor(w) /\ WokenFor(w)' = WokenFor(w) \cup {u}
    <3>1. u \notin WokenFor(w) /\ u \in WokenFor(w)'
      BY <1>0, <1>1, <2>1, <2>2 DEF WokenFor
    <3>2. \A t \in UserTasks \ {u} : t \in WokenFor(w)' <=> t \in WokenFor(w)
      BY <1>0, <1>1, <2>2 DEF WokenFor, Left
    <3> QED BY <3>1, <3>2 DEF WokenFor
  <2>12. Cardinality(WokenFor(w)') = Cardinality(WokenFor(w)) + 1
    BY <2>8, <2>11, TasksFinite, FS_AddElement
  <2> QED BY <2>1, <2>3, <2>4, <2>5, <2>6, <2>7, <2>10, <2>12
<1> QED BY <1>2, <1>3, <1>4 DEF WakeOne

\* What the tasks of NoLostWakeup are counted by are numbers.
LEMMA WokenCounts ==
    ASSUME NEW w
    PROVE  Cardinality(WokenFor(w)) \in Nat /\ Cardinality(WokenFor(w)') \in Nat
<1>1. WokenFor(w) \subseteq UserTasks /\ WokenFor(w)' \subseteq UserTasks
  BY DEF WokenFor
<1> QED BY <1>1, TasksFinite

\* A send puts its item behind the last, in a slot that is free.
LEMMA PutKeeps ==
    ASSUME QueueInv, NEW item \in Items, Puts(item)
    PROVE  QueueInv'
<1> USE DEF Sides
<1>1. /\ buffer' = [buffer EXCEPT ![head] = item] /\ count' = count + 1
      /\ head' = (head + 1) % max_items /\ UNCHANGED <<tail, received, dropped_count>>
      /\ WakeOne(recv_waitlist) /\ Succeeds(send_waitlist)
      /\ count < max_items /\ max_items \in Nat \ {0} /\ count \in Nat
      /\ head \in Nat /\ head < max_items /\ tail \in Nat /\ tail < max_items
      /\ head = (tail + count) % max_items
  BY SizeAssumption
  DEF Puts, PutItem, IsFull, QueueInv, QueueTypeOK, Slots, RingIntact
<1>2. /\ CoreInv' /\ SendersCarryItems' /\ HighestPriorityRuns'
      /\ DelayedInNoCall' /\ DeadlineKept'
      /\ waiters'[send_waitlist] = waiters[send_waitlist]
      /\ Cardinality(WokenFor(send_waitlist)') >= Cardinality(WokenFor(send_waitlist)) - 1
      /\ waiters'[recv_waitlist] # {} =>
            /\ waiters[recv_waitlist] # {}
            /\ Cardinality(WokenFor(recv_waitlist)') = Cardinality(WokenFor(recv_waitlist)) + 1
  BY <1>1, SuccessKeeps, SidesDiffer
<1>3. QueueTypeOK'
  <2>1. head' \in Slots /\ count' \in 0 .. max_items
    BY <1>1 DEF Slots
  <2>2. buffer' \in [Slots -> Items \cup {NoItem}]
    BY <1>1 DEF QueueInv, QueueTypeOK
  <2>3. outgoing' \in [UserTasks -> Items \cup {NoItem}] /\ deadline_tick' \in [UserTasks -> Ticks]
    BY <1>1, AfterSuccess
  <2> QED BY <1>1, <1>2, <2>1, <2>2, <2>3 DEF QueueInv, CoreInv, QueueTypeOK
<1>4. RingIntact'
  <2>1. /\ tail \in Nat /\ tail < max_items /\ count \in Nat /\ count < max_items
        /\ max_items \in Nat \ {0} /\ 1 \in Nat /\ 1 <= max_items /\ count + 1 \in Nat
    BY <1>1
  <2>2. head = IF tail + count < max_items THEN tail + count ELSE tail + count - max_items
    BY <1>1, <2>1
  <2>3. (head + 1) % max_items = IF head + 1 < max_items THEN head + 1 ELSE head + 1 - max_items
    BY <1>1, <2>1
  <2>4. (tail + (count + 1)) % max_items =
           IF tail + (count + 1) < max_items THEN tail + (count + 1)
           ELSE tail + (count + 1) - max_items
    BY <2>1
  <2>5. (head + 1) % max_items = (tail + (count + 1)) % max_items
    BY <2>1, <2>2, <2>3, <2>4
  <2> QED BY <1>1, <2>5 DEF RingIntact
<1>5. NoLostWakeup'
  BY <1>1, <1>2, WokenCounts DEF QueueInv, NoLostWakeup
<1> QED BY <1>2, <1>3, <1>4, <1>5 DEF QueueInv

\* A receive takes the item at tail.
LEMMA TakeKeeps ==
    ASSUME QueueInv, Takes
    PROVE  QueueInv'
<1> USE DEF Sides
<1>1. /\ received' = buffer[tail] /\ count' = count - 1
      /\ tail' = (tail + 1) % max_items /\ UNCHANGED <<head, buffer, dropped_count>>
      /\ WakeOne(send_waitlist) /\ Succeeds(recv_waitlist)
      /\ count <= max_items /\ max_items \in Nat \ {0} /\ count \in Nat /\ count # 0
      /\ head \in Nat /\ head < max_items /\ tail \in Nat /\ tail < max_items
      /\ head = (tail + count) % max_items
  BY SizeAssumption
  DEF Takes, TakeItem, IsEmpty, QueueInv, QueueTypeOK, Slots, RingIntact
<1>2. /\ CoreInv' /\ SendersCarryItems' /\ HighestPriorityRuns'
      /\ DelayedInNoCall' /\ DeadlineKept'
      /\ waiters'[recv_waitlist] = waiters[recv_waitlist]
      /\ Cardinality(WokenFor(recv_waitlist)') >= Cardinality(WokenFor(recv_waitlist)) - 1
      /\ waiters'[send_waitlist] # {} =>
            /\ waiters[send_waitlist] # {}
            /\ Cardinality(WokenFor(send_waitlist)') = Cardinality(WokenFor(send_waitlist)) + 1
  BY <1>1, SuccessKeeps, SidesDiffer
<1>3. QueueTypeOK'
  <2>1. tail' \in Slots /\ count' \in 0 .. max_items
    BY <1>1 DEF Slots
  <2>2. received' \in Items \cup {NoItem}
    BY <1>1 DEF QueueInv, QueueTypeOK
  <2>3. outgoing' \in [UserTasks -> Items \cup {NoItem}] /\ deadline_tick' \in [UserTasks -> Ticks]
    BY <1>1, AfterSuccess
  <2> QED BY <1>1, <1>2, <2>1, <2>2, <2>3 DEF QueueInv, CoreInv, QueueTypeOK
<1>4. RingIntact'
  <2> DEFINE next == (tail + 1) % max_items
  <2>0. /\ tail \in Nat /\ tail < max_items /\ count \in Nat \ {0} /\ count <= max_items
        /\ max_items \in Nat \ {0} /\ count - 1 \in Nat /\ count - 1 <= max_items
    BY <1>1
  <2>1. next = IF tail + 1 < max_items THEN tail + 1 ELSE tail + 1 - max_items
    BY <2>0
  <2> HIDE DEF next
  <2>2. (tail + count) % max_items =
           IF tail + count < max_items THEN tail + count ELSE tail + count - max_items
    BY <2>0
  <2>3. (next + (count - 1)) % max_items =
           IF next + (count - 1) < max_items THEN next + (count - 1)
           ELSE next + (count - 1) - max_items
    BY <2>0, <2>1
  <2>4. (tail + count) % max_items = (next + (count - 1)) % max_items
    BY <2>0, <2>1, <2>2, <2>3
  <2> QED BY <1>1, <2>4 DEF next, RingIntact
<1>5. NoLostWakeup'
  BY <1>1, <1>2, WokenCounts DEF QueueInv, NoLostWakeup
<1> QED BY <1>2, <1>3, <1>4, <1>5 DEF QueueInv

-----------------------------------------------------------------------------
(* A call that blocks or gives up, and the kernel's own steps.              *)

\* The rest of a timeout ends at the deadline it is the rest of.
LEMMA DeadlineOfRemaining ==
    ASSUME systick_count \in Ticks, NEW deadline \in Ticks, ~Passed(deadline)
    PROVE  /\ RemainingTimeout(deadline) \in Ticks
           /\ Deadline(RemainingTimeout(deadline)) = deadline
<1>1. /\ TickModulus \in Nat \ {0} /\ TickModulus > 2
      /\ deadline \in Nat /\ deadline < TickModulus
      /\ systick_count \in Nat /\ systick_count < TickModulus
  BY TickAssumption DEF Ticks
<1>2. CASE deadline = 0
  BY <1>1, <1>2 DEF RemainingTimeout, Deadline, OS_WAIT_FOREVER, Ticks
<1>3. CASE deadline # 0
  <2> DEFINE rest == (deadline - systick_count) % TickModulus
  <2>1. /\ rest = IF deadline < systick_count THEN deadline - systick_count + TickModulus
                  ELSE deadline - systick_count
        /\ rest \in Nat /\ rest < TickModulus
    BY <1>1
  <2> HIDE DEF rest
  <2>2. (systick_count + rest) % TickModulus = deadline
    BY <1>1, <2>1
  <2>3. rest # OS_WAIT_FOREVER
    <3> SUFFICES ASSUME rest = TickModulus - 1 PROVE FALSE
      BY DEF OS_WAIT_FOREVER
    <3>1. (systick_count - deadline) % TickModulus = 1
      BY <1>1, <2>1
    <3>2. 1 < TickModulus \div 2
      BY TickAssumption
    <3> QED BY <1>3, <3>1, <3>2 DEF Passed, Reached
  <2> QED BY <1>1, <1>3, <2>1, <2>2, <2>3 DEF rest, RemainingTimeout, Deadline, Ticks
<1> QED BY <1>2, <1>3

\* A call that finds the queue not ready blocks: whatever it was woken for is gone, so
\* nothing is left for the tasks in the list to be woken for.
LEMMA BlockKeeps ==
    ASSUME QueueInv, NEW t \in UserTasks, NEW w \in Sides, NEW deadline \in Ticks,
           Blocks(t, w, deadline)
    PROVE  QueueInv'
<1> USE SidesDiffer, NullAssumption DEF QueueInv, CoreInv, CoreTypeOK, Sides
<1>1. PICK reason \in Reasons \ {"NONE"} : WaitRound(w, deadline, reason)
  BY DEF Blocks
<1>2. /\ RemainingTimeout(deadline) \in Ticks
      /\ Deadline(RemainingTimeout(deadline)) = deadline
  BY <1>1, DeadlineOfRemaining DEF WaitRound
<1>3. /\ waitlist_block_current(w, RemainingTimeout(deadline), reason)
      /\ UNCHANGED <<effective_priority, count, head, tail, buffer, received, dropped_count>>
  BY <1>1 DEF WaitRound, ringVars
<1>4. /\ OnCpu(t) /\ current_task = t /\ w \in Waitlists /\ w # NULL
      /\ blocked_waitlist[t] = NULL /\ in_call[t] \in {NULL, w}
  BY RunningIsInNoList DEF Blocks, OnCpu
<1>5. \A u \in UserTasks :
         /\ current_state'[u] = IF u = t THEN "BLOCKED" ELSE current_state[u]
         /\ wakeup_tick'[u] = IF u = t THEN deadline ELSE wakeup_tick[u]
         /\ blocked_waitlist'[u] = IF u = t THEN w ELSE blocked_waitlist[u]
         /\ in_call'[u] = IF u = t THEN w ELSE in_call[u]
         /\ timeout'[u] = timeout[u]
  BY <1>2, <1>3, <1>4, IdleIsNoUserTask, Zenon
  DEF waitlist_block_current, BlockCurrent
<1>6. CoreInv'
  BY <1>2, <1>3, <1>4, BlockKeepsCore
<1>7. QueueTypeOK'
  <2>1. outgoing' \in [UserTasks -> Items \cup {NoItem}] /\ deadline_tick' \in [UserTasks -> Ticks]
    BY DEF QueueTypeOK, Blocks
  <2> QED BY <1>3, <1>6, <2>1 DEF QueueTypeOK
<1>8. RingIntact'
  BY <1>3 DEF RingIntact
<1>9. SendersCarryItems'
  BY <1>5 DEF SendersCarryItems, Blocks, QueueTypeOK
<1>10. HighestPriorityRuns'
  BY <1>3 DEF HighestPriorityRuns, waitlist_block_current, BlockCurrent, port_yield
<1>11. DelayedInNoCall'
  BY <1>4, <1>5 DEF DelayedInNoCall
<1>12. DeadlineKept'
  <2>1. \A u \in UserTasks : deadline_tick'[u] = IF u = t THEN deadline ELSE deadline_tick[u]
    BY DEF Blocks, QueueTypeOK
  <2> QED BY <1>5, <2>1 DEF DeadlineKept
<1>13. NoLostWakeup'
  <2>1. \A v \in Sides \ {w} : waiters'[v] = waiters[v] /\ WokenFor(v)' = WokenFor(v)
    BY <1>3, <1>4, <1>5 DEF WokenFor, waitlist_block_current, AppendCurrent
  <2>2. /\ w = send_waitlist => max_items - count <= 0
        /\ w = recv_waitlist => count <= 0
    BY SizeAssumption DEF Blocks, NotReady, IsFull, IsEmpty, QueueTypeOK
  <2> QED BY <1>3, <2>1, <2>2, WokenCounts, SizeAssumption DEF NoLostWakeup, QueueTypeOK
<1> QED BY <1>6, <1>7, <1>8, <1>9, <1>10, <1>11, <1>12, <1>13

\* A call that gives up was woken by its deadline, or for something that is gone.
LEMMA GiveUpKeeps ==
    ASSUME QueueInv, NEW t \in UserTasks, NEW w \in Sides, GivesUp(t, w)
    PROVE  QueueInv'
<1> USE SidesDiffer, NullAssumption DEF QueueInv, CoreInv, CoreTypeOK, Sides
<1>1. /\ OnCpu(t) /\ in_call[t] = w /\ Leave(t)
      /\ timeout[t] \/ NotReady(w)
      /\ UNCHANGED <<current_task, current_state, pendsv, effective_priority, wakeup_tick,
                     block_reason, timeout, systick_count, waiters, ahead, blocked_waitlist,
                     count, head, tail, buffer, received, dropped_count>>
  BY DEF GivesUp, GiveUp, Woken, schedVars, listVars, ringVars
<1>2. blocked_waitlist[t] = NULL /\ current_state[t] # "BLOCKED"
  BY <1>1, RunningIsInNoList DEF OnCpu, ProcessorConsistent
<1>3. /\ in_call' = [in_call EXCEPT ![t] = NULL]
      /\ outgoing' = [outgoing EXCEPT ![t] = NoItem]
      /\ deadline_tick' = [deadline_tick EXCEPT ![t] = 0]
  BY <1>1 DEF Leave
<1>4. CoreInv'
  BY <1>1, <1>2, <1>3 DEF TCBMatchesWaitlists, ProcessorConsistent
<1>5. QueueTypeOK'
  BY <1>1, <1>3, <1>4, TickAssumption DEF QueueTypeOK, Ticks
<1>6. RingIntact' /\ SendersCarryItems'
  BY <1>1, <1>3 DEF RingIntact, SendersCarryItems
<1>7. HighestPriorityRuns' /\ DelayedInNoCall' /\ DeadlineKept'
  BY <1>1, <1>2, <1>3
  DEF HighestPriorityRuns, ReadyTasks, DelayedInNoCall, DeadlineKept, QueueTypeOK
<1>8. NoLostWakeup'
  <2>1. \A v \in Sides : timeout[t] \/ v # w => WokenFor(v)' = WokenFor(v)
    BY <1>1, <1>3 DEF WokenFor
  <2>2. /\ w = send_waitlist /\ ~timeout[t] => max_items - count <= 0
        /\ w = recv_waitlist /\ ~timeout[t] => count <= 0
    BY <1>1, SizeAssumption DEF NotReady, IsFull, IsEmpty, QueueTypeOK
  <2> QED BY <1>1, <2>1, <2>2, WokenCounts, SizeAssumption DEF NoLostWakeup, QueueTypeOK
<1> QED BY <1>4, <1>5, <1>6, <1>7, <1>8

\* os_tick: whom it wakes is not on an errand for the queue.
LEMMA TickKeeps ==
    ASSUME QueueInv, QueueTick
    PROVE  QueueInv'
<1> USE SidesDiffer, NullAssumption DEF QueueInv, CoreInv, CoreTypeOK
<1> DEFINE expired == Expired((systick_count + 1) % TickModulus)
<1>1. /\ unblock_tasks(expired) /\ pendsv' = TRUE
      /\ UNCHANGED <<current_task, effective_priority, in_call, count, head, tail, buffer,
                     received, dropped_count, outgoing, deadline_tick>>
  BY DEF QueueTick, os_tick, port_yield, queueOnly, ringVars, localVars
<1>2. \A t \in expired : t \in UserTasks /\ current_state[t] = "BLOCKED"
  BY DEF Expired
<1>3. CoreInv'
  BY TickKeepsCore DEF QueueTick
<1> HIDE DEF expired
<1>4. \A t \in expired : blocked_waitlist[t] # NULL <=> FoundInList(t)
  BY <1>2 DEF TCBMatchesWaitlists, FoundInList
<1>5. \A t \in UserTasks :
         /\ current_state'[t] = IF t \in expired THEN "READY" ELSE current_state[t]
         /\ blocked_waitlist'[t] = IF t \in expired THEN NULL ELSE blocked_waitlist[t]
         /\ timeout'[t] = IF t \in expired THEN blocked_waitlist[t] # NULL ELSE timeout[t]
         /\ t \notin expired => wakeup_tick'[t] = wakeup_tick[t]
  BY <1>1, <1>4, IdleIsNoUserTask DEF unblock_tasks, FoundInList
<1>6. QueueTypeOK'
  BY <1>1, <1>3 DEF QueueTypeOK
<1>7. RingIntact' /\ SendersCarryItems' /\ HighestPriorityRuns'
  BY <1>1 DEF RingIntact, SendersCarryItems, HighestPriorityRuns
<1>8. DelayedInNoCall' /\ DeadlineKept'
  BY <1>1, <1>5 DEF DelayedInNoCall, DeadlineKept
<1>9. NoLostWakeup'
  <2>1. \A w \in Waitlists : waiters'[w] \subseteq waiters[w]
    BY <1>1 DEF unblock_tasks, Remove
  <2>2. ASSUME NEW w \in Waitlists PROVE WokenFor(w)' = WokenFor(w)
    <3>1. ASSUME NEW t \in expired PROVE t \notin WokenFor(w) /\ t \notin WokenFor(w)'
      <4>1. CASE blocked_waitlist[t] = NULL
        BY <1>1, <1>2, <4>1 DEF WokenFor, DelayedInNoCall
      <4>2. CASE blocked_waitlist[t] # NULL
        BY <1>2, <1>5, <4>2 DEF WokenFor
      <4> QED BY <4>1, <4>2
    <3>2. ASSUME NEW t \in UserTasks \ expired PROVE t \in WokenFor(w) <=> t \in WokenFor(w)'
      <4>1. /\ blocked_waitlist'[t] = blocked_waitlist[t] /\ timeout'[t] = timeout[t]
            /\ in_call'[t] = in_call[t]
        BY <1>1, <1>5, Zenon
      <4> QED BY <4>1 DEF WokenFor
    <3>3. WokenFor(w) \subseteq UserTasks /\ WokenFor(w)' \subseteq UserTasks
      BY DEF WokenFor
    <3>4. \A t \in UserTasks : t \in WokenFor(w) <=> t \in WokenFor(w)'
      BY <3>1, <3>2
    <3> QED BY <3>3, <3>4, Zenon
  <2> QED BY <1>1, <2>1, <2>2 DEF NoLostWakeup
<1> QED BY <1>3, <1>6, <1>7, <1>8, <1>9

\* PendSV, os_task_delay and a dropped item leave the queue and its waits alone.
LEMMA OthersKeep ==
    ASSUME QueueInv,
           \/ UNCHANGED queueVars \/ QueueSwitch \/ IsrDrop
           \/ \E t \in UserTasks, ticks \in Ticks : QueueDelay(t, ticks)
    PROVE  QueueInv'
<1> USE SidesDiffer, NullAssumption DEF QueueInv, CoreInv, CoreTypeOK
<1>1. /\ UNCHANGED <<waiters, ahead, blocked_waitlist, timeout, in_call, count, head, tail,
                     buffer, received, outgoing, deadline_tick>>
      /\ dropped_count' \in 0 .. MaxDropped
  BY SizeAssumption
  DEF queueVars, coreVars, QueueSwitch, PendSV_Handler, IsrDrop, QueueDelay, os_task_delay,
      BlockCurrent, listVars, queueOnly, ringVars, localVars, QueueTypeOK
<1>2. RingIntact' /\ SendersCarryItems' /\ NoLostWakeup'
  BY <1>1 DEF RingIntact, SendersCarryItems, NoLostWakeup, WokenFor
<1>3. CASE UNCHANGED queueVars \/ IsrDrop
  <2>1. UNCHANGED coreVars
    BY <1>3 DEF queueVars, IsrDrop
  <2>2. CoreInv' /\ HighestPriorityRuns' /\ DelayedInNoCall'
    BY <2>1 DEF coreVars, TCBMatchesWaitlists, ProcessorConsistent, HighestPriorityRuns,
                ReadyTasks, DelayedInNoCall
  <2>3. QueueTypeOK' /\ DeadlineKept'
    BY <1>1, <2>1, <2>2 DEF coreVars, QueueTypeOK, DeadlineKept
  <2> QED BY <1>2, <2>2, <2>3
<1>4. CASE QueueSwitch
  <2>1. CoreInv' /\ HighestPriorityRuns'
    BY <1>4, SwitchKeepsCore, SwitchPicksBest DEF QueueSwitch
  <2>2. wakeup_tick' = wakeup_tick
    BY <1>4 DEF QueueSwitch, PendSV_Handler
  <2>3. \A t \in UserTasks : current_state'[t] = "BLOCKED" => current_state[t] = "BLOCKED"
    BY <1>4, IdleIsNoUserTask DEF QueueSwitch, PendSV_Handler, os_schedule_next_task, RunningToReady
  <2>4. DelayedInNoCall' /\ DeadlineKept' /\ QueueTypeOK'
    BY <1>1, <2>1, <2>2, <2>3 DEF DelayedInNoCall, DeadlineKept, QueueTypeOK
  <2> QED BY <1>2, <2>1, <2>4
<1>5. ASSUME NEW t \in UserTasks, NEW ticks \in Ticks, QueueDelay(t, ticks)
      PROVE  QueueInv'
  <2>1. CoreInv'
    BY <1>5, DelayKeepsCore DEF QueueDelay
  <2>2. HighestPriorityRuns'
    BY <1>5 DEF QueueDelay, os_task_delay, BlockCurrent, port_yield, HighestPriorityRuns
  <2>3. blocked_waitlist[t] = NULL /\ current_task = t /\ in_call[t] = NULL
    BY <1>5, RunningIsInNoList DEF QueueDelay, os_task_delay, InApplication, OnCpu
  <2>4. /\ wakeup_tick' = [wakeup_tick EXCEPT ![t] = Deadline(ticks)]
        /\ current_state' = [current_state EXCEPT ![t] = "BLOCKED"]
    BY <1>5, <2>3 DEF QueueDelay, os_task_delay, BlockCurrent
  <2>5. DelayedInNoCall' /\ DeadlineKept' /\ QueueTypeOK'
    BY <1>1, <2>1, <2>3, <2>4, IdleIsNoUserTask DEF DelayedInNoCall, DeadlineKept, QueueTypeOK
  <2> QED BY <1>2, <2>1, <2>2, <2>5
<1> QED BY <1>3, <1>4, <1>5

-----------------------------------------------------------------------------
\* The initial state, after os_queue_create.
LEMMA QueueInitInv == QueueInit => QueueInv
<1> SUFFICES ASSUME QueueInit PROVE QueueInv
  OBVIOUS
<1> USE SidesDiffer, NullAssumption DEF QueueInit
<1>1. CoreInv /\ HighestPriorityRuns
  BY InitCore, InitPicksBest
<1>2. QueueTypeOK
  BY <1>1, SizeAssumption, TickAssumption DEF QueueTypeOK, CoreInv, Slots, Ticks
<1>3. RingIntact
  <2>1. max_items \in Nat \ {0}
    BY SizeAssumption
  <2>2. (0 + 0) % max_items = 0
    BY <2>1
  <2> QED BY <2>2 DEF RingIntact
<1>4. SendersCarryItems /\ DelayedInNoCall /\ DeadlineKept /\ NoLostWakeup
  BY DEF CoreInit, SendersCarryItems, DelayedInNoCall, DeadlineKept, NoLostWakeup
<1> QED BY <1>1, <1>2, <1>3, <1>4 DEF QueueInv

\* The conjunction is inductive.
LEMMA QueueInvStep == QueueInv /\ [QueueNext]_queueVars => QueueInv'
<1> SUFFICES ASSUME QueueInv, [QueueNext]_queueVars PROVE QueueInv'
  OBVIOUS
<1> QED BY QueueSteps, PutKeeps, TakeKeeps, BlockKeeps, GiveUpKeeps, TickKeeps, OthersKeep

\* It holds in every reachable state.
THEOREM QueueInvariant == QueueSpec => []QueueInv
BY QueueInitInv, QueueInvStep, PTL DEF QueueSpec

\* Every variable keeps its type: the ring's indexes stay in the buffer and the count
\* within its size, whoever sends and receives.
THEOREM QueueTypeCorrect == QueueSpec => []QueueTypeOK
<1>1. QueueInv => QueueTypeOK
  BY DEF QueueInv
<1> QED BY <1>1, QueueInvariant, PTL

\* No better task is left ready without a pending switch (port_yield in the queue calls,
\* waitlist_unblock, os_tick, and the scan of os_schedule_next_task).
THEOREM QueueHighestPriorityRuns == QueueSpec => []HighestPriorityRuns
<1>1. QueueInv => HighestPriorityRuns
  BY DEF QueueInv
<1> QED BY <1>1, QueueInvariant, PTL

\* Every step of the queue that makes a task ready or stops the running one pends PendSV.
LEMMA QueueScheduling ==
    ASSUME QueueInv, [QueueNext]_queueVars
    PROVE  SchedulingStep
<1> USE DEF SchedulingStep
<1>1. ASSUME NEW w \in Sides, WakeOne(w) PROVE SchedulingStep
  BY <1>1 DEF WakeOne, port_yield, NothingToUnblock
<1>2. (\E item \in Items : Puts(item)) \/ Takes => SchedulingStep
  BY <1>1 DEF Puts, Takes, PutItem, TakeItem, Sides
<1>3. ASSUME NEW t \in UserTasks, NEW w \in Sides, NEW deadline \in Ticks,
             Blocks(t, w, deadline)
      PROVE  pendsv' = TRUE
  BY <1>3 DEF Blocks, WaitRound, waitlist_block_current, BlockCurrent, port_yield
<1>4. ASSUME NEW t \in UserTasks, NEW w \in Sides, GivesUp(t, w)
      PROVE  UNCHANGED <<current_task, current_state, pendsv, effective_priority>>
  BY <1>4 DEF GivesUp, GiveUp, schedVars
<1>5. ASSUME NEW t \in UserTasks, NEW ticks \in Ticks, QueueDelay(t, ticks)
      PROVE  pendsv' = TRUE
  BY <1>5 DEF QueueDelay, os_task_delay, BlockCurrent, port_yield
<1>6. (QueueTick => pendsv' = TRUE) /\ (QueueSwitch => PendSV_Handler)
  BY DEF QueueTick, os_tick, port_yield, QueueSwitch
<1>7. IsrDrop \/ UNCHANGED queueVars =>
         UNCHANGED <<current_task, current_state, pendsv, effective_priority>>
  BY DEF IsrDrop, queueVars, coreVars
<1> QED BY <1>2, <1>3, <1>4, <1>5, <1>6, <1>7, QueueSteps

\* Round robin among senders and receivers: with every switch the turn of a ready task that
\* none outranks comes closer (os_schedule_next_task).
THEOREM QueueTurnComesCloser == QueueSpec => TurnComesCloser
<1>1. QueueInv /\ [QueueNext]_queueVars => [SwitchServesTurns]_coreVars
  BY QueueScheduling, SchedulingServesTurns DEF QueueInv, SchedulingStep
<1> QED BY <1>1, QueueInitInv, QueueInvStep, PTL DEF QueueSpec, TurnComesCloser

\* Every slot or item that would serve a waiting task has a woken task on its way to it
\* (os_queue_send_from_task, os_queue_recv_from_task and the from_isr variants).
THEOREM QueueNoLostWakeup == QueueSpec => []NoLostWakeup
<1>1. QueueInv => NoLostWakeup
  BY DEF QueueInv
<1> QED BY <1>1, QueueInvariant, PTL

\* However often a call blocks again, its block ends at the deadline it began with: the
\* remaining timeout, computed modulo 2^32, never turns into OS_WAIT_FOREVER and never
\* moves the deadline (the wait loops of the queue calls).
THEOREM QueueDeadlineKept == QueueSpec => []DeadlineKept
<1>1. QueueInv => DeadlineKept
  BY DEF QueueInv
<1> QED BY <1>1, QueueInvariant, PTL

-----------------------------------------------------------------------------
(* The order of the waiting tasks.                                          *)

\* Every step that touches one of the two lists is a block, the wake-up of the other side,
\* or a tick.
LEMMA QueueListSteps ==
    ASSUME QueueInv, [QueueNext]_queueVars
    PROVE  WaitlistStep
<1> USE SidesDiffer DEF QueueInv
<1>1. QueueTick => WaitlistStep
  BY TickIsWaitlistStep DEF QueueTick
<1>2. ASSUME NEW t \in UserTasks, NEW w \in Sides, NEW deadline \in Ticks,
             Blocks(t, w, deadline)
      PROVE  WaitlistStep
  BY <1>2, RunningIsInNoList
  DEF Blocks, OnCpu, WaitRound, waitlist_block_current, WaitlistStep
<1>3. ASSUME NEW w \in Sides, WakeOne(w) PROVE WaitlistStep
  BY <1>3 DEF WakeOne, waitlist_unblock, NothingToUnblock, listVars, WaitlistStep
<1>4. (\E item \in Items : Puts(item)) \/ Takes => WaitlistStep
  BY <1>3 DEF Puts, Takes, PutItem, TakeItem, Sides
<1>5. ASSUME NEW t \in UserTasks, NEW w \in Sides, GivesUp(t, w)
      PROVE  UNCHANGED <<waiters, ahead>>
  BY <1>5 DEF GivesUp, GiveUp, listVars
<1>6. ASSUME NEW t \in UserTasks, NEW ticks \in Ticks, QueueDelay(t, ticks)
      PROVE  UNCHANGED <<waiters, ahead>>
  BY <1>6 DEF QueueDelay, os_task_delay, listVars
<1>7. IsrDrop \/ QueueSwitch \/ UNCHANGED queueVars => UNCHANGED <<waiters, ahead>>
  BY DEF IsrDrop, QueueSwitch, PendSV_Handler, listVars, queueVars, coreVars
<1>8. UNCHANGED <<waiters, ahead>> => WaitlistStep
  BY DEF WaitlistStep
<1> QED BY <1>1, <1>2, <1>4, <1>5, <1>6, <1>7, <1>8, QueueSteps

\* A waiting sender or receiver is woken before those that came later, but for a deadline or
\* a better priority; one that is woken and blocks again has come anew.
THEOREM QueueNoOvertaking == QueueSpec => NoOvertaking
<1>1. QueueInv /\ [QueueNext]_queueVars =>
         [\A w \in Waitlists : \A u \in waiters[w] : \A t \in ahead[u] \cap waiters'[w] :
             LeavesTheirOrder(w, t, u)]_coreVars
  BY QueueListSteps, WaitlistStepInOrder DEF QueueInv
<1> QED BY <1>1, QueueInitInv, QueueInvStep, PTL DEF QueueSpec, NoOvertaking

\* send_waitlist and recv_waitlist are arrays without gaps or duplicates.
THEOREM QueueWaitlistsAreArrays == QueueSpec => []WaitlistsAreArrays
<1>1. QueueInit => ListsOrdered
  BY InitOrdered DEF QueueInit
<1>2. QueueInv /\ ListsOrdered /\ [QueueNext]_queueVars => ListsOrdered'
  BY QueueListSteps, WaitlistStepKeepsOrder DEF QueueInv
<1>3. QueueInv /\ ListsOrdered => WaitlistsAreArrays
  BY OrderMakesArrays DEF QueueInv
<1> QED BY <1>1, <1>2, <1>3, QueueInitInv, QueueInvStep, PTL DEF QueueSpec

-----------------------------------------------------------------------------
(* The queue implements BoundedFifo.                                        *)

\* The slot of the i-th item.
Slot(i) == (tail + i - 1) % max_items

contentsNow == [i \in 1 .. count |-> buffer[Slot(i)]]

\* The ring's indexes as numbers.
RingNumbers ==
    /\ max_items \in Nat \ {0} /\ count \in Nat /\ count <= max_items
    /\ head \in Nat /\ head < max_items /\ tail \in Nat /\ tail < max_items

\* They are, in every state of the invariant.
LEMMA RingOfInv == QueueInv => RingNumbers
BY SizeAssumption DEF QueueInv, QueueTypeOK, Slots, RingNumbers

\* The slots of the items are those from tail on, with one wrap-around at most, and the
\* next to be written is the one behind the last.
SlotsInOrder ==
    /\ \A i \in 1 .. max_items :
          /\ Slot(i) \in Slots
          /\ Slot(i) = IF tail + i - 1 < max_items THEN tail + i - 1
                       ELSE tail + i - 1 - max_items
    /\ head = IF tail + count < max_items THEN tail + count
              ELSE tail + count - max_items

\* They are: the code's modulo is one subtraction at most.
LEMMA SlotsOfInv == QueueInv => SlotsInOrder
<1> SUFFICES ASSUME QueueInv PROVE SlotsInOrder
  OBVIOUS
<1>1. RingNumbers
  BY RingOfInv
<1>2. ASSUME NEW i \in 1 .. max_items
      PROVE  /\ Slot(i) \in Slots
             /\ Slot(i) = IF tail + i - 1 < max_items THEN tail + i - 1
                          ELSE tail + i - 1 - max_items
  BY <1>1, <1>2 DEF RingNumbers, Slot, Slots
<1>3. (tail + count) % max_items = IF tail + count < max_items THEN tail + count
                                   ELSE tail + count - max_items
  BY <1>1 DEF RingNumbers
<1> QED BY <1>2, <1>3 DEF QueueInv, RingIntact, SlotsInOrder

\* contentsNow is a sequence of count elements.
ContentsIsSeq ==
    /\ contentsNow \in Seq(Items \cup {NoItem})
    /\ Len(contentsNow) = count
    /\ \A i \in 1 .. count : contentsNow[i] = buffer[Slot(i)]

\* It is one in every state of the invariant.
LEMMA ContentsOfInv == QueueInv => ContentsIsSeq
<1> SUFFICES ASSUME QueueInv PROVE ContentsIsSeq
  OBVIOUS
<1>1. \A i \in 1 .. count : buffer[Slot(i)] \in Items \cup {NoItem}
  BY RingOfInv, SlotsOfInv DEF RingNumbers, SlotsInOrder, QueueInv, QueueTypeOK
<1>2. contentsNow \in [1 .. count -> Items \cup {NoItem}] /\ count \in Nat
  BY <1>1, RingOfInv DEF contentsNow, RingNumbers
<1>3. contentsNow \in Seq(Items \cup {NoItem})
  BY <1>2, SeqDef
<1> QED BY <1>2, <1>3, LenProperties DEF contentsNow, ContentsIsSeq

\* An empty queue holds the empty sequence.
LEMMA RefInit == QueueInit => Fifo!Init
<1> SUFFICES ASSUME QueueInit PROVE Fifo!Init
  OBVIOUS
<1>1. Len(contentsNow) = 0 /\ contentsNow \in Seq(Items \cup {NoItem})
  BY QueueInitInv, ContentsOfInv DEF ContentsIsSeq, QueueInit
<1>2. contentsNow = <<>>
  BY <1>1, EmptySeq
<1>3. received \notin Items
  BY ItemsAssumption DEF QueueInit
<1> QED BY <1>2, <1>3 DEF contentsNow, Slot, Fifo!Init

\* A send appends: the slot at head is none of the slots in use, even when the indexes
\* have wrapped around.
LEMMA PutRefines ==
    ASSUME QueueInv, NEW item \in Items, Puts(item)
    PROVE  Fifo!Send(item)
<1> DEFINE S == Items \cup {NoItem}
<1>1. /\ buffer' = [buffer EXCEPT ![head] = item] /\ count' = count + 1
      /\ UNCHANGED <<tail, received>> /\ count < max_items
      /\ buffer \in [Slots -> S] /\ head \in Slots
  BY SizeAssumption DEF Puts, PutItem, IsFull, QueueInv, QueueTypeOK
<1>2. RingNumbers
  BY RingOfInv
<1>3. /\ contentsNow \in Seq(S) /\ Len(contentsNow) = count
      /\ \A i \in 1 .. count : contentsNow[i] = buffer[Slot(i)]
  BY ContentsOfInv DEF ContentsIsSeq
<1>4. /\ contentsNow' \in Seq(S) /\ Len(contentsNow') = count'
      /\ \A i \in 1 .. count' : contentsNow'[i] = buffer'[Slot(i)']
  <2>1. QueueInv'
    BY PutKeeps
  <2>2. ContentsIsSeq'
    BY <2>1, ContentsOfInv, PTL
  <2> QED BY <2>2 DEF ContentsIsSeq
<1>5. \A i : Slot(i)' = Slot(i)
  BY <1>1 DEF Slot
<1>6. Slot(count + 1) = head
  BY <1>1, <1>2, SlotsOfInv DEF RingNumbers, SlotsInOrder
<1>7. \A i \in 1 .. count : Slot(i) # head /\ Slot(i) \in Slots
  BY <1>1, <1>2, SlotsOfInv DEF RingNumbers, SlotsInOrder
<1>8. contentsNow' = Append(contentsNow, item)
  <2>1. /\ Append(contentsNow, item) \in Seq(S)
        /\ Len(Append(contentsNow, item)) = count + 1
        /\ \A i \in 1 .. count + 1 :
              Append(contentsNow, item)[i] = IF i <= count THEN contentsNow[i] ELSE item
    BY <1>2, <1>3, AppendProperties DEF RingNumbers
  <2>2. ASSUME NEW i \in 1 .. count + 1
        PROVE  contentsNow'[i] = Append(contentsNow, item)[i]
    <3>1. contentsNow'[i] = buffer'[Slot(i)]
      BY <1>1, <1>4, <1>5
    <3>2. CASE i <= count
      BY <1>1, <1>3, <1>7, <2>1, <3>1, <3>2
    <3>3. CASE i = count + 1
      <4>1. buffer'[head] = item
        BY <1>1
      <4>2. ~(i <= count)
        BY <1>2, <3>3 DEF RingNumbers
      <4>3. Append(contentsNow, item)[i] = item
        BY <2>1, <4>2
      <4> QED BY <1>6, <3>1, <3>3, <4>1, <4>3
    <3>4. i <= count \/ i = count + 1
      BY <1>2, <2>2 DEF RingNumbers
    <3> QED BY <3>2, <3>3, <3>4, Zenon
  <2> HIDE DEF S
  <2> QED BY <1>1, <1>4, <2>1, <2>2, SeqEqual
<1>9. Len(contentsNow) < max_items
  BY <1>1, <1>3
<1> QED BY <1>1, <1>8, <1>9 DEF contentsNow, Slot, Fifo!Send

\* A receive takes the head: the slots of the others keep their order.
LEMMA TakeRefines ==
    ASSUME QueueInv, Takes
    PROVE  Fifo!Receive
<1> DEFINE S == Items \cup {NoItem}
<1>1. /\ received' = buffer[tail] /\ count' = count - 1 /\ buffer' = buffer
      /\ tail' = (tail + 1) % max_items /\ count # 0
  BY DEF Takes, TakeItem, IsEmpty
<1>2. RingNumbers
  BY RingOfInv
<1>3. /\ contentsNow \in Seq(S) /\ Len(contentsNow) = count
      /\ \A i \in 1 .. count : contentsNow[i] = buffer[Slot(i)]
  BY ContentsOfInv DEF ContentsIsSeq
<1>4. QueueInv'
  BY TakeKeeps
<1>5. /\ contentsNow' \in Seq(S) /\ Len(contentsNow') = count'
      /\ \A i \in 1 .. count' : contentsNow'[i] = buffer'[Slot(i)']
  <2>1. ContentsIsSeq'
    BY <1>4, ContentsOfInv, PTL
  <2> QED BY <2>1 DEF ContentsIsSeq
<1>6. contentsNow # <<>>
  BY <1>1, <1>3, EmptySeq
<1>7. \A i \in 1 .. count' : Slot(i)' = Slot(i + 1)
  <2> SUFFICES ASSUME NEW i \in 1 .. count' PROVE Slot(i)' = Slot(i + 1)
    OBVIOUS
  <2>1. /\ i \in Nat /\ 1 <= i /\ i < count /\ i + 1 \in 1 .. max_items /\ i \in 1 .. max_items
    BY <1>1, <1>2 DEF RingNumbers
  <2>2. tail' = IF tail + 1 < max_items THEN tail + 1 ELSE tail + 1 - max_items
    <3>1. (tail + 1) % max_items = IF tail + 1 < max_items THEN tail + 1
                                   ELSE tail + 1 - max_items
      BY <1>2 DEF RingNumbers
    <3> QED BY <1>1, <3>1
  <2>3. Slot(i + 1) = IF tail + i < max_items THEN tail + i ELSE tail + i - max_items
    BY <1>2, <2>1, SlotsOfInv DEF RingNumbers, SlotsInOrder
  <2>4. Slot(i)' = IF tail' + i - 1 < max_items THEN tail' + i - 1
                   ELSE tail' + i - 1 - max_items
    <3>1. SlotsInOrder'
      BY <1>4, SlotsOfInv, PTL
    <3> QED BY <2>1, <3>1 DEF SlotsInOrder
  <2> QED BY <1>2, <2>1, <2>2, <2>3, <2>4 DEF RingNumbers
<1>8. contentsNow' = Tail(contentsNow)
  <2>1. /\ Tail(contentsNow) \in Seq(S) /\ Len(Tail(contentsNow)) = count - 1
        /\ \A i \in 1 .. count - 1 : Tail(contentsNow)[i] = contentsNow[i + 1]
    BY <1>3, <1>6, HeadTailProperties
  <2>2. ASSUME NEW i \in 1 .. count - 1
        PROVE  contentsNow'[i] = Tail(contentsNow)[i]
    <3>1. i \in 1 .. count' /\ i + 1 \in 1 .. count
      BY <1>1, <1>2 DEF RingNumbers
    <3> QED BY <1>1, <1>3, <1>5, <1>7, <2>1, <3>1
  <2> HIDE DEF S
  <2> QED BY <1>1, <1>5, <2>1, <2>2, SeqEqual
<1>9. received' = Head(contentsNow)
  <2>1. Head(contentsNow) = contentsNow[1]
    BY <1>3, <1>6
  <2>2. 1 \in 1 .. count /\ 1 \in 1 .. max_items
    BY <1>1, <1>2 DEF RingNumbers
  <2>3. Slot(1) = tail
    BY <1>2, <2>2, SlotsOfInv DEF RingNumbers, SlotsInOrder
  <2> QED BY <1>1, <1>3, <2>1, <2>2, <2>3
<1> QED BY <1>6, <1>8, <1>9 DEF contentsNow, Slot, Fifo!Receive

\* Every other step leaves the ring alone.
LEMMA OthersRefine ==
    ASSUME QueueInv,
           \/ UNCHANGED queueVars \/ QueueTick \/ QueueSwitch \/ IsrDrop
           \/ \E t \in UserTasks, w \in Sides, deadline \in Ticks : Blocks(t, w, deadline)
           \/ \E t \in UserTasks, w \in Sides : GivesUp(t, w)
           \/ \E t \in UserTasks, ticks \in Ticks : QueueDelay(t, ticks)
    PROVE  UNCHANGED <<contentsNow, received>>
<1>1. UNCHANGED <<count, tail, buffer, received>>
  BY DEF queueVars, QueueTick, QueueSwitch, IsrDrop, Blocks, WaitRound, GivesUp, GiveUp,
         QueueDelay, queueOnly, ringVars
<1> QED BY <1>1 DEF contentsNow, Slot

\* No item is lost, duplicated, overwritten or delivered out of order, whoever sends and
\* receives, blocks, is woken in vain and gives up (os_queue_send_from_task,
\* os_queue_recv_from_task and the from_isr variants).
THEOREM QueueIsBoundedFifo == QueueSpec => IsBoundedFifo
<1>1. QueueInv /\ [QueueNext]_queueVars => [Fifo!Next]_(Fifo!vars)
  <2> SUFFICES ASSUME QueueInv, [QueueNext]_queueVars PROVE [Fifo!Next]_(Fifo!vars)
    OBVIOUS
  <2>1. ASSUME NEW item \in Items, Puts(item) PROVE Fifo!Next
    BY <2>1, PutRefines DEF Fifo!Next
  <2>2. CASE Takes
    BY <2>2, TakeRefines DEF Fifo!Next
  <2> QED BY <2>1, <2>2, QueueSteps, OthersRefine DEF contentsNow, Slot, Fifo!vars
<1> QED BY QueueInvariant, RefInit, <1>1, PTL DEF QueueSpec, IsBoundedFifo, Fifo!Spec

=============================================================================
