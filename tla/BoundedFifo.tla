------------------------------ MODULE BoundedFifo ------------------------------
(***************************************************************************)
(* What a message queue promises (kernel.md, "Message Queues"): at most    *)
(* max_items items, copied in at one end and out at the other in the order *)
(* they came, whoever sends and receives.                                  *)
(***************************************************************************)
EXTENDS Naturals, Sequences

CONSTANTS Items, MaxItems

VARIABLES
    contents,  \* the items in the queue, the oldest first
    received   \* the item the last successful receive copied out

vars == <<contents, received>>

Init == contents = <<>> /\ received \notin Items

Send(item) ==
    /\ Len(contents) < MaxItems
    /\ contents' = Append(contents, item)
    /\ UNCHANGED received

Receive ==
    /\ contents # <<>>
    /\ received' = Head(contents)
    /\ contents' = Tail(contents)

Next == Receive \/ \E item \in Items : Send(item)

Spec == Init /\ [][Next]_vars

=============================================================================
