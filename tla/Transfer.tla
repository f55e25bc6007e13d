-------------------------------- MODULE Transfer --------------------------------
(***************************************************************************)
(* What the drivers promise of one direction of a bus (hal.md, the USART,  *)
(* SPI and I2C sections): a transfer moves the words of its buffer in      *)
(* order, each once, and is reported complete once, when all have moved.   *)
(***************************************************************************)
EXTENDS Naturals, Sequences

CONSTANT Sizes   \* the lengths of the transfers

VARIABLES
    active,   \* a transfer is under way
    size,     \* the length asked for
    moved,    \* the words moved since it started
    reports   \* the completions reported since it started

vars == <<active, size, moved, reports>>

Init == ~active /\ size = 0 /\ moved = <<>> /\ reports = 0

Start ==
    /\ ~active
    /\ active'
    /\ size' \in Sizes
    /\ moved' = <<>>
    /\ reports' = 0

MoveOne ==
    /\ Len(moved) < size
    /\ moved' = Append(moved, Len(moved) + 1)

Move ==
    /\ active
    /\ MoveOne
    /\ UNCHANGED <<active, size, reports>>

\* The report may come with the last word.
Complete ==
    /\ active
    /\ MoveOne \/ UNCHANGED moved
    /\ Len(moved') = size
    /\ ~active'
    /\ reports' = reports + 1
    /\ UNCHANGED size

Next == Start \/ Move \/ Complete

Spec == Init /\ [][Next]_vars

\* Every transfer ends.
Ends == active ~> ~active

=============================================================================
