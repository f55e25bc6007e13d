--------------------------- MODULE AbstractSemaphore ---------------------------
(***************************************************************************)
(* What the semaphores promise (api.md, "Semaphores"): a permit is either  *)
(* free or has been handed to one waiting call, a release hands its permit *)
(* to a waiting call when there is one, and calls give up only as time     *)
(* passes, taking no permit with them.                                     *)
(***************************************************************************)
EXTENDS Naturals

CONSTANTS Callers, Semaphores, InitialPermits

VARIABLES
    now,      \* the tick
    free,     \* free[s]: permits nobody has
    waiting,  \* waiting[s]: the callers that wait
    granted   \* granted[s]: the callers handed a permit that have not returned yet

vars == <<now, free, waiting, granted>>

Init ==
    /\ now = 0
    /\ free = InitialPermits
    /\ waiting = [s \in Semaphores |-> {}]
    /\ granted = [s \in Semaphores |-> {}]

\* A call that finds a permit takes it.
Take(s) ==
    /\ free[s] > 0
    /\ free' = [free EXCEPT ![s] = @ - 1]
    /\ UNCHANGED <<now, waiting, granted>>

\* A call waits only when it finds none.
Wait(s, t) ==
    /\ free[s] = 0
    /\ t \notin waiting[s] \cup granted[s]
    /\ waiting' = [waiting EXCEPT ![s] = @ \cup {t}]
    /\ UNCHANGED <<now, free, granted>>

HandOver(s, t) ==
    /\ t \in waiting[s]
    /\ waiting' = [waiting EXCEPT ![s] = @ \ {t}]
    /\ granted' = [granted EXCEPT ![s] = @ \cup {t}]
    /\ UNCHANGED <<now, free>>

Release(s) ==
    /\ waiting[s] = {}
    /\ free' = [free EXCEPT ![s] = @ + 1]
    /\ UNCHANGED <<now, waiting, granted>>

\* A call that was handed a permit returns with it.
Return(s, t) ==
    /\ t \in granted[s]
    /\ granted' = [granted EXCEPT ![s] = @ \ {t}]
    /\ UNCHANGED <<now, free, waiting>>

\* One tick may end the wait of any number of calls.
GiveUp ==
    /\ now' # now
    /\ waiting' \in [Semaphores -> SUBSET Callers]
    /\ \A s \in Semaphores : waiting'[s] \subseteq waiting[s]
    /\ UNCHANGED <<free, granted>>

Next ==
    \/ GiveUp
    \/ \E s \in Semaphores :
          \/ Take(s) \/ Release(s)
          \/ \E t \in Callers : Wait(s, t) \/ HandOver(s, t) \/ Return(s, t)

Spec == Init /\ [][Next]_vars

=============================================================================
