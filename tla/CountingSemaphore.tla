------------------------- MODULE CountingSemaphore -------------------------
(***************************************************************************)
(* What a set of counting semaphores promises: a wait takes one unit, and  *)
(* is made to wait only while there is none; a post adds one.  MySem       *)
(* implements it.                                                          *)
(***************************************************************************)
EXTENDS Naturals

CONSTANTS Threads, Sems, InitValue

VARIABLES
    value,      \* the units of each semaphore
    waiting     \* the threads inside a wait on each semaphore

Init ==
    /\ value = InitValue
    /\ waiting = [s \in Sems |-> {}]

StartWaiting(t, s) ==
    /\ value[s] = 0
    /\ waiting' = [waiting EXCEPT ![s] = @ \cup {t}]
    /\ UNCHANGED value

Take(t, s) ==
    /\ value[s] > 0
    /\ value' = [value EXCEPT ![s] = @ - 1]
    /\ waiting' = [waiting EXCEPT ![s] = @ \ {t}]

Post(s) ==
    /\ value' = [value EXCEPT ![s] = @ + 1]
    /\ UNCHANGED waiting

Next ==
    \E s \in Sems : Post(s) \/ \E t \in Threads : StartWaiting(t, s) \/ Take(t, s)

Spec == Init /\ [][Next]_<<value, waiting>>

=============================================================================
