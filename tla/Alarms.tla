------------------------------- MODULE Alarms -------------------------------
(***************************************************************************)
(* What the timers of RT-Thread promise (src/rt-thread/src/timer.c and its *)
(* comments): a running timer counts down by one at every tick, the tick   *)
(* handler calls those that have run out, the most overdue first, and it   *)
(* leaves none.  Time here is an integer; it does not wrap around.         *)
(***************************************************************************)
EXTENDS Integers

CONSTANTS Timer, Nobody, MaxTime, MaxLate

VARIABLES
    left,       \* the ticks left, of the timers that run
    handling,   \* the tick handler checks the timers
    calling     \* the timer whose timeout function is being called

vars == <<left, handling, calling>>

Running == DOMAIN left
Due(t) == left[t] <= 0
With(t, n) == [u \in Running \cup {t} |-> IF u = t THEN n ELSE left[u]]
Without(t) == [u \in Running \ {t} |-> left[u]]

Init == left = [u \in {} |-> 0] /\ ~handling /\ calling = Nobody

\* A thread starts t; it may be held up for some ticks before it has done so.
Start(t) ==
    /\ t \notin Running
    /\ \E n \in 1 - MaxLate .. MaxTime : left' = With(t, n)
    /\ UNCHANGED <<handling, calling>>

\* A timer is stopped or deleted, or is taken out to be started again.
Stop(t) ==
    /\ t \in Running
    /\ left' = Without(t)
    /\ UNCHANGED <<handling, calling>>

Tick ==
    /\ ~handling
    /\ left' = [t \in Running |-> left[t] - 1]
    /\ handling' = TRUE
    /\ UNCHANGED calling

Expire(t) ==
    /\ handling /\ calling = Nobody
    /\ t \in Running /\ Due(t)
    /\ \A u \in Running : left[t] <= left[u]
    /\ left' = Without(t)
    /\ calling' = t
    /\ UNCHANGED handling

\* The timeout function starts a timer, perhaps one that runs.
Restart(t) ==
    /\ calling # Nobody
    /\ \E n \in 1 .. MaxTime : left' = With(t, n)
    /\ UNCHANGED <<handling, calling>>

\* The timeout function returns, and a periodic timer starts again.
Return ==
    /\ calling # Nobody
    /\ calling' = Nobody
    /\ left' = left \/ \E n \in 1 .. MaxTime : left' = With(calling, n)
    /\ UNCHANGED handling

Leave ==
    /\ handling /\ calling = Nobody
    /\ \A t \in Running : ~Due(t)
    /\ handling' = FALSE
    /\ UNCHANGED <<left, calling>>

Next ==
    \/ Tick \/ Return \/ Leave
    \/ \E t \in Timer : Start(t) \/ Stop(t) \/ Expire(t) \/ Restart(t)

Spec == Init /\ [][Next]_vars

=============================================================================
