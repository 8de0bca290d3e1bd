------------------------------- MODULE Timer -------------------------------
(***************************************************************************)
(* The hard timers of RT-Thread (src/rt-thread/src/timer.c, clock.c): one  *)
(* list, sorted by a tick count that wraps around, used by threads and, in *)
(* the tick interrupt, by rt_timer_check and the timeout functions it      *)
(* calls.  The kernel is built with one skip list level and without soft   *)
(* timers (src/rtconfig.h).                                                *)
(*                                                                         *)
(* A region with interrupts disabled is one action.  rt_timer_check keeps  *)
(* them disabled throughout: its actions are separate, and no thread takes *)
(* a step between them.                                                    *)
(***************************************************************************)
EXTENDS RtList, FiniteSetsExt

CONSTANTS
    Timer,          \* the timer control blocks
    Thread,         \* the threads that use them
    Nobody,
    Owner,          \* the thread that makes the calls on a timer, if one does
    Temporary,      \* the timers that are deleted and initialised again
    Calls,          \* what a timeout function may do: {<<"start" or "stop", timer>>}
    TickBits,       \* the width of rt_tick_t
    Times,          \* the init_tick values used
    InitTime,       \* the first init_tick of each timer
    Periodic,       \* the timers that are periodic at first
    MaxLate         \* the ticks a thread may be held up inside rt_timer_start

TickRange == 2 ^ TickBits
RT_TICK_MAX == TickRange - 1
Half == RT_TICK_MAX \div 2

\* A timer is used by one thread; a timeout function may stop any timer, and
\* starts none that a thread may be starting.  rt_timer_start asserts n < Half; the
\* order of the list also needs room for the delay.
ASSUME TimerAssumption ==
    /\ TickBits \in Nat \ {0} /\ TickRange \in Nat \ {0}
    /\ MaxLate \in Nat
    /\ Times \subseteq Nat \ {0} /\ Times # {}
    /\ \A n \in Times : n < Half /\ n + MaxLate <= Half
    /\ InitTime \in [Timer -> Times]
    /\ Periodic \subseteq Timer /\ Temporary \subseteq Timer
    /\ Nobody \notin Timer \cup Thread
    /\ Owner \in [Timer -> Thread \cup {Nobody}]
    /\ Calls \in [Timer -> SUBSET ({"start", "stop"} \X Timer)]
    /\ \A t \in Timer : \A c \in Calls[t] : c[1] = "start" => c[2] = t \/ Owner[c[2]] = Nobody

VARIABLES
    rt_tick,
    rt_timer_list,      \* the linked timers, the next to expire first
    timeout_tick, init_tick,
    periodic, activated,    \* the two flags of timer->parent.flag
    object,             \* the timers that are initialised
    isr,                \* "off", or where the tick handler is
    called,             \* the timer whose timeout function is called
    pc                  \* where each thread is in a call, and on which timer

flagVars == <<periodic, activated, object>>
isrVars == <<rt_tick, isr, called>>
vars == <<rt_timer_list, timeout_tick, init_tick, flagVars, isrVars, pc>>

-----------------------------------------------------------------------------
(* The list.                                                               *)

Linked(t) == t \in ToSet(rt_timer_list)

\* The arithmetic of rt_tick_t.  (A "Mutant" is a wrong version of the definition
\* after it; no action uses one.)
MutantPlus(a, b) == a + b       \* no wraparound
Plus(a, b) == (a + b) % TickRange
Minus(a, b) == (a - b) % TickRange

\* Whether rt_timer_check finds that t has run out.
MutantDue(t) == rt_tick = timeout_tick[t]       \* a tick that is missed is lost
Due(t) == Minus(rt_tick, timeout_tick[t]) < Half

\* The place of a timer that times out at tick: in front of the first that times
\* out later, behind those that time out at the same tick.
MutantLater(u, tick) == Minus(timeout_tick[u], tick) < Half     \* before its equals
Later(u, tick) == Minus(timeout_tick[u], tick) \in 1 .. Half - 1
MutantPlace(list, tick) == 1    \* always the first
Place(list, tick) ==
    LET later == {i \in DOMAIN list : Later(list[i], tick)}
    IN  IF later = {} THEN Len(list) + 1 ELSE Min(later)

InsertTimer(list, t, tick) == rt_timer_list' = InsertAt(list, Place(list, tick), t)

\* rt_timer_start with interrupts disabled throughout.
StartAtOnce(t) ==
    LET tick == Plus(rt_tick, init_tick[t])
    IN  /\ InsertTimer(Unlink(rt_timer_list, t), t, tick)
        /\ timeout_tick' = [timeout_tick EXCEPT ![t] = tick]
        /\ activated' = [activated EXCEPT ![t] = TRUE]

-----------------------------------------------------------------------------
(* Calls of threads.  timeout_tick is not read while its timer is unlinked: *)
(* where the timer is taken out, what is left there is forgotten.           *)

Free == [at |-> "run", obj |-> Nobody]
Runs(c, step) == isr = "off" /\ pc[c].at = step
Call(c, step, t) == pc' = [pc EXCEPT ![c] = [at |-> step, obj |-> t]]
Return(c) == pc' = [pc EXCEPT ![c] = Free]
Uses(c, t) == Runs(c, "run") /\ Owner[t] = c

TakeOut(t) ==
    /\ rt_timer_list' = Unlink(rt_timer_list, t)
    /\ timeout_tick' = [timeout_tick EXCEPT ![t] = 0]

Init ==
    /\ rt_tick = 0
    /\ rt_timer_list = <<>>
    /\ timeout_tick = [t \in Timer |-> 0]
    /\ init_tick = InitTime
    /\ periodic = [t \in Timer |-> t \in Periodic]
    /\ activated = [t \in Timer |-> FALSE]
    /\ object = Timer
    /\ isr = "off" /\ called = Nobody
    /\ pc = [c \in Thread |-> Free]

\* rt_timer_init or rt_timer_create.
InitTimer(c, t) ==
    /\ Uses(c, t) /\ t \notin object
    /\ object' = object \cup {t}
    /\ \E n \in Times, p \in BOOLEAN :
          /\ init_tick' = [init_tick EXCEPT ![t] = n]
          /\ periodic' = [periodic EXCEPT ![t] = p]
    /\ activated' = [activated EXCEPT ![t] = FALSE]
    /\ UNCHANGED <<rt_timer_list, timeout_tick, isrVars, pc>>

\* rt_timer_detach or rt_timer_delete: out of the list, then out of the objects.
Detach(c, t) ==
    /\ Uses(c, t) /\ t \in object \cap Temporary
    /\ TakeOut(t)
    /\ Call(c, "drop", t)
    /\ UNCHANGED <<init_tick, flagVars, isrVars>>

Drop(c) ==
    /\ Runs(c, "drop")
    /\ object' = object \ {pc[c].obj}
    /\ Return(c)
    /\ UNCHANGED <<rt_timer_list, timeout_tick, init_tick, periodic, activated, isrVars>>

\* rt_timer_start: stopped in one region...
Start(c, t) ==
    /\ Uses(c, t) /\ t \in object
    /\ TakeOut(t)
    /\ activated' = [activated EXCEPT ![t] = FALSE]
    /\ Call(c, "stamp", t)
    /\ UNCHANGED <<init_tick, periodic, object, isrVars>>

\* ...its timeout computed with interrupts enabled...
Stamp(c) ==
    LET t == pc[c].obj
    IN  /\ Runs(c, "stamp")
        /\ timeout_tick' = [timeout_tick EXCEPT ![t] = Plus(rt_tick, init_tick[t])]
        /\ Call(c, "link", t)
        /\ UNCHANGED <<rt_timer_list, init_tick, flagVars, isrVars>>

\* ...and linked in another region.
Link(c) ==
    LET t == pc[c].obj
    IN  /\ Runs(c, "link")
        /\ InsertTimer(rt_timer_list, t, timeout_tick[t])
        /\ activated' = [activated EXCEPT ![t] = TRUE]
        /\ Return(c)
        /\ UNCHANGED <<timeout_tick, init_tick, periodic, object, isrVars>>

\* rt_timer_stop: the flag is read, the timer taken out, the flag cleared, only
\* the second with interrupts disabled.
Stop(c, t) ==
    /\ Uses(c, t) /\ t \in object
    /\ activated[t]
    /\ Call(c, "remove", t)
    /\ UNCHANGED <<rt_timer_list, timeout_tick, init_tick, flagVars, isrVars>>

StopRemove(c) ==
    /\ Runs(c, "remove")
    /\ TakeOut(pc[c].obj)
    /\ Call(c, "unflag", pc[c].obj)
    /\ UNCHANGED <<init_tick, flagVars, isrVars>>

MutantStopFlag(c) ==    \* the flag is left set
    /\ Runs(c, "unflag")
    /\ Return(c)
    /\ UNCHANGED <<rt_timer_list, timeout_tick, init_tick, flagVars, isrVars>>

StopFlag(c) ==
    /\ Runs(c, "unflag")
    /\ activated' = [activated EXCEPT ![pc[c].obj] = FALSE]
    /\ Return(c)
    /\ UNCHANGED <<rt_timer_list, timeout_tick, init_tick, periodic, object, isrVars>>

\* rt_timer_control.  The flags are one byte, and the other one is rewritten with
\* what was read: the caller sets them only when the timer does not run.
Control(c, t) ==
    /\ Uses(c, t) /\ t \in object
    /\ \/ /\ \E n \in Times : init_tick' = [init_tick EXCEPT ![t] = n]
          /\ UNCHANGED periodic
       \/ /\ ~activated[t]
          /\ \E p \in BOOLEAN : periodic' = [periodic EXCEPT ![t] = p]
          /\ UNCHANGED init_tick
    /\ UNCHANGED <<rt_timer_list, timeout_tick, activated, object, isrVars, pc>>

-----------------------------------------------------------------------------
(* The tick interrupt.                                                     *)

\* Bound: a thread is not held up for more than MaxLate ticks between the
\* computation of a timeout and its insertion.
InTime(c) ==
    LET t == pc[c].obj
    IN  pc[c].at = "link" => Minus(rt_tick, timeout_tick[t] - init_tick[t]) < MaxLate

\* rt_tick_increase, to the loop of rt_timer_check.
Tick ==
    /\ isr = "off"
    /\ \A c \in Thread : InTime(c)
    /\ rt_tick' = Plus(rt_tick, 1)
    /\ isr' = "check"
    /\ UNCHANGED <<rt_timer_list, timeout_tick, init_tick, flagVars, called, pc>>

\* The first timer has run out: it is taken out and its timeout function called.
Expire ==
    LET t == Head(rt_timer_list)
    IN  /\ isr = "check"
        /\ rt_timer_list # <<>> /\ Due(t)
        /\ TakeOut(t)
        /\ isr' = "call" /\ called' = t
        /\ UNCHANGED <<rt_tick, init_tick, flagVars, pc>>

\* The timeout function starts or stops timers.
CallStart(u) ==
    /\ isr = "call" /\ <<"start", u>> \in Calls[called] /\ u \in object
    /\ StartAtOnce(u)
    /\ UNCHANGED <<init_tick, periodic, object, isrVars, pc>>

CallStop(u) ==
    /\ isr = "call" /\ <<"stop", u>> \in Calls[called] /\ u \in object
    /\ activated[u]
    /\ TakeOut(u)
    /\ activated' = [activated EXCEPT ![u] = FALSE]
    /\ UNCHANGED <<init_tick, periodic, object, isrVars, pc>>

\* It returns: a periodic timer that is still active starts again.
Restarts(t) == periodic[t] /\ activated[t]

Settle ==
    /\ isr = "call"
    /\ IF Restarts(called)
       THEN StartAtOnce(called)
       ELSE /\ activated' = [activated EXCEPT ![called] = FALSE]
            /\ UNCHANGED <<rt_timer_list, timeout_tick>>
    /\ isr' = "check" /\ called' = Nobody
    /\ UNCHANGED <<rt_tick, init_tick, periodic, object, pc>>

\* The first timer, and so every other, is not due.
CheckDone ==
    /\ isr = "check"
    /\ rt_timer_list # <<>> => ~Due(Head(rt_timer_list))
    /\ isr' = "off"
    /\ UNCHANGED <<rt_tick, called, rt_timer_list, timeout_tick, init_tick, flagVars, pc>>

-----------------------------------------------------------------------------
Continue(c) == Drop(c) \/ Stamp(c) \/ Link(c) \/ StopRemove(c) \/ StopFlag(c)
Begin(c, t) == InitTimer(c, t) \/ Detach(c, t) \/ Start(c, t) \/ Stop(c, t) \/ Control(c, t)
CheckStep == Expire \/ Settle \/ CheckDone

Next ==
    \/ \E c \in Thread : Continue(c) \/ \E t \in Timer : Begin(c, t)
    \/ Tick \/ CheckStep
    \/ \E t \in Timer : CallStart(t) \/ CallStop(t)

\* The tick keeps coming, its handler ends, and a call that is begun goes on.
Fairness == WF_vars(Tick) /\ WF_vars(CheckStep) /\ \A c \in Thread : WF_vars(Continue(c))

Spec == Init /\ [][Next]_vars
FairSpec == Spec /\ Fairness

-----------------------------------------------------------------------------
(* Properties.                                                             *)

TypeOK ==
    /\ rt_tick \in 0 .. RT_TICK_MAX
    /\ rt_timer_list \in Seq(Timer) /\ IsInjective(rt_timer_list)
    /\ timeout_tick \in [Timer -> 0 .. RT_TICK_MAX]
    /\ init_tick \in [Timer -> Times]
    /\ periodic \in [Timer -> BOOLEAN] /\ activated \in [Timer -> BOOLEAN]
    /\ object \subseteq Timer
    /\ isr \in {"off", "check", "call"} /\ called \in Timer \cup {Nobody}
    /\ pc \in [Thread -> [at : {"run", "drop", "stamp", "link", "remove", "unflag"},
                          obj : Timer \cup {Nobody}]]

\* Nothing works on t.
Quiet(t) == called # t /\ \A c \in Thread : pc[c].obj # t

\* RT_TIMER_FLAG_ACTIVATED, "timer is active" (rtdef.h): a timer that nothing works
\* on has the flag exactly when it is linked, so that rt_timer_stop, which trusts the
\* flag, can stop whatever may still expire; one that is deleted is not linked.
ActiveMeansLinked ==
    \A t \in Timer : Quiet(t) =>
       IF t \in object THEN activated[t] <=> Linked(t) ELSE ~Linked(t)

\* Two timers that time out at the same tick are called in the order in which they
\* were inserted (the comment in rt_timer_start).
Precedes(list, t, u) == \E i, j \in DOMAIN list : i < j /\ list[i] = t /\ list[j] = u
TiesInOrder ==
    [][\A t, u \in ToSet(rt_timer_list') :
          /\ t # u /\ timeout_tick'[t] = timeout_tick'[u]
          /\ Linked(t) /\ ~CallStart(t)
          /\ Linked(u) => Precedes(rt_timer_list, t, u) \/ CallStart(u)
          => Precedes(rt_timer_list', t, u)]_vars

\* Each timer counts down its ticks across the wraparound, and the handler leaves no
\* timer that has run out: the list implements Alarms.
TicksLeft(t) ==
    IF Due(t) THEN -Minus(rt_tick, timeout_tick[t]) ELSE Minus(timeout_tick[t], rt_tick)
Promise == INSTANCE Alarms WITH
    left <- [t \in ToSet(rt_timer_list) |-> TicksLeft(t)],
    handling <- isr # "off",
    calling <- called,
    MaxTime <- Max(Times)
KeepsPromise == Promise!Spec

\* A timer that runs is called, or stopped, unless a timeout function starts it anew
\* again and again.
EveryTimerEnds ==
    \A t \in Timer : []<><<CallStart(t)>>_vars \/ (Linked(t) ~> ~Linked(t))

=============================================================================
