----------------------------- MODULE TimerProof -----------------------------
(***************************************************************************)
(* The timers, for every value of the constants of Timer: the list and the *)
(* flags agree, equal timers keep their order, and the list of wrapping    *)
(* tick counts implements the countdown of Alarms.                         *)
(***************************************************************************)
EXTENDS Timer, RtListProof

\* What a timeout function may do to its own timer: it starts it again only when that
\* is what Settle does anyway.
RestartsPeriodic ==
    \A t \in Timer : <<"start", t>> \in Calls[t] => t \in Periodic /\ Owner[t] = Nobody

-----------------------------------------------------------------------------
(* The inductive invariant: who works on which timer.                      *)

\* A thread works on a timer of its own that exists.  While it has taken the timer out
\* of the list nothing puts it back and nothing calls it, and while it starts the
\* timer no timeout function finds it active.
Working ==
    /\ \A c \in Thread : pc[c].at = "run" <=> pc[c].obj = Nobody
    /\ \A c \in Thread : pc[c].obj # Nobody => pc[c].obj \in object /\ Owner[pc[c].obj] = c
    /\ \A c \in Thread : pc[c].at \in {"drop", "stamp", "link", "unflag"} =>
          ~Linked(pc[c].obj) /\ pc[c].obj # called
    /\ \A c \in Thread : pc[c].at \in {"stamp", "link"} => ~activated[pc[c].obj]

\* The handler and the list know only timers that exist.
Handler ==
    /\ isr = "call" <=> called # Nobody
    /\ called # Nobody => called \in object
    /\ ToSet(rt_timer_list) \subseteq object

TimerInv == TypeOK /\ Working /\ Handler

\* The flags: that of a timer is right when nothing works on it; a timer that its own
\* timeout function has started will start again when the function returns.
Flags ==
    /\ \A t \in Timer : Owner[t] = Nobody => (periodic[t] <=> t \in Periodic)
    /\ called # Nobody /\ Linked(called) => periodic[called] /\ activated[called]
    /\ \A t \in object : Quiet(t) => (activated[t] <=> Linked(t))

-----------------------------------------------------------------------------
(* The list and the ticks.                                                 *)

LEMMA TimesAreNumbers == ASSUME NEW n \in Times PROVE n \in Nat /\ n > 0 /\ n < Half
<1>1. n \in Nat \ {0} /\ n < Half
  BY TimerAssumption
<1> QED BY <1>1

\* Ticks stay ticks.
LEMMA TickSum ==
    ASSUME NEW a \in Int, NEW b \in Int
    PROVE  Plus(a, b) \in 0 .. RT_TICK_MAX
<1>1. TickRange \in Nat \ {0}
  BY TimerAssumption
<1>2. a + b \in Int
  OBVIOUS
<1> QED BY <1>1, <1>2 DEF Plus, RT_TICK_MAX

\* The place of a timer is one in the list, or the one behind it.
LEMMA PlaceInList ==
    ASSUME NEW list \in Seq(Timer), NEW tick
    PROVE  Place(list, tick) \in 1 .. Len(list) + 1
<1> DEFINE later == {i \in DOMAIN list : Later(list[i], tick)}
<1>1. Len(list) \in Nat /\ DOMAIN list = 1 .. Len(list)
  BY LenProperties
<1>2. CASE later = {}
  BY <1>1, <1>2 DEF Place
<1>3. CASE later # {}
  <2>1. later \in SUBSET Nat
    BY <1>1
  <2>2. Min(later) \in later
    BY <2>1, <1>3, LeastPlace
  <2> QED BY <2>2, <1>1, <1>3 DEF Place
<1> QED BY <1>2, <1>3

\* InsertTimer puts a timer into the list.
LEMMA Inserted ==
    ASSUME NEW list \in Seq(Timer), IsInjective(list), NEW t \in Timer \ ToSet(list),
           NEW tick, InsertTimer(list, t, tick)
    PROVE  /\ rt_timer_list' \in Seq(Timer) /\ IsInjective(rt_timer_list')
           /\ ToSet(rt_timer_list') = ToSet(list) \cup {t}
<1>1. Place(list, tick) \in 1 .. Len(list) + 1
  BY PlaceInList
<1> QED BY <1>1, InsertElements DEF InsertTimer

\* TakeOut takes a timer out of it.
LEMMA TakenOut ==
    ASSUME TypeOK, NEW t \in Timer, TakeOut(t)
    PROVE  /\ rt_timer_list' \in Seq(Timer) /\ IsInjective(rt_timer_list')
           /\ ToSet(rt_timer_list') = ToSet(rt_timer_list) \ {t}
           /\ timeout_tick' \in [Timer -> 0 .. RT_TICK_MAX]
<1>1. 0 \in 0 .. RT_TICK_MAX
  BY TimerAssumption DEF RT_TICK_MAX
<1> QED BY <1>1, UnlinkElements DEF TypeOK, TakeOut

\* rt_timer_start in the handler puts a timer into it.
LEMMA StartedAtOnce ==
    ASSUME TypeOK, NEW t \in Timer, StartAtOnce(t)
    PROVE  /\ rt_timer_list' \in Seq(Timer) /\ IsInjective(rt_timer_list')
           /\ ToSet(rt_timer_list') = ToSet(rt_timer_list) \cup {t}
           /\ timeout_tick' \in [Timer -> 0 .. RT_TICK_MAX]
           /\ activated' = [activated EXCEPT ![t] = TRUE]
<1> DEFINE tick == Plus(rt_tick, init_tick[t])
           list == Unlink(rt_timer_list, t)
<1>1. tick \in 0 .. RT_TICK_MAX
  <2>1. rt_tick \in Int /\ init_tick[t] \in Times
    BY DEF TypeOK
  <2>2. init_tick[t] \in Int
    BY <2>1, TimesAreNumbers
  <2> QED BY <2>1, <2>2, TickSum
<1>2. list \in Seq(Timer) /\ IsInjective(list) /\ ToSet(list) = ToSet(rt_timer_list) \ {t}
  BY UnlinkElements DEF TypeOK
<1> HIDE DEF list, tick
<1>3. InsertTimer(list, t, tick) /\ timeout_tick' = [timeout_tick EXCEPT ![t] = tick]
      /\ activated' = [activated EXCEPT ![t] = TRUE]
  BY DEF StartAtOnce, list, tick
<1>4. /\ rt_timer_list' \in Seq(Timer) /\ IsInjective(rt_timer_list')
      /\ ToSet(rt_timer_list') = ToSet(list) \cup {t}
  BY <1>2, <1>3, Inserted
<1> QED BY <1>1, <1>2, <1>3, <1>4 DEF TypeOK

\* What a timeout function starts is its own timer or one that no thread uses.
LEMMA StartedByCall ==
    ASSUME NEW t \in Timer, NEW u, <<"start", u>> \in Calls[t]
    PROVE  u \in Timer /\ (u = t \/ Owner[u] = Nobody)
<1> DEFINE call == <<"start", u>>
<1>1. call \in {"start", "stop"} \X Timer /\ call[1] = "start" /\ call[2] = u
  BY TimerAssumption
<1> QED BY <1>1, TimerAssumption

-----------------------------------------------------------------------------
(* The steps of the threads.                                               *)

\* Facts about the constants and the types that every step needs.
LEMMA Types ==
    ASSUME TimerInv
    PROVE  /\ rt_timer_list \in Seq(Timer) /\ ToSet(rt_timer_list) \subseteq Timer
           /\ Nobody \notin Timer
           /\ \A c \in Thread : /\ pc[c].obj \in Timer \cup {Nobody}
                                /\ pc[c].at # "run" => pc[c].obj \in Timer
<1>1. rt_timer_list \in Seq(Timer) /\ \A c \in Thread : pc[c].obj \in Timer \cup {Nobody}
  BY DEF TimerInv, TypeOK
<1>2. ToSet(rt_timer_list) \subseteq Timer
  BY <1>1, ListMembers
<1>3. \A c \in Thread : pc[c].at # "run" => pc[c].obj # Nobody
  BY DEF TimerInv, Working
<1> QED BY <1>1, <1>2, <1>3, TimerAssumption

\* A thread makes a step on the timer t that it owns: it takes it out, or leaves the
\* list alone.
LEMMA OwnStep ==
    ASSUME TimerInv, NEW c \in Thread, NEW t \in Timer, isr = "off", Owner[t] = c,
           pc[c].obj \in {Nobody, t},
           /\ rt_timer_list' \in Seq(Timer) /\ IsInjective(rt_timer_list')
           /\ timeout_tick' \in [Timer -> 0 .. RT_TICK_MAX]
           /\ ToSet(rt_timer_list') \ {t} = ToSet(rt_timer_list) \ {t}
           /\ init_tick' \in [Timer -> Times] /\ periodic' \in [Timer -> BOOLEAN],
           activated' = activated \/ \E b \in BOOLEAN : activated' = [activated EXCEPT ![t] = b],
           object' \in {object, object \cup {t}, object \ {t}},
           \E step \in {"run", "drop", "stamp", "link", "remove", "unflag"} :
              /\ pc' = [pc EXCEPT ![c] = [at |-> step, obj |-> IF step = "run" THEN Nobody ELSE t]]
              /\ step # "run" => t \in object'
              /\ step \in {"drop", "stamp", "link", "unflag"} => t \notin ToSet(rt_timer_list')
              /\ step \in {"stamp", "link"} => ~activated'[t],
           t \notin object' => t \notin ToSet(rt_timer_list'),
           UNCHANGED isrVars
    PROVE  TimerInv'
<1> USE Types
<1>1. PICK step \in {"run", "drop", "stamp", "link", "remove", "unflag"} :
              /\ pc' = [pc EXCEPT ![c] = [at |-> step, obj |-> IF step = "run" THEN Nobody ELSE t]]
              /\ step # "run" => t \in object'
              /\ step \in {"drop", "stamp", "link", "unflag"} => t \notin ToSet(rt_timer_list')
              /\ step \in {"stamp", "link"} => ~activated'[t]
  OBVIOUS
<1>2. called = Nobody /\ called' = Nobody /\ isr' = "off" /\ rt_tick' = rt_tick
  BY DEF TimerInv, Handler, isrVars
<1>3. pc \in [Thread -> [at : {"run", "drop", "stamp", "link", "remove", "unflag"},
                         obj : Timer \cup {Nobody}]]
  BY DEF TimerInv, TypeOK
<1>4. /\ pc'[c].at = step /\ pc'[c].obj = IF step = "run" THEN Nobody ELSE t
      /\ \A d \in Thread : d # c => pc'[d] = pc[d]
      /\ pc' \in [Thread -> [at : {"run", "drop", "stamp", "link", "remove", "unflag"},
                             obj : Timer \cup {Nobody}]]
  BY <1>1, <1>3
<1>5. \A d \in Thread : d # c => pc[d].obj # t
  BY DEF TimerInv, Working
<1>6. activated' \in [Timer -> BOOLEAN] /\ \A u \in Timer : u # t => activated'[u] = activated[u]
  <2>1. activated \in [Timer -> BOOLEAN]
    BY DEF TimerInv, TypeOK
  <2>2. CASE activated' = activated
    BY <2>1, <2>2
  <2>3. CASE \E b \in BOOLEAN : activated' = [activated EXCEPT ![t] = b]
    BY <2>1, <2>3
  <2> QED BY <2>2, <2>3
<1>7. object' \subseteq Timer /\ \A u : u # t => (u \in object' <=> u \in object)
  BY DEF TimerInv, TypeOK
<1>8. TypeOK'
  BY <1>2, <1>4, <1>6, <1>7 DEF TimerInv, TypeOK
<1>9. Handler'
  BY <1>2, <1>7 DEF TimerInv, Handler
<1>10. Working'
  <2> SUFFICES ASSUME NEW d \in Thread
               PROVE  /\ pc'[d].at = "run" <=> pc'[d].obj = Nobody
                      /\ pc'[d].obj # Nobody => pc'[d].obj \in object' /\ Owner[pc'[d].obj] = d
                      /\ pc'[d].at \in {"drop", "stamp", "link", "unflag"} =>
                            pc'[d].obj \notin ToSet(rt_timer_list') /\ pc'[d].obj # called'
                      /\ pc'[d].at \in {"stamp", "link"} => ~activated'[pc'[d].obj]
    BY DEF Working, Linked
  <2>1. CASE d = c
    BY <2>1, <1>1, <1>2, <1>4
  <2>2. CASE d # c
    <3>1. /\ pc[d].at = "run" <=> pc[d].obj = Nobody
          /\ pc[d].obj # Nobody => pc[d].obj \in object /\ Owner[pc[d].obj] = d
          /\ pc[d].at \in {"drop", "stamp", "link", "unflag"} =>
                            pc[d].obj \notin ToSet(rt_timer_list) /\ pc[d].obj # called
          /\ pc[d].at \in {"stamp", "link"} => ~activated[pc[d].obj]
      BY DEF TimerInv, Working, Linked
    <3>2. pc'[d] = pc[d] /\ pc[d].obj # t
      BY <2>2, <1>4, <1>5
    <3> HIDE DEF TimerInv
    <3> QED BY <3>1, <3>2, <1>2, <1>6, <1>7
  <2> QED BY <2>1, <2>2
<1> QED BY <1>8, <1>9, <1>10 DEF TimerInv

\* What a thread that begins or goes on finds.
LEMMA ThreadFinds ==
    ASSUME TimerInv, NEW c \in Thread
    PROVE  /\ pc[c].at = "run" <=> pc[c].obj = Nobody
           /\ pc[c].at # "run" => /\ pc[c].obj \in Timer /\ pc[c].obj \in object
                                  /\ Owner[pc[c].obj] = c
           /\ pc[c].at \in {"drop", "stamp", "link", "unflag"} => ~Linked(pc[c].obj)
           /\ pc[c].at \in {"stamp", "link"} => ~activated[pc[c].obj]
BY Types DEF TimerInv, Working

\* rt_timer_init, rt_timer_detach, rt_timer_start, rt_timer_stop, rt_timer_control
LEMMA BeginStep ==
    ASSUME TimerInv, NEW c \in Thread, NEW t \in Timer, Begin(c, t)
    PROVE  TimerInv'
<1> USE DEF Uses, Runs
<1>0. /\ rt_timer_list \in Seq(Timer) /\ IsInjective(rt_timer_list)
      /\ timeout_tick \in [Timer -> 0 .. RT_TICK_MAX] /\ init_tick \in [Timer -> Times]
      /\ periodic \in [Timer -> BOOLEAN] /\ activated \in [Timer -> BOOLEAN]
      /\ pc \in [Thread -> [at : {"run", "drop", "stamp", "link", "remove", "unflag"},
                            obj : Timer \cup {Nobody}]]
      /\ TypeOK /\ ToSet(rt_timer_list) \subseteq object
  BY DEF TimerInv, TypeOK, Handler
<1>1. CASE InitTimer(c, t)
  <2>1. isr = "off" /\ Owner[t] = c /\ pc[c].obj = Nobody /\ pc[c].at = "run"
    BY <1>1, ThreadFinds DEF InitTimer
  <2>2. pc' = [pc EXCEPT ![c] = [at |-> "run", obj |-> Nobody]]
    BY <1>0, <1>1, <2>1 DEF InitTimer
  <2>3. init_tick' \in [Timer -> Times] /\ periodic' \in [Timer -> BOOLEAN]
    BY <1>0, <1>1 DEF InitTimer
  <2> QED BY <2>1, <2>2, <2>3, <1>0, <1>1, OwnStep DEF InitTimer
<1>2. CASE Detach(c, t)
  <2>1. isr = "off" /\ Owner[t] = c /\ pc[c].obj = Nobody /\ t \in object
    BY <1>2, ThreadFinds DEF Detach
  <2>2. TakeOut(t) /\ pc' = [pc EXCEPT ![c] = [at |-> "drop", obj |-> t]]
        /\ UNCHANGED <<init_tick, flagVars, isrVars>>
    BY <1>2 DEF Detach, Call
  <2>3. /\ rt_timer_list' \in Seq(Timer) /\ IsInjective(rt_timer_list')
        /\ ToSet(rt_timer_list') = ToSet(rt_timer_list) \ {t}
        /\ timeout_tick' \in [Timer -> 0 .. RT_TICK_MAX]
    BY <2>2, <1>0, TakenOut
  <2> QED BY <2>1, <2>2, <2>3, <1>0, OwnStep DEF flagVars
<1>3. CASE Start(c, t)
  <2>1. isr = "off" /\ Owner[t] = c /\ pc[c].obj = Nobody /\ t \in object
    BY <1>3, ThreadFinds DEF Start
  <2>2. /\ TakeOut(t) /\ pc' = [pc EXCEPT ![c] = [at |-> "stamp", obj |-> t]]
        /\ activated' = [activated EXCEPT ![t] = FALSE]
        /\ UNCHANGED <<init_tick, periodic, object, isrVars>>
    BY <1>3 DEF Start, Call
  <2>3. /\ rt_timer_list' \in Seq(Timer) /\ IsInjective(rt_timer_list')
        /\ ToSet(rt_timer_list') = ToSet(rt_timer_list) \ {t}
        /\ timeout_tick' \in [Timer -> 0 .. RT_TICK_MAX]
    BY <2>2, <1>0, TakenOut
  <2>4. ~activated'[t]
    BY <2>2, <1>0
  <2> QED BY <2>1, <2>2, <2>3, <2>4, <1>0, OwnStep
<1>4. CASE Stop(c, t)
  <2>1. isr = "off" /\ Owner[t] = c /\ pc[c].obj = Nobody /\ t \in object
    BY <1>4, ThreadFinds DEF Stop
  <2>2. /\ pc' = [pc EXCEPT ![c] = [at |-> "remove", obj |-> t]]
        /\ UNCHANGED <<rt_timer_list, timeout_tick, init_tick, flagVars, isrVars>>
    BY <1>4 DEF Stop, Call
  <2> QED BY <2>1, <2>2, <1>0, OwnStep DEF flagVars
<1>5. CASE Control(c, t)
  <2>1. isr = "off" /\ Owner[t] = c /\ pc[c].obj = Nobody /\ pc[c].at = "run" /\ t \in object
    BY <1>5, ThreadFinds DEF Control
  <2>2. pc' = [pc EXCEPT ![c] = [at |-> "run", obj |-> Nobody]]
    BY <1>0, <1>5, <2>1 DEF Control
  <2>3. init_tick' \in [Timer -> Times] /\ periodic' \in [Timer -> BOOLEAN]
    BY <1>0, <1>5 DEF Control
  <2> QED BY <2>1, <2>2, <2>3, <1>0, <1>5, OwnStep DEF Control
<1> QED BY <1>1, <1>2, <1>3, <1>4, <1>5 DEF Begin

\* What these calls go on with.
LEMMA ContinueStep ==
    ASSUME TimerInv, NEW c \in Thread, Continue(c)
    PROVE  TimerInv'
<1> DEFINE t == pc[c].obj
<1> USE DEF Runs
<1>0. /\ rt_timer_list \in Seq(Timer) /\ IsInjective(rt_timer_list)
      /\ timeout_tick \in [Timer -> 0 .. RT_TICK_MAX] /\ init_tick \in [Timer -> Times]
      /\ periodic \in [Timer -> BOOLEAN] /\ activated \in [Timer -> BOOLEAN]
      /\ rt_tick \in Int
      /\ TypeOK /\ ToSet(rt_timer_list) \subseteq object
  BY DEF TimerInv, TypeOK, Handler
<1>a. /\ isr = "off" /\ pc[c].at # "run" /\ t \in Timer /\ t \in object /\ Owner[t] = c
      /\ pc[c].at \in {"drop", "stamp", "link", "unflag"} => ~Linked(t)
      /\ pc[c].at \in {"stamp", "link"} => ~activated[t]
  BY ThreadFinds DEF Continue, Drop, Stamp, Link, StopRemove, StopFlag
<1>1. CASE Drop(c)
  <2>1. /\ pc[c].at = "drop" /\ object' = object \ {t}
        /\ pc' = [pc EXCEPT ![c] = [at |-> "run", obj |-> Nobody]]
        /\ UNCHANGED <<rt_timer_list, timeout_tick, init_tick, periodic, activated, isrVars>>
    BY <1>1 DEF Drop, Return, Free
  <2> HIDE DEF t
  <2> QED BY <2>1, <1>0, <1>a, OwnStep DEF Linked, t
<1>2. CASE Stamp(c)
  <2>1. /\ pc[c].at = "stamp"
        /\ timeout_tick' = [timeout_tick EXCEPT ![t] = Plus(rt_tick, init_tick[t])]
        /\ pc' = [pc EXCEPT ![c] = [at |-> "link", obj |-> t]]
        /\ UNCHANGED <<rt_timer_list, init_tick, flagVars, isrVars>>
    BY <1>2 DEF Stamp, Call
  <2>2. timeout_tick' \in [Timer -> 0 .. RT_TICK_MAX]
    <3>1. init_tick[t] \in Times
      BY <1>0, <1>a
    <3>2. init_tick[t] \in Int
      BY <3>1, TimesAreNumbers
    <3>3. Plus(rt_tick, init_tick[t]) \in 0 .. RT_TICK_MAX
      BY <3>2, <1>0, TickSum
    <3> QED BY <3>3, <2>1, <1>0
  <2> QED BY <2>1, <2>2, <1>0, <1>a, OwnStep DEF Linked, flagVars
<1>3. CASE Link(c)
  <2>1. /\ pc[c].at = "link" /\ InsertTimer(rt_timer_list, t, timeout_tick[t])
        /\ activated' = [activated EXCEPT ![t] = TRUE]
        /\ pc' = [pc EXCEPT ![c] = [at |-> "run", obj |-> Nobody]]
        /\ UNCHANGED <<timeout_tick, init_tick, periodic, object, isrVars>>
    BY <1>3 DEF Link, Return, Free
  <2>2. /\ rt_timer_list' \in Seq(Timer) /\ IsInjective(rt_timer_list')
        /\ ToSet(rt_timer_list') = ToSet(rt_timer_list) \cup {t}
    BY <2>1, <1>0, <1>a, Inserted DEF Linked
  <2> QED BY <2>1, <2>2, <1>0, <1>a, OwnStep
<1>4. CASE StopRemove(c)
  <2>1. /\ TakeOut(t) /\ pc' = [pc EXCEPT ![c] = [at |-> "unflag", obj |-> t]]
        /\ UNCHANGED <<init_tick, flagVars, isrVars>>
    BY <1>4 DEF StopRemove, Call
  <2>2. /\ rt_timer_list' \in Seq(Timer) /\ IsInjective(rt_timer_list')
        /\ ToSet(rt_timer_list') = ToSet(rt_timer_list) \ {t}
        /\ timeout_tick' \in [Timer -> 0 .. RT_TICK_MAX]
    BY <2>1, <1>0, <1>a, TakenOut
  <2> QED BY <2>1, <2>2, <1>0, <1>a, OwnStep DEF flagVars
<1>5. CASE StopFlag(c)
  <2>1. /\ activated' = [activated EXCEPT ![t] = FALSE]
        /\ pc' = [pc EXCEPT ![c] = [at |-> "run", obj |-> Nobody]]
        /\ UNCHANGED <<rt_timer_list, timeout_tick, init_tick, periodic, object, isrVars>>
    BY <1>5 DEF StopFlag, Return, Free
  <2> QED BY <2>1, <1>0, <1>a, OwnStep
<1> QED BY <1>1, <1>2, <1>3, <1>4, <1>5 DEF Continue

-----------------------------------------------------------------------------
(* The steps of the tick handler.                                          *)

\* The handler links or calls only timers that no thread has taken out.
LEMMA HandlerStep ==
    ASSUME TimerInv,
           rt_tick' \in 0 .. RT_TICK_MAX,
           /\ rt_timer_list' \in Seq(Timer) /\ IsInjective(rt_timer_list')
           /\ timeout_tick' \in [Timer -> 0 .. RT_TICK_MAX]
           /\ activated' \in [Timer -> BOOLEAN]
           /\ isr' \in {"off", "check", "call"} /\ called' \in Timer \cup {Nobody},
           UNCHANGED <<init_tick, periodic, object, pc>>,
           isr' = "call" <=> called' # Nobody,
           called' # Nobody => called' \in object,
           ToSet(rt_timer_list') \subseteq object,
           \A c \in Thread : pc[c].at \in {"drop", "stamp", "link", "unflag"} =>
              pc[c].obj \notin ToSet(rt_timer_list') /\ pc[c].obj # called',
           \A c \in Thread : pc[c].at \in {"stamp", "link"} => ~activated'[pc[c].obj]
    PROVE  TimerInv'
<1>1. TypeOK'
  BY DEF TimerInv, TypeOK
<1>2. Working'
  BY DEF TimerInv, Working, Linked
<1>3. Handler'
  BY DEF Handler
<1> QED BY <1>1, <1>2, <1>3 DEF TimerInv

\* rt_tick_increase, rt_timer_check and the timeout functions
LEMMA TickStep ==
    ASSUME TimerInv, Tick \/ CheckStep \/ \E t \in Timer : CallStart(t) \/ CallStop(t)
    PROVE  TimerInv'
<1>0. /\ rt_tick \in 0 .. RT_TICK_MAX
      /\ rt_timer_list \in Seq(Timer) /\ IsInjective(rt_timer_list)
      /\ timeout_tick \in [Timer -> 0 .. RT_TICK_MAX] /\ init_tick \in [Timer -> Times]
      /\ activated \in [Timer -> BOOLEAN] /\ called \in Timer \cup {Nobody}
      /\ TypeOK /\ ToSet(rt_timer_list) \subseteq object /\ object \subseteq Timer
      /\ isr = "call" <=> called # Nobody
      /\ called # Nobody => called \in object
  BY DEF TimerInv, TypeOK, Handler
<1>a. /\ \A c \in Thread : pc[c].at \in {"drop", "stamp", "link", "unflag"} =>
            /\ pc[c].obj \notin ToSet(rt_timer_list) /\ pc[c].obj # called
            /\ pc[c].obj \in Timer /\ Owner[pc[c].obj] = c
      /\ \A c \in Thread : pc[c].at \in {"stamp", "link"} => ~activated[pc[c].obj]
  BY Types DEF TimerInv, Working, Linked
<1>b. Nobody \notin Timer \cup Thread
  BY TimerAssumption
<1>1. CASE Tick
  <2>1. rt_tick' \in 0 .. RT_TICK_MAX
    BY <1>0, <1>1, TickSum DEF Tick
  <2> QED BY <2>1, <1>0, <1>1, <1>a, HandlerStep DEF Tick, flagVars
<1>2. CASE Expire
  <2> DEFINE t == Head(rt_timer_list)
  <2>1. /\ TakeOut(t) /\ isr' = "call" /\ called' = t
        /\ UNCHANGED <<rt_tick, init_tick, flagVars, pc>> /\ rt_timer_list # <<>>
    BY <1>2 DEF Expire
  <2>2. t \in ToSet(rt_timer_list)
    BY <2>1, <1>0, TailElements
  <2> HIDE DEF t
  <2>3. t \in Timer /\ t \in object /\ t # Nobody
    BY <2>2, <1>0, <1>b
  <2>4. /\ rt_timer_list' \in Seq(Timer) /\ IsInjective(rt_timer_list')
        /\ ToSet(rt_timer_list') = ToSet(rt_timer_list) \ {t}
        /\ timeout_tick' \in [Timer -> 0 .. RT_TICK_MAX]
    BY <2>1, <2>3, <1>0, TakenOut
  <2> QED BY <2>1, <2>2, <2>3, <2>4, <1>0, <1>a, HandlerStep DEF flagVars
<1>3. CASE Settle
  <2>1. /\ isr = "call" /\ isr' = "check" /\ called' = Nobody
        /\ UNCHANGED <<rt_tick, init_tick, periodic, object, pc>>
    BY <1>3 DEF Settle
  <2>2. called \in Timer /\ called \in object
    BY <2>1, <1>0
  <2>3. CASE Restarts(called)
    <3>1. StartAtOnce(called)
      BY <1>3, <2>3 DEF Settle
    <3>2. /\ rt_timer_list' \in Seq(Timer) /\ IsInjective(rt_timer_list')
          /\ ToSet(rt_timer_list') = ToSet(rt_timer_list) \cup {called}
          /\ timeout_tick' \in [Timer -> 0 .. RT_TICK_MAX]
          /\ activated' = [activated EXCEPT ![called] = TRUE]
      BY <3>1, <2>2, <1>0, StartedAtOnce
    <3>3. /\ activated' \in [Timer -> BOOLEAN]
          /\ \A u \in Timer : u # called => activated'[u] = activated[u]
      BY <3>2, <1>0
    <3>4. \A c \in Thread : pc[c].at \in {"stamp", "link"} => ~activated'[pc[c].obj]
      BY <3>3, <1>a
    <3> QED BY <3>2, <3>3, <3>4, <2>1, <2>2, <1>0, <1>a, <1>b, HandlerStep
  <2>4. CASE ~Restarts(called)
    <3>1. /\ activated' = [activated EXCEPT ![called] = FALSE]
          /\ UNCHANGED <<rt_timer_list, timeout_tick>>
      BY <1>3, <2>4 DEF Settle
    <3>3. /\ activated' \in [Timer -> BOOLEAN]
          /\ \A u \in Timer : u # called => activated'[u] = activated[u]
      BY <3>1, <1>0
    <3>4. \A c \in Thread : pc[c].at \in {"stamp", "link"} => ~activated'[pc[c].obj]
      BY <3>3, <1>a
    <3> QED BY <3>1, <3>3, <3>4, <2>1, <2>2, <1>0, <1>a, <1>b, HandlerStep
  <2> QED BY <2>3, <2>4
<1>4. CASE CheckDone
  BY <1>0, <1>4, <1>a, <1>b, HandlerStep DEF CheckDone, flagVars
<1>5. ASSUME NEW u \in Timer, CallStart(u)
      PROVE  TimerInv'
  <2>1. /\ isr = "call" /\ <<"start", u>> \in Calls[called] /\ u \in object
        /\ StartAtOnce(u) /\ UNCHANGED <<init_tick, periodic, object, isrVars, pc>>
    BY <1>5 DEF CallStart
  <2>2. called \in Timer /\ (u = called \/ Owner[u] = Nobody)
    BY <2>1, <1>0, StartedByCall
  <2>3. /\ rt_timer_list' \in Seq(Timer) /\ IsInjective(rt_timer_list')
        /\ ToSet(rt_timer_list') = ToSet(rt_timer_list) \cup {u}
        /\ timeout_tick' \in [Timer -> 0 .. RT_TICK_MAX]
        /\ activated' = [activated EXCEPT ![u] = TRUE]
    BY <2>1, <1>0, StartedAtOnce
  <2>4. /\ activated' \in [Timer -> BOOLEAN]
        /\ \A v \in Timer : v # u => activated'[v] = activated[v]
    BY <2>3, <1>0
  <2>5. \A c \in Thread : pc[c].at \in {"drop", "stamp", "link", "unflag"} => pc[c].obj # u
    BY <2>2, <1>a, <1>b
  <2>6. \A c \in Thread : pc[c].at \in {"stamp", "link"} => ~activated'[pc[c].obj]
    BY <2>4, <2>5, <1>a
  <2> QED BY <2>1, <2>3, <2>4, <2>5, <2>6, <1>0, <1>a, HandlerStep DEF isrVars
<1>6. ASSUME NEW u \in Timer, CallStop(u)
      PROVE  TimerInv'
  <2>1. /\ isr = "call" /\ TakeOut(u) /\ activated' = [activated EXCEPT ![u] = FALSE]
        /\ UNCHANGED <<init_tick, periodic, object, isrVars, pc>>
    BY <1>6 DEF CallStop
  <2>2. /\ rt_timer_list' \in Seq(Timer) /\ IsInjective(rt_timer_list')
        /\ ToSet(rt_timer_list') = ToSet(rt_timer_list) \ {u}
        /\ timeout_tick' \in [Timer -> 0 .. RT_TICK_MAX]
    BY <2>1, <1>0, TakenOut
  <2>3. /\ activated' \in [Timer -> BOOLEAN]
        /\ \A v \in Timer : activated'[v] => activated[v]
    BY <2>1, <1>0
  <2> QED BY <2>1, <2>2, <2>3, <1>0, <1>a, HandlerStep DEF isrVars
<1> QED BY <1>1, <1>2, <1>3, <1>4, <1>5, <1>6 DEF CheckStep

LEMMA InitTimerInv == Init => TimerInv
<1> SUFFICES ASSUME Init PROVE TimerInv
  OBVIOUS
<1>1. ToSet(<<>>) = {} /\ <<>> \in Seq(Timer) /\ IsInjective(<<>>)
  BY DEF ToSet, IsInjective
<1>2. 0 \in 0 .. RT_TICK_MAX
  BY TimerAssumption DEF RT_TICK_MAX
<1>3. TypeOK
  BY <1>1, <1>2, TimerAssumption DEF Init, TypeOK, Free
<1>4. Working
  BY DEF Init, Working, Free
<1>5. Handler
  BY <1>1 DEF Init, Handler
<1> QED BY <1>3, <1>4, <1>5 DEF TimerInv

LEMMA TimerInvStep ==
    ASSUME TimerInv, [Next]_vars
    PROVE  TimerInv'
<1>1. CASE UNCHANGED vars
  BY <1>1 DEF vars, flagVars, isrVars, TimerInv, TypeOK, Working, Handler, Linked
<1>2. CASE Next
  BY <1>2, BeginStep, ContinueStep, TickStep DEF Next
<1> QED BY <1>1, <1>2

LEMMA TimerInvHolds == Spec => []TimerInv
BY InitTimerInv, TimerInvStep, PTL DEF Spec

\* The timer list is a list of distinct timers, whatever the threads and the timeout
\* functions do, and ticks are 32-bit numbers.
THEOREM TypeCorrect == Spec => []TypeOK
<1>1. TimerInv => TypeOK
  BY DEF TimerInv
<1> QED BY <1>1, TimerInvHolds, PTL

-----------------------------------------------------------------------------
(* The flags.                                                              *)

\* A step of a thread on its own timer t leaves the flags of the others alone.
LEMMA OwnFlags ==
    ASSUME TimerInv, Flags, NEW c \in Thread, NEW t \in Timer, isr = "off", Owner[t] = c,
           pc[c].obj \in {Nobody, t},
           ToSet(rt_timer_list') \ {t} = ToSet(rt_timer_list) \ {t},
           \A u \in Timer \ {t} : /\ activated'[u] = activated[u] /\ periodic'[u] = periodic[u]
                                  /\ u \in object' => u \in object,
           pc' \in [Thread -> [at : {"run", "drop", "stamp", "link", "remove", "unflag"},
                               obj : Timer \cup {Nobody}]],
           \A d \in Thread \ {c} : pc'[d] = pc[d],
           object' \subseteq Timer,
           pc'[c].obj \in {Nobody, t},
           t \in object' /\ pc'[c].obj # t => (activated'[t] <=> t \in ToSet(rt_timer_list')),
           UNCHANGED isrVars
    PROVE  Flags'
<1>1. called = Nobody /\ called' = Nobody
  BY DEF TimerInv, Handler, isrVars
<1>2. \A u \in Timer : Owner[u] = Nobody => (periodic'[u] <=> u \in Periodic)
  <2>1. c # Nobody
    BY TimerAssumption
  <2> QED BY <2>1 DEF Flags
<1>3. ASSUME NEW u \in object', called' # u, \A d \in Thread : pc'[d].obj # u
      PROVE  activated'[u] <=> u \in ToSet(rt_timer_list')
  <2>1. CASE u = t
    BY <2>1, <1>3
  <2>2. CASE u # t
    <3>1. u \in Timer /\ u \in object /\ u # Nobody
      BY <2>2, TimerAssumption
    <3>2. \A d \in Thread : pc[d].obj # u
      BY <3>1, <2>2, <1>3
    <3>3. activated[u] <=> u \in ToSet(rt_timer_list)
      BY <3>1, <3>2, <1>1 DEF Flags, Quiet, Linked
    <3> QED BY <3>1, <3>3, <2>2
  <2> QED BY <2>1, <2>2
<1> QED BY <1>1, <1>2, <1>3 DEF Flags, Quiet, Linked

LEMMA BeginFlags ==
    ASSUME TimerInv, Flags, NEW c \in Thread, NEW t \in Timer, Begin(c, t)
    PROVE  Flags'
<1> USE DEF Uses, Runs
<1>0. /\ rt_timer_list \in Seq(Timer) /\ IsInjective(rt_timer_list)
      /\ periodic \in [Timer -> BOOLEAN] /\ activated \in [Timer -> BOOLEAN]
      /\ pc \in [Thread -> [at : {"run", "drop", "stamp", "link", "remove", "unflag"},
                            obj : Timer \cup {Nobody}]]
      /\ TypeOK /\ ToSet(rt_timer_list) \subseteq object /\ object \subseteq Timer
  BY DEF TimerInv, TypeOK, Handler
<1>a. isr = "off" /\ Owner[t] = c /\ pc[c].obj = Nobody /\ called = Nobody /\ Nobody # t
  BY ThreadFinds, TimerAssumption
     DEF Begin, InitTimer, Detach, Start, Stop, Control, TimerInv, Handler
<1>b. \A d \in Thread : pc[d].obj # t
  BY <1>a DEF TimerInv, Working
<1>1. CASE InitTimer(c, t)
  <2>1. /\ \A u \in Timer \ {t} : activated'[u] = activated[u] /\ periodic'[u] = periodic[u]
        /\ ~activated'[t]
        /\ object' = object \cup {t} /\ t \notin object
        /\ UNCHANGED <<rt_timer_list, isrVars, pc>>
    BY <1>0, <1>1 DEF InitTimer
  <2> QED BY <2>1, <1>0, <1>a, OwnFlags
<1>2. CASE Detach(c, t)
  <2>1. TakeOut(t) /\ pc' = [pc EXCEPT ![c] = [at |-> "drop", obj |-> t]]
        /\ UNCHANGED <<init_tick, flagVars, isrVars>>
    BY <1>2 DEF Detach, Call
  <2>2. ToSet(rt_timer_list') = ToSet(rt_timer_list) \ {t}
    BY <2>1, <1>0, TakenOut
  <2> QED BY <2>1, <2>2, <1>0, <1>a, OwnFlags DEF flagVars
<1>3. CASE Start(c, t)
  <2>1. /\ TakeOut(t) /\ pc' = [pc EXCEPT ![c] = [at |-> "stamp", obj |-> t]]
        /\ \A u \in Timer \ {t} : activated'[u] = activated[u]
        /\ UNCHANGED <<init_tick, periodic, object, isrVars>>
    BY <1>0, <1>3 DEF Start, Call
  <2>2. ToSet(rt_timer_list') = ToSet(rt_timer_list) \ {t}
    BY <2>1, <1>0, TakenOut
  <2> QED BY <2>1, <2>2, <1>0, <1>a, OwnFlags
<1>4. CASE Stop(c, t)
  <2>1. /\ pc' = [pc EXCEPT ![c] = [at |-> "remove", obj |-> t]]
        /\ UNCHANGED <<rt_timer_list, timeout_tick, init_tick, flagVars, isrVars>>
    BY <1>4 DEF Stop, Call
  <2> QED BY <2>1, <1>0, <1>a, OwnFlags DEF flagVars
<1>5. CASE Control(c, t)
  <2>1. /\ \A u \in Timer \ {t} : periodic'[u] = periodic[u]
        /\ UNCHANGED <<rt_timer_list, activated, object, isrVars, pc>> /\ t \in object
    BY <1>0, <1>5 DEF Control
  <2>2. activated[t] <=> t \in ToSet(rt_timer_list)
    BY <2>1, <1>a, <1>b DEF Flags, Quiet, Linked
  <2> QED BY <2>1, <2>2, <1>0, <1>a, OwnFlags
<1> QED BY <1>1, <1>2, <1>3, <1>4, <1>5 DEF Begin

LEMMA ContinueFlags ==
    ASSUME TimerInv, Flags, NEW c \in Thread, Continue(c)
    PROVE  Flags'
<1> DEFINE t == pc[c].obj
<1> USE DEF Runs
<1>0. /\ rt_timer_list \in Seq(Timer) /\ IsInjective(rt_timer_list)
      /\ activated \in [Timer -> BOOLEAN]
      /\ pc \in [Thread -> [at : {"run", "drop", "stamp", "link", "remove", "unflag"},
                            obj : Timer \cup {Nobody}]]
      /\ TypeOK /\ ToSet(rt_timer_list) \subseteq object /\ object \subseteq Timer
  BY DEF TimerInv, TypeOK, Handler
<1>a. /\ isr = "off" /\ pc[c].at # "run" /\ t \in Timer /\ t \in object /\ Owner[t] = c
      /\ pc[c].at \in {"drop", "stamp", "link", "unflag"} => t \notin ToSet(rt_timer_list)
  BY ThreadFinds DEF Continue, Drop, Stamp, Link, StopRemove, StopFlag, Linked
<1>1. CASE Drop(c)
  <2>1. /\ object' = object \ {t}
        /\ pc' = [pc EXCEPT ![c] = [at |-> "run", obj |-> Nobody]]
        /\ UNCHANGED <<rt_timer_list, timeout_tick, init_tick, periodic, activated, isrVars>>
    BY <1>1 DEF Drop, Return, Free
  <2> QED BY <2>1, <1>0, <1>a, OwnFlags
<1>2. CASE Stamp(c)
  <2>1. /\ pc' = [pc EXCEPT ![c] = [at |-> "link", obj |-> t]]
        /\ UNCHANGED <<rt_timer_list, init_tick, flagVars, isrVars>>
    BY <1>2 DEF Stamp, Call
  <2> QED BY <2>1, <1>0, <1>a, OwnFlags DEF flagVars
<1>3. CASE Link(c)
  <2>1. /\ pc[c].at = "link" /\ InsertTimer(rt_timer_list, t, timeout_tick[t])
        /\ activated' = [activated EXCEPT ![t] = TRUE]
        /\ pc' = [pc EXCEPT ![c] = [at |-> "run", obj |-> Nobody]]
        /\ UNCHANGED <<timeout_tick, init_tick, periodic, object, isrVars>>
    BY <1>3 DEF Link, Return, Free
  <2>2. ToSet(rt_timer_list') = ToSet(rt_timer_list) \cup {t}
    BY <2>1, <1>0, <1>a, Inserted
  <2>3. activated'[t] /\ \A u \in Timer \ {t} : activated'[u] = activated[u]
    BY <2>1, <1>0, <1>a
  <2>4. /\ pc' \in [Thread -> [at : {"run", "drop", "stamp", "link", "remove", "unflag"},
                               obj : Timer \cup {Nobody}]]
        /\ pc'[c].obj = Nobody /\ \A d \in Thread \ {c} : pc'[d] = pc[d]
    BY <2>1, <1>0
  <2>5. /\ ToSet(rt_timer_list') \ {t} = ToSet(rt_timer_list) \ {t}
        /\ t \in ToSet(rt_timer_list')
        /\ \A u \in Timer \ {t} : periodic'[u] = periodic[u] /\ (u \in object' => u \in object)
        /\ object' \subseteq Timer /\ UNCHANGED isrVars
    BY <2>1, <2>2, <1>0
  <2> HIDE DEF t
  <2> QED BY <2>3, <2>4, <2>5, <1>a, OwnFlags DEF t
<1>4. CASE StopRemove(c)
  <2>1. /\ TakeOut(t) /\ pc' = [pc EXCEPT ![c] = [at |-> "unflag", obj |-> t]]
        /\ UNCHANGED <<init_tick, flagVars, isrVars>>
    BY <1>4 DEF StopRemove, Call
  <2>2. ToSet(rt_timer_list') = ToSet(rt_timer_list) \ {t}
    BY <2>1, <1>0, <1>a, TakenOut
  <2> QED BY <2>1, <2>2, <1>0, <1>a, OwnFlags DEF flagVars
<1>5. CASE StopFlag(c)
  <2>1. /\ pc[c].at = "unflag" /\ activated' = [activated EXCEPT ![t] = FALSE]
        /\ pc' = [pc EXCEPT ![c] = [at |-> "run", obj |-> Nobody]]
        /\ UNCHANGED <<rt_timer_list, timeout_tick, init_tick, periodic, object, isrVars>>
    BY <1>5 DEF StopFlag, Return, Free
  <2>2. ~activated'[t] /\ \A u \in Timer \ {t} : activated'[u] = activated[u]
    BY <2>1, <1>0, <1>a
  <2> QED BY <2>1, <2>2, <1>0, <1>a, OwnFlags
<1> QED BY <1>1, <1>2, <1>3, <1>4, <1>5 DEF Continue

LEMMA TickFlags ==
    ASSUME TimerInv, Flags, RestartsPeriodic,
           Tick \/ CheckStep \/ \E t \in Timer : CallStart(t) \/ CallStop(t)
    PROVE  Flags'
<1>0. /\ rt_timer_list \in Seq(Timer) /\ IsInjective(rt_timer_list)
      /\ activated \in [Timer -> BOOLEAN] /\ called \in Timer \cup {Nobody}
      /\ TypeOK /\ ToSet(rt_timer_list) \subseteq object /\ object \subseteq Timer
      /\ isr = "call" <=> called # Nobody
      /\ Nobody \notin Timer
  BY TimerAssumption DEF TimerInv, TypeOK, Handler
<1>a. /\ \A t \in Timer : Owner[t] = Nobody => (periodic[t] <=> t \in Periodic)
      /\ called # Nobody /\ called \in ToSet(rt_timer_list) => periodic[called] /\ activated[called]
      /\ \A t \in object : called # t /\ (\A c \in Thread : pc[c].obj # t)
                            => (activated[t] <=> t \in ToSet(rt_timer_list))
  BY DEF Flags, Quiet, Linked
<1> SUFFICES /\ periodic' = periodic /\ pc' = pc /\ object' = object
             /\ called' # Nobody /\ called' \in ToSet(rt_timer_list') =>
                   periodic[called'] /\ activated'[called']
             /\ \A t \in object : called' # t /\ (\A c \in Thread : pc[c].obj # t)
                            => (activated'[t] <=> t \in ToSet(rt_timer_list'))
  BY <1>a DEF Flags, Quiet, Linked
<1>1. CASE Tick \/ CheckDone
  BY <1>1, <1>a DEF Tick, CheckDone, flagVars
<1>2. CASE Expire
  <2> DEFINE t == Head(rt_timer_list)
  <2>1. /\ TakeOut(t) /\ isr = "check" /\ called' = t
        /\ UNCHANGED <<rt_tick, init_tick, flagVars, pc>> /\ rt_timer_list # <<>>
    BY <1>2 DEF Expire
  <2>2. t \in ToSet(rt_timer_list)
    BY <2>1, <1>0, TailElements
  <2> HIDE DEF t
  <2>3. ToSet(rt_timer_list') = ToSet(rt_timer_list) \ {t}
    BY <2>1, <2>2, <1>0, TakenOut
  <2>4. called = Nobody
    BY <2>1, <1>0
  <2> QED BY <2>1, <2>2, <2>3, <2>4, <1>0, <1>a DEF flagVars
<1>3. CASE Settle
  <2>1. /\ isr = "call" /\ called' = Nobody
        /\ UNCHANGED <<rt_tick, init_tick, periodic, object, pc>>
    BY <1>3 DEF Settle
  <2>2. called \in Timer
    BY <2>1, <1>0
  <2>3. CASE Restarts(called)
    <3>1. StartAtOnce(called)
      BY <1>3, <2>3 DEF Settle
    <3>2. /\ ToSet(rt_timer_list') = ToSet(rt_timer_list) \cup {called}
          /\ activated' = [activated EXCEPT ![called] = TRUE]
      BY <3>1, <2>2, <1>0, StartedAtOnce
    <3>3. activated'[called] /\ \A u \in Timer : u # called => activated'[u] = activated[u]
      BY <3>2, <2>2, <1>0
    <3> QED BY <3>2, <3>3, <2>1, <2>2, <1>0, <1>a
  <2>4. CASE ~Restarts(called)
    <3>1. /\ activated' = [activated EXCEPT ![called] = FALSE]
          /\ UNCHANGED <<rt_timer_list, timeout_tick>>
      BY <1>3, <2>4 DEF Settle
    <3>2. ~activated'[called] /\ \A u \in Timer : u # called => activated'[u] = activated[u]
      BY <3>1, <2>2, <1>0
    <3>3. called \notin ToSet(rt_timer_list)
      BY <2>2, <2>4, <1>0, <1>a DEF Restarts
    <3> QED BY <3>1, <3>2, <3>3, <2>1, <2>2, <1>0, <1>a
  <2> QED BY <2>3, <2>4
<1>5. ASSUME NEW u \in Timer, CallStart(u)
      PROVE  /\ periodic' = periodic /\ pc' = pc /\ object' = object
             /\ called' # Nobody /\ called' \in ToSet(rt_timer_list') =>
                   periodic[called'] /\ activated'[called']
             /\ \A t \in object : called' # t /\ (\A c \in Thread : pc[c].obj # t)
                            => (activated'[t] <=> t \in ToSet(rt_timer_list'))
  <2>1. /\ isr = "call" /\ <<"start", u>> \in Calls[called] /\ u \in object
        /\ StartAtOnce(u) /\ UNCHANGED <<init_tick, periodic, object, isrVars, pc>>
    BY <1>5 DEF CallStart
  <2>2. /\ ToSet(rt_timer_list') = ToSet(rt_timer_list) \cup {u}
        /\ activated' = [activated EXCEPT ![u] = TRUE]
    BY <2>1, <1>0, StartedAtOnce
  <2>3. activated'[u] /\ \A v \in Timer : v # u => activated'[v] = activated[v]
    BY <2>2, <1>0
  <2>4. called' = called /\ called \in Timer
    BY <2>1, <1>0 DEF isrVars
  <2>5. u = called => periodic[u]
    BY <2>1, <2>4, <1>a DEF RestartsPeriodic
  <2> QED BY <2>1, <2>2, <2>3, <2>4, <2>5, <1>0, <1>a
<1>6. ASSUME NEW u \in Timer, CallStop(u)
      PROVE  /\ periodic' = periodic /\ pc' = pc /\ object' = object
             /\ called' # Nobody /\ called' \in ToSet(rt_timer_list') =>
                   periodic[called'] /\ activated'[called']
             /\ \A t \in object : called' # t /\ (\A c \in Thread : pc[c].obj # t)
                            => (activated'[t] <=> t \in ToSet(rt_timer_list'))
  <2>1. /\ isr = "call" /\ TakeOut(u) /\ activated' = [activated EXCEPT ![u] = FALSE]
        /\ UNCHANGED <<init_tick, periodic, object, isrVars, pc>>
    BY <1>6 DEF CallStop
  <2>2. ToSet(rt_timer_list') = ToSet(rt_timer_list) \ {u}
    BY <2>1, <1>0, TakenOut
  <2>3. ~activated'[u] /\ \A v \in Timer : v # u => activated'[v] = activated[v]
    BY <2>1, <1>0
  <2>4. called' = called
    BY <2>1 DEF isrVars
  <2> QED BY <2>1, <2>2, <2>3, <2>4, <1>0, <1>a
<1> QED BY <1>1, <1>2, <1>3, <1>5, <1>6 DEF CheckStep

\* A timer that nothing works on has the flag RT_TIMER_FLAG_ACTIVATED exactly when it is
\* linked, so that rt_timer_stop can stop whatever may still expire, and one that is
\* deleted is not linked.  The hypothesis is what the run TimerRestart shows to be needed.
THEOREM FlagsCorrect == ASSUME RestartsPeriodic PROVE Spec => []ActiveMeansLinked
<1>1. Init => Flags
  <2> SUFFICES ASSUME Init PROVE Flags
    OBVIOUS
  <2>1. ToSet(<<>>) = {}
    BY DEF ToSet
  <2> QED BY <2>1 DEF Init, Flags, Linked
<1>2. ASSUME TimerInv, Flags, [Next]_vars
      PROVE  Flags'
  <2>1. CASE UNCHANGED vars
    BY <1>2, <2>1 DEF vars, flagVars, isrVars, Flags, Linked, Quiet
  <2>2. CASE Next
    BY <1>2, <2>2, RestartsPeriodic, BeginFlags, ContinueFlags, TickFlags DEF Next
  <2> QED BY <1>2, <2>1, <2>2
<1>3. TimerInv /\ Flags => ActiveMeansLinked
  BY DEF TimerInv, Handler, Flags, ActiveMeansLinked, Linked
<1> QED BY <1>1, <1>2, <1>3, TimerInvHolds, PTL DEF Spec

-----------------------------------------------------------------------------
(* The arithmetic of ticks.  TicksLeft is the countdown that a wrapping     *)
(* timeout_tick stands for.                                                 *)

MaxTime == Max(Times)

LEMMA Sizes ==
    /\ TickRange \in Nat \ {0} /\ Half \in Nat /\ 2 * Half < TickRange
    /\ MaxLate \in Nat /\ MaxTime \in Nat /\ MaxTime > 0
    /\ MaxTime + MaxLate <= Half /\ MaxTime < Half
    /\ \A n \in Times : n \in 1 .. MaxTime
<1>1. TickRange \in Nat \ {0} /\ MaxLate \in Nat
  BY TimerAssumption
<1>2. Half \in Nat /\ 2 * Half < TickRange
  BY <1>1 DEF Half, RT_TICK_MAX
<1>3. \A n \in Times : n \in Nat /\ n > 0 /\ n < Half
  BY TimesAreNumbers
<1>4. \E m \in Times : \A n \in Times : m >= n
  <2> DEFINE T == {Half - n : n \in Times}
  <2>1. T \in SUBSET Nat
    BY <1>2, <1>3
  <2>2. T # {}
    <3>1. PICK n \in Times : TRUE
      BY TimerAssumption
    <3>2. Half - n \in T
      OBVIOUS
    <3> QED BY <3>2
  <2>3. Min(T) \in T /\ \A y \in T : Min(T) <= y
    BY <2>1, <2>2, LeastPlace
  <2>4. PICK m \in Times : Min(T) = Half - m
    BY <2>3
  <2>5. \A n \in Times : Half - m <= Half - n
    BY <2>3, <2>4
  <2>6. ASSUME NEW n \in Times
        PROVE  m >= n
    <3>1. m \in Int /\ n \in Int /\ Half \in Int
      BY <1>2, <1>3
    <3> QED BY <3>1, <2>5
  <2> QED BY <2>6
<1>5. MaxTime \in Times /\ \A n \in Times : MaxTime >= n
  BY <1>4 DEF MaxTime, Max
<1>6. MaxTime + MaxLate <= Half
  BY <1>5, TimerAssumption
<1>7. MaxTime \in Nat /\ MaxTime > 0 /\ MaxTime < Half
  BY <1>3, <1>5
<1>8. ASSUME NEW n \in Times
      PROVE  n \in 1 .. MaxTime
  <2>1. n \in Nat /\ n > 0 /\ MaxTime >= n
    BY <1>3, <1>5
  <2> QED BY <2>1, <1>7
<1> QED BY <1>1, <1>2, <1>6, <1>7, <1>8

\* The tick that is d ticks on.
LEMMA TicksOn ==
    ASSUME NEW R \in Nat \ {0}, NEW a \in 0 .. R - 1, NEW d \in Int, -R < d, d < R
    PROVE  /\ (a + d) % R \in 0 .. R - 1
           /\ (a + d) % R \in {a + d, a + d - R, a + d + R}
OBVIOUS

\* The countdown of a timeout at a given tick: TicksLeft(t) is Left(rt_tick, timeout_tick[t]).
Left(tick, timeout) ==
    IF Minus(tick, timeout) < Half THEN -Minus(tick, timeout) ELSE Minus(timeout, tick)

\* What times out n ticks from now has n ticks left.
LEMMA LeftIs ==
    ASSUME NEW a \in 0 .. RT_TICK_MAX, NEW n \in Int, -Half < n, n < Half
    PROVE  Left(a, Plus(a, n)) = n
<1> DEFINE R == TickRange
           b == (a + n) % R
<1>1. /\ R \in Nat \ {0} /\ a \in 0 .. R - 1 /\ Half \in Nat
      /\ 2 * Half < R /\ -R < n /\ n < R
  BY Sizes DEF RT_TICK_MAX
<1> HIDE DEF R
<1>2. b \in 0 .. R - 1 /\ b \in {a + n, a + n - R, a + n + R}
  BY <1>1, TicksOn
<1> HIDE DEF b
<1>3. (b - a) % R = IF n >= 0 THEN n ELSE n + R
  <2>1. b - a \in Int /\ -R < b - a /\ b - a < R
    BY <1>1, <1>2
  <2>2. (b - a) % R = IF b - a >= 0 THEN b - a ELSE b - a + R
    BY <2>1, <1>1
  <2> QED BY <2>2, <1>1, <1>2
<1>4. (a - b) % R = IF n <= 0 THEN -n ELSE R - n
  <2>1. a - b \in Int /\ -R < a - b /\ a - b < R
    BY <1>1, <1>2
  <2>2. (a - b) % R = IF a - b >= 0 THEN a - b ELSE a - b + R
    BY <2>1, <1>1
  <2> QED BY <2>2, <1>1, <1>2
<1>5. (IF (a - b) % R < Half THEN -((a - b) % R) ELSE (b - a) % R) = n
  BY <1>1, <1>3, <1>4
<1> QED BY <1>5 DEF Left, Minus, Plus, R, b

\* Every tick is as many ticks from now as are left.
LEMMA LeftThen ==
    ASSUME NEW a \in 0 .. RT_TICK_MAX, NEW b \in 0 .. RT_TICK_MAX
    PROVE  /\ Left(a, b) \in Int /\ -Half < Left(a, b) /\ Left(a, b) < TickRange
           /\ b = Plus(a, Left(a, b))
           /\ Minus(a, b) < Half <=> Left(a, b) <= 0
<1>1. /\ TickRange \in Nat \ {0} /\ a \in 0 .. TickRange - 1 /\ b \in 0 .. TickRange - 1
      /\ Half \in Nat /\ Half > 0 /\ 2 * Half < TickRange
  BY Sizes DEF RT_TICK_MAX
<1>2. /\ Minus(a, b) = IF a >= b THEN a - b ELSE a - b + TickRange
      /\ Minus(b, a) = IF b >= a THEN b - a ELSE b - a + TickRange
  BY <1>1 DEF Minus
<1>3. CASE Minus(a, b) < Half
  <2>1. Left(a, b) = -Minus(a, b)
    BY <1>3 DEF Left
  <2>2. a + Left(a, b) \in {b, b - TickRange}
    BY <2>1, <1>1, <1>2
  <2>3. (a + Left(a, b)) % TickRange = b
    BY <2>2, <1>1
  <2>4. Minus(a, b) \in Int /\ Minus(a, b) >= 0
    BY <1>1, <1>2
  <2>5. /\ Left(a, b) \in Int /\ Left(a, b) <= 0
        /\ -Half < Left(a, b) /\ Left(a, b) < TickRange
    BY <2>1, <2>4, <1>1, <1>3
  <2> QED BY <2>3, <2>5, <1>3 DEF Plus
<1>4. CASE ~(Minus(a, b) < Half)
  <2>1. Left(a, b) = Minus(b, a)
    BY <1>4 DEF Left
  <2>2. a + Left(a, b) \in {b, b + TickRange}
    BY <2>1, <1>1, <1>2
  <2>3. (a + Left(a, b)) % TickRange = b
    BY <2>2, <1>1
  <2>4. Minus(b, a) > 0 /\ Minus(b, a) \in Int /\ Minus(b, a) < TickRange
    <3>1. a # b
      BY <1>1, <1>2, <1>4
    <3> QED BY <3>1, <1>1, <1>2
  <2>5. Left(a, b) \in Int /\ Left(a, b) > 0 /\ Left(a, b) < TickRange
    BY <2>1, <2>4
  <2> QED BY <2>3, <2>5, <1>1, <1>4 DEF Plus
<1> QED BY <1>3, <1>4

\* A tick takes one off, across the wraparound.
LEMMA TickDown ==
    ASSUME NEW a \in 0 .. RT_TICK_MAX, NEW b \in 0 .. RT_TICK_MAX,
           1 - Half < Left(a, b), Left(a, b) <= Half
    PROVE  Left(Plus(a, 1), b) = Left(a, b) - 1
<1> DEFINE R == TickRange
           n == Left(a, b)
           a1 == Plus(a, 1)
<1>1. /\ R \in Nat \ {0} /\ a \in 0 .. R - 1 /\ b \in 0 .. R - 1 /\ Half \in Nat /\ Half > 0
      /\ 2 * Half < R /\ n \in Int /\ 1 - Half < n /\ n <= Half
  BY Sizes, LeftThen DEF RT_TICK_MAX
<1>2. b = (a + n) % R
  BY LeftThen DEF Plus
<1>3. a1 \in 0 .. R - 1 /\ a1 \in {a + 1, a + 1 - R} /\ a1 \in 0 .. RT_TICK_MAX
  <2>1. a1 = (a + 1) % R
    BY DEF Plus
  <2> HIDE DEF R, a1
  <2>2. a1 \in 0 .. R - 1 /\ a1 \in {a + 1, a + 1 - R}
    BY <2>1, <1>1
  <2> QED BY <2>2 DEF R, RT_TICK_MAX
<1>4. b = (a1 + (n - 1)) % R
  <2> HIDE DEF R, n, a1
  <2>0. -R < n /\ n < R
    BY <1>1
  <2>1. b \in {a + n, a + n - R, a + n + R}
    BY <2>0, <1>1, <1>2, TicksOn
  <2>2. a1 + (n - 1) \in {b, b - R, b + R}
    <3>1. a1 + (n - 1) \in {a + n, a + n - R}
      BY <1>1, <1>3
    <3>2. -R <= a1 + (n - 1) /\ a1 + (n - 1) < 2 * R
      BY <1>1, <1>3
    <3> QED BY <3>1, <3>2, <2>1, <1>1
  <2> QED BY <2>2, <1>1
<1>5. b = Plus(a1, n - 1)
  BY <1>4 DEF Plus
<1>6. n - 1 \in Int /\ -Half < n - 1 /\ n - 1 < Half
  BY <1>1
<1> HIDE DEF n, a1
<1>7. Left(a1, Plus(a1, n - 1)) = n - 1
  BY <1>3, <1>6, LeftIs
<1> QED BY <1>5, <1>7 DEF n, a1

\* How late a thread is between the computation of a timeout and its insertion.
LEMMA LateBy ==
    ASSUME NEW a \in 0 .. RT_TICK_MAX, NEW b \in 0 .. RT_TICK_MAX, NEW n \in Nat,
           n < Half, n - MaxLate <= Left(a, b), Left(a, b) <= n
    PROVE  Minus(a, b - n) = n - Left(a, b)
<1> DEFINE R == TickRange
           m == Left(a, b)
<1>1. /\ R \in Nat \ {0} /\ a \in 0 .. R - 1 /\ b \in 0 .. R - 1 /\ Half \in Nat /\ Half > 0
      /\ 2 * Half < R /\ m \in Int /\ -Half < m /\ MaxLate \in Nat /\ MaxLate < Half
      /\ n - MaxLate <= m /\ m <= n
  BY Sizes, LeftThen DEF RT_TICK_MAX
<1>2. b = (a + m) % R
  BY LeftThen DEF Plus
<1> HIDE DEF R, m
<1>3. b \in {a + m, a + m - R, a + m + R}
  <2>1. -R < m /\ m < R
    BY <1>1
  <2> QED BY <2>1, <1>1, <1>2, TicksOn
<1>4. a - (b - n) \in {n - m, n - m + R, n - m - R}
  BY <1>1, <1>3
<1>5. n - m \in 0 .. R - 1
  BY <1>1
<1>6. (a - (b - n)) % R = n - m
  BY <1>1, <1>4, <1>5
<1> QED BY <1>6 DEF Minus, R, m

\* TicksLeft is the countdown of timeout_tick.
LEMMA TicksLeftIs ==
    ASSUME NEW t, rt_tick \in 0 .. RT_TICK_MAX, timeout_tick[t] \in 0 .. RT_TICK_MAX
    PROVE  /\ TicksLeft(t) = Left(rt_tick, timeout_tick[t])
           /\ TicksLeft(t) \in Int /\ -Half < TicksLeft(t) /\ TicksLeft(t) < TickRange
           /\ timeout_tick[t] = Plus(rt_tick, TicksLeft(t))
           /\ Due(t) <=> TicksLeft(t) <= 0
<1>1. TicksLeft(t) = Left(rt_tick, timeout_tick[t])
  BY DEF TicksLeft, Left, Due
<1>2. Due(t) <=> Minus(rt_tick, timeout_tick[t]) < Half
  BY DEF Due
<1> QED BY <1>1, <1>2, LeftThen

\* Later compares countdowns that are not too far apart.
LEMMA LaterIs ==
    ASSUME NEW u, NEW n \in Int, rt_tick \in 0 .. RT_TICK_MAX,
           timeout_tick[u] \in 0 .. RT_TICK_MAX, -Half < n, n < Half,
           -Half <= TicksLeft(u) - n, TicksLeft(u) - n < Half
    PROVE  Later(u, Plus(rt_tick, n)) <=> TicksLeft(u) > n
<1> DEFINE R == TickRange
           m == TicksLeft(u)
           a == (rt_tick + n) % R
           b == (rt_tick + m) % R
<1>1. /\ R \in Nat \ {0} /\ rt_tick \in 0 .. R - 1 /\ Half \in Nat /\ 2 * Half < R
      /\ m \in Int /\ timeout_tick[u] = b /\ m < R /\ -Half < m
  BY Sizes, TicksLeftIs DEF RT_TICK_MAX, Plus
<1>2. a \in 0 .. R - 1 /\ a \in {rt_tick + n, rt_tick + n - R, rt_tick + n + R}
  <2>1. -R < n /\ n < R
    BY <1>1
  <2> HIDE DEF R
  <2> QED BY <2>1, <1>1, TicksOn
<1>3. b \in 0 .. R - 1 /\ b \in {rt_tick + m, rt_tick + m - R, rt_tick + m + R}
  <2>1. -R < m /\ m < R
    BY <1>1
  <2> HIDE DEF R, m
  <2> QED BY <2>1, <1>1, TicksOn
<1>a. -Half <= m - n /\ m - n < Half
  OBVIOUS
<1> HIDE DEF R, m, a, b
<1>4. /\ b - a \in Int /\ -R < b - a /\ b - a < R
      /\ b - a \in {m - n, m - n - R, m - n + R}
  BY <1>1, <1>2, <1>3, <1>a
<1>5. (b - a) % R = IF b - a >= 0 THEN b - a ELSE b - a + R
  BY <1>1, <1>4
<1>6. (b - a) % R = IF m >= n THEN m - n ELSE m - n + R
  BY <1>1, <1>4, <1>5, <1>a
<1>7. (b - a) % R \in 1 .. Half - 1 <=> m > n
  BY <1>1, <1>6, <1>a
<1> QED BY <1>1, <1>7 DEF Later, Minus, Plus, R, m, a, b

-----------------------------------------------------------------------------
(* The order of the list.                                                  *)

\* Putting n in front of the i-th keeps the order of the others, and puts n behind
\* those before.
LEMMA InsertOrder ==
    ASSUME NEW S, NEW q \in Seq(S), NEW i \in 1 .. Len(q) + 1, NEW n \in S \ ToSet(q)
    PROVE  /\ \A x, y : x # n /\ y # n =>
                 (Precedes(InsertAt(q, i, n), x, y) <=> Precedes(q, x, y))
           /\ \A x : Precedes(InsertAt(q, i, n), x, n) <=> \E k \in 1 .. i - 1 : q[k] = x
           /\ \A y : Precedes(InsertAt(q, i, n), n, y) => \E k \in i .. Len(q) : q[k] = y
<1> DEFINE r == InsertAt(q, i, n)
           at(j) == IF j < i THEN j ELSE j + 1
           from(k) == IF k < i THEN k ELSE k - 1
<1>1. /\ r \in Seq(S) /\ Len(r) = Len(q) + 1 /\ r[i] = n
      /\ \A j \in 1 .. Len(q) : r[at(j)] = q[j]
  BY InsertAtElements
<1> HIDE DEF r
<1>2. /\ Len(q) \in Nat /\ DOMAIN q = 1 .. Len(q) /\ DOMAIN r = 1 .. Len(q) + 1
  BY <1>1, LenProperties
<1>3. \A j \in 1 .. Len(q) : at(j) \in 1 .. Len(q) + 1 /\ q[j] # n
  BY <1>2 DEF ToSet
<1>4. \A k \in 1 .. Len(q) + 1 : k # i => from(k) \in 1 .. Len(q) /\ at(from(k)) = k
  BY <1>2
<1>5. \A k \in 1 .. Len(q) + 1 : k # i => from(k) \in 1 .. Len(q) /\ r[k] = q[from(k)] /\ r[k] # n
  BY <1>1, <1>3, <1>4
<1>6. ASSUME NEW x, NEW y, x # n, y # n, Precedes(r, x, y)
      PROVE  Precedes(q, x, y)
  <2>1. PICK a \in 1 .. Len(q) + 1, b \in 1 .. Len(q) + 1 : a < b /\ r[a] = x /\ r[b] = y
    BY <1>2, <1>6 DEF Precedes
  <2>2. a # i /\ b # i
    BY <2>1, <1>1, <1>6
  <2>3. from(a) \in 1 .. Len(q) /\ from(b) \in 1 .. Len(q) /\ q[from(a)] = x /\ q[from(b)] = y
    BY <2>1, <2>2, <1>5
  <2>4. from(a) < from(b)
    BY <2>1, <2>2, <1>2
  <2> QED BY <2>3, <2>4, <1>2 DEF Precedes
<1>7. ASSUME NEW x, NEW y, Precedes(q, x, y)
      PROVE  Precedes(r, x, y)
  <2>1. PICK a \in 1 .. Len(q), b \in 1 .. Len(q) : a < b /\ q[a] = x /\ q[b] = y
    BY <1>2, <1>7 DEF Precedes
  <2>2. at(a) \in 1 .. Len(q) + 1 /\ at(b) \in 1 .. Len(q) + 1 /\ r[at(a)] = x /\ r[at(b)] = y
    BY <2>1, <1>1, <1>3
  <2>3. at(a) < at(b)
    BY <2>1, <1>2
  <2> QED BY <2>2, <2>3, <1>2 DEF Precedes
<1>8. ASSUME NEW x, Precedes(r, x, n)
      PROVE  \E k \in 1 .. i - 1 : q[k] = x
  <2>1. PICK a \in 1 .. Len(q) + 1, b \in 1 .. Len(q) + 1 : a < b /\ r[a] = x /\ r[b] = n
    BY <1>2, <1>8 DEF Precedes
  <2>2. b = i
    BY <2>1, <1>5
  <2>3. a \in 1 .. i - 1 /\ a # i /\ from(a) = a
    BY <2>1, <2>2, <1>2
  <2> QED BY <2>1, <2>3, <1>5
<1>9. ASSUME NEW k \in 1 .. i - 1
      PROVE  Precedes(r, q[k], n)
  <2>1. k \in 1 .. Len(q) /\ k \in 1 .. Len(q) + 1 /\ at(k) = k /\ k < i /\ i \in 1 .. Len(q) + 1
    BY <1>2
  <2> QED BY <2>1, <1>1, <1>2 DEF Precedes
<1>10. ASSUME NEW y, Precedes(r, n, y)
       PROVE  \E k \in i .. Len(q) : q[k] = y
  <2>1. PICK a \in 1 .. Len(q) + 1, b \in 1 .. Len(q) + 1 : a < b /\ r[a] = n /\ r[b] = y
    BY <1>2, <1>10 DEF Precedes
  <2>2. a = i
    BY <2>1, <1>5
  <2>3. b - 1 \in i .. Len(q) /\ b # i /\ from(b) = b - 1
    BY <2>1, <2>2, <1>2
  <2> QED BY <2>1, <2>3, <1>5
<1> QED BY <1>6, <1>7, <1>8, <1>9, <1>10 DEF r

\* Taking a node out keeps the order of the others.
LEMMA UnlinkOrder ==
    ASSUME NEW S, NEW q \in Seq(S), IsInjective(q), NEW n
    PROVE  \A x, y : Precedes(Unlink(q, n), x, y) <=> x # n /\ y # n /\ Precedes(q, x, y)
<1>0. Len(q) \in Nat /\ DOMAIN q = 1 .. Len(q)
  BY LenProperties
<1>1. CASE n \notin ToSet(q)
  BY <1>0, <1>1 DEF Unlink, Precedes, ToSet
<1>2. CASE n \in ToSet(q)
  <2> DEFINE i == CHOOSE i \in DOMAIN q : q[i] = n
             r == RemoveAt(q, i)
             at(j) == IF j < i THEN j ELSE j + 1
             from(k) == IF k < i THEN k ELSE k - 1
  <2>1. i \in 1 .. Len(q) /\ q[i] = n
    BY <1>0, <1>2 DEF ToSet
  <2>2. Unlink(q, n) = r
    BY <1>2 DEF Unlink
  <2> HIDE DEF i
  <2>3. r \in Seq(S) /\ Len(r) = Len(q) - 1
        /\ \A j \in 1 .. Len(q) - 1 : r[j] = IF j < i THEN q[j] ELSE q[j + 1]
    BY <2>1, RemoveAtElements
  <2> HIDE DEF r
  <2>4. DOMAIN r = 1 .. Len(q) - 1
    BY <2>3, LenProperties
  <2>5. \A j \in 1 .. Len(q) - 1 : at(j) \in 1 .. Len(q) /\ r[j] = q[at(j)] /\ at(j) # i
    BY <1>0, <2>1, <2>3
  <2>6. \A k \in 1 .. Len(q) : k # i => from(k) \in 1 .. Len(q) - 1 /\ at(from(k)) = k
    BY <1>0, <2>1
  <2>7. \A k \in 1 .. Len(q) : k # i => from(k) \in 1 .. Len(q) - 1 /\ r[from(k)] = q[k]
    BY <2>5, <2>6
  <2>8. \A k \in 1 .. Len(q) : q[k] = n => k = i
    BY <1>0, <2>1 DEF IsInjective
  <2>9. ASSUME NEW x, NEW y, Precedes(r, x, y)
        PROVE  x # n /\ y # n /\ Precedes(q, x, y)
    <3>1. PICK a \in 1 .. Len(q) - 1, b \in 1 .. Len(q) - 1 : a < b /\ r[a] = x /\ r[b] = y
      BY <2>4, <2>9 DEF Precedes
    <3>2. /\ at(a) \in 1 .. Len(q) /\ at(b) \in 1 .. Len(q) /\ q[at(a)] = x /\ q[at(b)] = y
          /\ at(a) # i /\ at(b) # i
      BY <3>1, <2>5
    <3>3. at(a) < at(b)
      BY <3>1, <2>1, <1>0
    <3> HIDE DEF at
    <3> QED BY <3>2, <3>3, <2>8, <1>0 DEF Precedes
  <2>10. ASSUME NEW x, NEW y, x # n, y # n, Precedes(q, x, y)
         PROVE  Precedes(r, x, y)
    <3>1. PICK a \in 1 .. Len(q), b \in 1 .. Len(q) : a < b /\ q[a] = x /\ q[b] = y
      BY <1>0, <2>10 DEF Precedes
    <3>2. a # i /\ b # i
      BY <3>1, <2>1, <2>10
    <3>3. /\ from(a) \in 1 .. Len(q) - 1 /\ from(b) \in 1 .. Len(q) - 1
          /\ r[from(a)] = x /\ r[from(b)] = y
      BY <3>1, <3>2, <2>7
    <3>4. from(a) < from(b)
      BY <3>1, <3>2, <2>1, <1>0
    <3> HIDE DEF from
    <3> QED BY <3>3, <3>4, <2>4 DEF Precedes
  <2> QED BY <2>2, <2>9, <2>10
<1> QED BY <1>1, <1>2

\* The first of a list precedes the others.
LEMMA HeadFirst ==
    ASSUME NEW S, NEW q \in Seq(S), NEW x \in ToSet(q), q # <<>>
    PROVE  x = Head(q) \/ Precedes(q, Head(q), x)
<1>1. Len(q) \in Nat /\ DOMAIN q = 1 .. Len(q) /\ Len(q) >= 1 /\ Head(q) = q[1]
  BY LenProperties, EmptySeq
<1>2. PICK j \in 1 .. Len(q) : q[j] = x
  BY <1>1 DEF ToSet
<1>3. CASE j = 1
  BY <1>1, <1>2, <1>3
<1>4. CASE j # 1
  <2>1. 1 \in 1 .. Len(q) /\ 1 < j
    BY <1>1, <1>4
  <2> QED BY <2>1, <1>1, <1>2 DEF Precedes
<1> QED BY <1>3, <1>4

\* A timer is put behind those that do not time out later than it.
LEMMA SortedInsert ==
    ASSUME TypeOK, NEW list \in Seq(Timer), IsInjective(list), NEW t \in Timer \ ToSet(list),
           \A x, y \in Timer : Precedes(list, x, y) => TicksLeft(x) <= TicksLeft(y),
           NEW n \in Int, -Half < n, n < Half,
           \A u \in ToSet(list) : -Half <= TicksLeft(u) - n /\ TicksLeft(u) - n < Half,
           NEW tick, tick = Plus(rt_tick, n), InsertTimer(list, t, tick)
    PROVE  /\ \A x, y \in Timer : Precedes(list, x, y) => Precedes(rt_timer_list', x, y)
           /\ \A x \in ToSet(list) : TicksLeft(x) <= n => Precedes(rt_timer_list', x, t)
           /\ \A x, y \in Timer : Precedes(rt_timer_list', x, y) =>
                 \/ x # t /\ y # t /\ Precedes(list, x, y)
                 \/ x \in ToSet(list) /\ x # t /\ y = t /\ TicksLeft(x) <= n
                 \/ x = t /\ y \in ToSet(list) /\ y # t /\ n < TicksLeft(y)
<1> DEFINE i == Place(list, tick)
           later == {j \in DOMAIN list : Later(list[j], tick)}
           f(j) == TicksLeft(list[j])
<1>1. Len(list) \in Nat /\ DOMAIN list = 1 .. Len(list)
  BY LenProperties
<1>2. i \in 1 .. Len(list) + 1 /\ rt_timer_list' = InsertAt(list, i, t)
  BY PlaceInList DEF InsertTimer
<1>3. \A j \in 1 .. Len(list) : /\ list[j] \in ToSet(list) /\ list[j] \in Timer
                                /\ list[j] # t
  BY <1>1, ListMembers DEF ToSet
<1>4. rt_tick \in 0 .. RT_TICK_MAX /\ \A u \in Timer : timeout_tick[u] \in 0 .. RT_TICK_MAX
  BY DEF TypeOK
<1>5. ASSUME NEW j \in 1 .. Len(list)
      PROVE  f(j) \in Int /\ (Later(list[j], tick) <=> f(j) > n)
  <2>1. list[j] \in Timer /\ list[j] \in ToSet(list)
    BY <1>3
  <2>2. -Half <= TicksLeft(list[j]) - n /\ TicksLeft(list[j]) - n < Half
    BY <2>1
  <2>3. timeout_tick[list[j]] \in 0 .. RT_TICK_MAX
    BY <2>1, <1>4
  <2> QED BY <2>2, <2>3, <1>4, LaterIs, TicksLeftIs
<1>6. ASSUME NEW j \in 1 .. Len(list), NEW k \in 1 .. Len(list), j < k
      PROVE  f(j) <= f(k)
  <2>1. Precedes(list, list[j], list[k])
    BY <1>1, <1>6 DEF Precedes
  <2> QED BY <2>1, <1>3
<1> HIDE DEF f
<1>7. \A j \in 1 .. i - 1 : f(j) <= n
  <2> SUFFICES ASSUME NEW j \in 1 .. i - 1
               PROVE  f(j) <= n
    OBVIOUS
  <2>1. j \in 1 .. Len(list) /\ j < i
    BY <1>1, <1>2
  <2>2. CASE later = {}
    BY <2>1, <2>2, <1>1, <1>5
  <2>3. CASE later # {}
    <3>1. later \in SUBSET Nat
      BY <1>1
    <3>2. i \in later /\ \A k \in later : i <= k
      BY <3>1, <2>3, LeastPlace DEF Place
    <3>3. j \notin later
      BY <3>2, <2>1, <1>2
    <3> QED BY <3>3, <2>1, <1>1, <1>5
  <2> QED BY <2>2, <2>3
<1>8. \A j \in i .. Len(list) : f(j) > n
  <2> SUFFICES ASSUME NEW j \in i .. Len(list)
               PROVE  f(j) > n
    OBVIOUS
  <2>1. j \in 1 .. Len(list) /\ i <= j /\ i \in 1 .. Len(list)
    BY <1>1, <1>2
  <2>2. later # {}
    BY <2>1, <1>1 DEF Place
  <2>3. later \in SUBSET Nat
    BY <1>1
  <2>4. i \in later
    BY <2>2, <2>3, LeastPlace DEF Place
  <2>5. f(i) > n /\ f(i) \in Int /\ f(j) \in Int
    BY <2>1, <2>4, <1>5
  <2>6. f(i) <= f(j)
    <3>1. CASE i = j
      BY <3>1, <2>5
    <3>2. CASE i # j
      BY <3>2, <2>1, <1>6
    <3> QED BY <3>1, <3>2
  <2> QED BY <2>5, <2>6
<1> HIDE DEF i, later
<1>9. /\ \A x, y : x # t /\ y # t => (Precedes(rt_timer_list', x, y) <=> Precedes(list, x, y))
      /\ \A x : Precedes(rt_timer_list', x, t) <=> \E k \in 1 .. i - 1 : list[k] = x
      /\ \A y : Precedes(rt_timer_list', t, y) => \E k \in i .. Len(list) : list[k] = y
  BY <1>2, InsertOrder
<1>10. ASSUME NEW x \in Timer, NEW y \in Timer, Precedes(list, x, y)
       PROVE  Precedes(rt_timer_list', x, y)
  <2>1. x # t /\ y # t
    BY <1>1, <1>3, <1>10 DEF Precedes
  <2> QED BY <2>1, <1>9, <1>10
<1>11. ASSUME NEW x \in ToSet(list), TicksLeft(x) <= n
       PROVE  Precedes(rt_timer_list', x, t)
  <2>1. PICK k \in 1 .. Len(list) : list[k] = x
    BY <1>1 DEF ToSet
  <2>2. f(k) <= n /\ f(k) \in Int
    BY <2>1, <1>5, <1>11 DEF f
  <2>3. k \in 1 .. i - 1
    BY <2>1, <2>2, <1>1, <1>2, <1>8
  <2> QED BY <2>1, <2>3, <1>9
<1>12. ASSUME NEW x \in Timer, NEW y \in Timer, Precedes(rt_timer_list', x, y)
       PROVE  \/ x # t /\ y # t /\ Precedes(list, x, y)
              \/ x \in ToSet(list) /\ x # t /\ y = t /\ TicksLeft(x) <= n
              \/ x = t /\ y \in ToSet(list) /\ y # t /\ n < TicksLeft(y)
  <2>1. CASE x # t /\ y # t
    BY <2>1, <1>9, <1>12
  <2>2. CASE y = t
    <3>1. PICK k \in 1 .. i - 1 : list[k] = x
      BY <2>2, <1>9, <1>12
    <3>2. k \in 1 .. Len(list)
      BY <1>1, <1>2
    <3> QED BY <3>1, <3>2, <2>2, <1>3, <1>7 DEF f
  <2>3. CASE x = t
    <3>1. PICK k \in i .. Len(list) : list[k] = y
      BY <2>3, <1>9, <1>12
    <3>2. k \in 1 .. Len(list)
      BY <1>1, <1>2
    <3>3. f(k) > n /\ f(k) \in Int
      BY <3>2, <1>5, <1>8
    <3> QED BY <3>1, <3>2, <3>3, <2>3, <1>3 DEF f
  <2> QED BY <2>1, <2>2, <2>3
<1> QED BY <1>10, <1>11, <1>12

-----------------------------------------------------------------------------
(* The clocks: the list is sorted by what is left, across the wraparound,   *)
(* and nothing is so late, or so far away, that it would be taken for the   *)
(* opposite.                                                                *)

Latest == IF isr = "off" THEN 1 - MaxLate ELSE -MaxLate
InRange == \A t \in ToSet(rt_timer_list) : TicksLeft(t) \in Latest .. MaxTime
InOrder == \A t, u \in Timer : Precedes(rt_timer_list, t, u) => TicksLeft(t) <= TicksLeft(u)
Stamped ==
    \A c \in Thread : pc[c].at = "link" =>
       TicksLeft(pc[c].obj) \in init_tick[pc[c].obj] - MaxLate .. init_tick[pc[c].obj]
Clocks == InRange /\ InOrder /\ Stamped

\* What precedes or is preceded is linked.
LEMMA PrecedesLinked ==
    ASSUME NEW list, NEW x, NEW y, Precedes(list, x, y)
    PROVE  x \in ToSet(list) /\ y \in ToSet(list)
BY DEF Precedes, ToSet

LEMMA SameLeft ==
    ASSUME NEW u, rt_tick' = rt_tick, timeout_tick'[u] = timeout_tick[u]
    PROVE  TicksLeft(u)' = TicksLeft(u)
BY DEF TicksLeft, Due

LEMMA Counts ==
    ASSUME TimerInv
    PROVE  /\ rt_tick \in 0 .. RT_TICK_MAX
           /\ \A u \in Timer : /\ timeout_tick[u] \in 0 .. RT_TICK_MAX
                               /\ TicksLeft(u) \in Int /\ init_tick[u] \in 1 .. MaxTime
           /\ rt_timer_list \in Seq(Timer) /\ IsInjective(rt_timer_list)
           /\ ToSet(rt_timer_list) \subseteq Timer
           /\ timeout_tick \in [Timer -> 0 .. RT_TICK_MAX] /\ TypeOK
<1>1. /\ rt_tick \in 0 .. RT_TICK_MAX /\ timeout_tick \in [Timer -> 0 .. RT_TICK_MAX]
      /\ init_tick \in [Timer -> Times] /\ TypeOK
      /\ rt_timer_list \in Seq(Timer) /\ IsInjective(rt_timer_list)
  BY DEF TimerInv, TypeOK
<1>2. \A u \in Timer : timeout_tick[u] \in 0 .. RT_TICK_MAX /\ init_tick[u] \in 1 .. MaxTime
  BY <1>1, Sizes
<1>3. \A u \in Timer : TicksLeft(u) \in Int
  BY <1>1, <1>2, TicksLeftIs
<1> QED BY <1>1, <1>2, <1>3, Types

\* A step that leaves the list and its timeouts alone.
LEMMA KeptClocks ==
    ASSUME TimerInv, Clocks, rt_tick' = rt_tick, rt_timer_list' = rt_timer_list,
           \A u \in ToSet(rt_timer_list) : timeout_tick'[u] = timeout_tick[u],
           isr' = "off" => isr = "off"
    PROVE  /\ \A u \in ToSet(rt_timer_list) : TicksLeft(u)' = TicksLeft(u)
           /\ InRange' /\ InOrder'
<1>1. \A u \in ToSet(rt_timer_list) : TicksLeft(u)' = TicksLeft(u)
  BY SameLeft
<1>2. \A u \in ToSet(rt_timer_list) : TicksLeft(u) \in Latest .. MaxTime
  BY DEF Clocks, InRange
<1>3. \A u \in ToSet(rt_timer_list) : TicksLeft(u) \in Latest' .. MaxTime
  <2>1. Latest' \in Int /\ Latest \in Int /\ Latest' <= Latest
    BY Sizes DEF Latest
  <2> QED BY <1>2, <2>1, Sizes
<1>4. InRange'
  BY <1>1, <1>3 DEF InRange
<1>5. InOrder'
  <2> SUFFICES ASSUME NEW x \in Timer, NEW y \in Timer, Precedes(rt_timer_list, x, y)
               PROVE  TicksLeft(x)' <= TicksLeft(y)'
    BY DEF InOrder
  <2>1. x \in ToSet(rt_timer_list) /\ y \in ToSet(rt_timer_list)
    BY PrecedesLinked
  <2> QED BY <2>1, <1>1 DEF Clocks, InOrder
<1> QED BY <1>1, <1>4, <1>5

\* A step that takes t out.
LEMMA OutClocks ==
    ASSUME TimerInv, Clocks, NEW t \in Timer, TakeOut(t), rt_tick' = rt_tick,
           isr' = "off" => isr = "off"
    PROVE  /\ ToSet(rt_timer_list') = ToSet(rt_timer_list) \ {t}
           /\ \A u \in Timer \ {t} : timeout_tick'[u] = timeout_tick[u]
           /\ \A u \in Timer \ {t} : TicksLeft(u)' = TicksLeft(u)
           /\ \A x, y \in Timer : x # t /\ y # t /\ Precedes(rt_timer_list, x, y)
                                  => Precedes(rt_timer_list', x, y)
           /\ InRange' /\ InOrder'
<1> USE Counts
<1>1. ToSet(rt_timer_list') = ToSet(rt_timer_list) \ {t}
  BY TakenOut
<1>2. \A u \in Timer \ {t} : timeout_tick'[u] = timeout_tick[u]
  BY DEF TakeOut
<1>3. \A u \in Timer \ {t} : TicksLeft(u)' = TicksLeft(u)
  BY <1>2, SameLeft
<1>4. \A x, y : Precedes(rt_timer_list', x, y) <=> x # t /\ y # t /\ Precedes(rt_timer_list, x, y)
  BY UnlinkOrder DEF TakeOut
<1>5. InRange'
  <2> SUFFICES ASSUME NEW u \in ToSet(rt_timer_list')
               PROVE  TicksLeft(u)' \in Latest' .. MaxTime
    BY DEF InRange
  <2>1. u \in Timer \ {t} /\ TicksLeft(u) \in Latest .. MaxTime
    BY <1>1 DEF Clocks, InRange
  <2>2. Latest' \in Int /\ Latest \in Int /\ Latest' <= Latest
    BY Sizes DEF Latest
  <2>3. TicksLeft(u)' = TicksLeft(u)
    BY <2>1, <1>3
  <2> QED BY <2>1, <2>2, <2>3, Sizes
<1>6. InOrder'
  BY <1>3, <1>4 DEF Clocks, InOrder
<1> QED BY <1>1, <1>2, <1>3, <1>4, <1>5, <1>6

\* A step that puts t, which times out n ticks from now, into list.
LEMMA InClocks ==
    ASSUME TimerInv, NEW list \in Seq(Timer), IsInjective(list), NEW t \in Timer \ ToSet(list),
           \A x, y \in Timer : Precedes(list, x, y) => TicksLeft(x) <= TicksLeft(y),
           \A u \in ToSet(list) : TicksLeft(u) \in Latest .. MaxTime,
           NEW n \in Latest .. MaxTime, n >= 1 - MaxLate, isr' = "off" <=> isr = "off",
           NEW tick, tick = Plus(rt_tick, n), InsertTimer(list, t, tick),
           rt_tick' = rt_tick, timeout_tick' = [timeout_tick EXCEPT ![t] = tick]
    PROVE  /\ ToSet(rt_timer_list') = ToSet(list) \cup {t}
           /\ \A u \in Timer \ {t} : timeout_tick'[u] = timeout_tick[u]
           /\ \A u \in Timer \ {t} : TicksLeft(u)' = TicksLeft(u)
           /\ TicksLeft(t)' = n
           /\ \A x, y \in Timer : Precedes(list, x, y) => Precedes(rt_timer_list', x, y)
           /\ \A x \in ToSet(list) : timeout_tick[x] = tick => Precedes(rt_timer_list', x, t)
           /\ InRange' /\ InOrder'
<1> USE Counts
<1>0. /\ ToSet(list) \subseteq Timer
      /\ n \in Int /\ -Half < n /\ n < Half /\ MaxTime < Half /\ Half \in Nat
      /\ Latest \in Int /\ MaxLate \in Nat /\ MaxTime \in Nat /\ Latest >= -MaxLate
      /\ MaxTime + MaxLate <= Half /\ MaxTime > 0
  <2>1. ToSet(list) \subseteq Timer
    BY ListMembers
  <2>2. Latest \in Int /\ Latest >= -MaxLate
    BY Sizes DEF Latest
  <2> QED BY <2>1, <2>2, Sizes
<1>1. ToSet(rt_timer_list') = ToSet(list) \cup {t}
  BY Inserted
<1>2. timeout_tick'[t] = tick /\ \A u \in Timer \ {t} : timeout_tick'[u] = timeout_tick[u]
  OBVIOUS
<1>3. \A u \in Timer \ {t} : TicksLeft(u)' = TicksLeft(u)
  BY <1>2, SameLeft
<1>4. TicksLeft(t)' = n
  <2>1. TicksLeft(t)' = Left(rt_tick, tick)
    BY <1>2 DEF TicksLeft, Due, Left
  <2> QED BY <2>1, <1>0, LeftIs
<1>5. ASSUME NEW u \in ToSet(list)
      PROVE  -Half <= TicksLeft(u) - n /\ TicksLeft(u) - n < Half
  <2>1. TicksLeft(u) \in Latest .. MaxTime
    OBVIOUS
  <2> QED BY <2>1, <1>0
<1>6. /\ \A x, y \in Timer : Precedes(list, x, y) => Precedes(rt_timer_list', x, y)
      /\ \A x \in ToSet(list) : TicksLeft(x) <= n => Precedes(rt_timer_list', x, t)
      /\ \A x, y \in Timer : Precedes(rt_timer_list', x, y) =>
                 \/ x # t /\ y # t /\ Precedes(list, x, y)
                 \/ x \in ToSet(list) /\ x # t /\ y = t /\ TicksLeft(x) <= n
                 \/ x = t /\ y \in ToSet(list) /\ y # t /\ n < TicksLeft(y)
  <2>1. TypeOK /\ \A u \in ToSet(list) : -Half <= TicksLeft(u) - n /\ TicksLeft(u) - n < Half
    BY <1>5
  <2>2. n \in Int /\ -Half < n /\ n < Half
    BY <1>0
  <2> QED BY ONLY <2>1, <2>2, list \in Seq(Timer), IsInjective(list), t \in Timer \ ToSet(list),
              \A x, y \in Timer : Precedes(list, x, y) => TicksLeft(x) <= TicksLeft(y),
              tick = Plus(rt_tick, n), InsertTimer(list, t, tick), SortedInsert
<1>7. ASSUME NEW x \in ToSet(list), timeout_tick[x] = tick
      PROVE  Precedes(rt_timer_list', x, t)
  <2>1. TicksLeft(x) = Left(rt_tick, tick)
    BY <1>0, <1>7, TicksLeftIs
  <2>2. TicksLeft(x) = n
    BY <2>1, <1>0, LeftIs
  <2> QED BY <2>2, <1>0, <1>6
<1>8. InRange'
  <2> SUFFICES ASSUME NEW u \in ToSet(rt_timer_list')
               PROVE  TicksLeft(u)' \in Latest' .. MaxTime
    BY DEF InRange
  <2>1. Latest' = Latest
    BY DEF Latest
  <2>2. CASE u = t
    BY <2>1, <2>2, <1>4
  <2>3. CASE u # t
    BY <2>1, <2>3, <1>0, <1>1, <1>3
  <2> QED BY <2>2, <2>3
<1>9. InOrder'
  <2> SUFFICES ASSUME NEW x \in Timer, NEW y \in Timer, Precedes(rt_timer_list', x, y)
               PROVE  TicksLeft(x)' <= TicksLeft(y)'
    BY DEF InOrder
  <2>1. CASE x # t /\ y # t /\ Precedes(list, x, y)
    BY <2>1, <1>3
  <2>2. CASE x \in ToSet(list) /\ x # t /\ y = t /\ TicksLeft(x) <= n
    BY <2>2, <1>3, <1>4
  <2>3. CASE x = t /\ y \in ToSet(list) /\ y # t /\ n < TicksLeft(y)
    <3>1. TicksLeft(y) \in Int
      OBVIOUS
    <3> QED BY <3>1, <2>3, <1>0, <1>3, <1>4
  <2> QED BY <2>1, <2>2, <2>3, <1>6
<1> QED BY <1>1, <1>2, <1>3, <1>4, <1>6, <1>7, <1>8, <1>9

\* rt_timer_start in the handler: t goes to its place, behind its equals.
LEMMA AgainClocks ==
    ASSUME TimerInv, Clocks, NEW t \in Timer, StartAtOnce(t), rt_tick' = rt_tick,
           isr # "off", isr' # "off"
    PROVE  /\ ToSet(rt_timer_list') = ToSet(rt_timer_list) \cup {t}
           /\ \A u \in Timer \ {t} : timeout_tick'[u] = timeout_tick[u]
           /\ \A u \in Timer \ {t} : TicksLeft(u)' = TicksLeft(u)
           /\ TicksLeft(t)' \in 1 .. MaxTime
           /\ \A x, y \in Timer : x # t /\ y # t /\ Precedes(rt_timer_list, x, y)
                                  => Precedes(rt_timer_list', x, y)
           /\ \A x \in ToSet(rt_timer_list) : x # t /\ timeout_tick'[x] = timeout_tick'[t]
                                              => Precedes(rt_timer_list', x, t)
           /\ InRange' /\ InOrder'
<1> DEFINE n == init_tick[t]
           tick == Plus(rt_tick, n)
           list == Unlink(rt_timer_list, t)
<1> USE Counts
<1>1. InsertTimer(list, t, tick) /\ timeout_tick' = [timeout_tick EXCEPT ![t] = tick]
  BY DEF StartAtOnce
<1>2. list \in Seq(Timer) /\ IsInjective(list) /\ ToSet(list) = ToSet(rt_timer_list) \ {t}
  BY UnlinkElements
<1>3. \A x, y : Precedes(list, x, y) <=> x # t /\ y # t /\ Precedes(rt_timer_list, x, y)
  BY UnlinkOrder
<1>4. n \in 1 .. MaxTime /\ n \in Latest .. MaxTime /\ n >= 1 - MaxLate
  BY Sizes DEF Latest
<1>5. /\ \A x, y \in Timer : Precedes(list, x, y) => TicksLeft(x) <= TicksLeft(y)
      /\ \A u \in ToSet(list) : TicksLeft(u) \in Latest .. MaxTime
  BY <1>2, <1>3 DEF Clocks, InOrder, InRange
<1>6. tick = Plus(rt_tick, n) /\ t \in Timer \ ToSet(list) /\ (isr' = "off" <=> isr = "off")
  BY <1>2
<1> HIDE DEF n, tick, list
<1>7. /\ ToSet(rt_timer_list') = ToSet(list) \cup {t}
      /\ \A u \in Timer \ {t} : timeout_tick'[u] = timeout_tick[u]
      /\ \A u \in Timer \ {t} : TicksLeft(u)' = TicksLeft(u)
      /\ TicksLeft(t)' = n
      /\ \A x, y \in Timer : Precedes(list, x, y) => Precedes(rt_timer_list', x, y)
      /\ \A x \in ToSet(list) : timeout_tick[x] = tick => Precedes(rt_timer_list', x, t)
      /\ InRange' /\ InOrder'
  BY ONLY TimerInv, <1>1, <1>2, <1>4, <1>5, <1>6, rt_tick' = rt_tick, t \in Timer, InClocks
<1>8. ASSUME NEW x \in ToSet(rt_timer_list), x # t, timeout_tick'[x] = timeout_tick'[t]
      PROVE  Precedes(rt_timer_list', x, t)
  <2>1. x \in ToSet(list) /\ timeout_tick'[t] = tick /\ timeout_tick'[x] = timeout_tick[x]
    BY <1>1, <1>2, <1>7, <1>8
  <2> QED BY <2>1, <1>7, <1>8
<1> QED BY <1>2, <1>3, <1>4, <1>7, <1>8

\* The last region of rt_timer_start: the same, perhaps some ticks late.
LEMMA LinkClocks ==
    ASSUME TimerInv, Clocks, NEW c \in Thread, Link(c), NEW t, t = pc[c].obj
    PROVE  /\ t \in Timer \ ToSet(rt_timer_list)
           /\ ToSet(rt_timer_list') = ToSet(rt_timer_list) \cup {t}
           /\ timeout_tick' = timeout_tick
           /\ \A u \in Timer : TicksLeft(u)' = TicksLeft(u)
           /\ TicksLeft(t) \in 1 - MaxLate .. MaxTime
           /\ \A x, y \in Timer : Precedes(rt_timer_list, x, y) => Precedes(rt_timer_list', x, y)
           /\ \A x \in ToSet(rt_timer_list) : timeout_tick[x] = timeout_tick[t]
                                              => Precedes(rt_timer_list', x, t)
           /\ InRange' /\ InOrder'
<1> DEFINE n == TicksLeft(t)
           tick == timeout_tick[t]
<1> USE Counts
<1>1. /\ isr = "off" /\ pc[c].at = "link" /\ InsertTimer(rt_timer_list, t, tick)
      /\ timeout_tick' = timeout_tick /\ rt_tick' = rt_tick /\ isr' = isr
  BY DEF Link, Runs, isrVars
<1>2. t \in Timer \ ToSet(rt_timer_list)
  BY <1>1, ThreadFinds DEF Linked
<1>3. n \in 1 - MaxLate .. MaxTime
  <2>1. n \in init_tick[t] - MaxLate .. init_tick[t] /\ init_tick[t] \in 1 .. MaxTime
    BY <1>1, <1>2 DEF Clocks, Stamped
  <2> QED BY <2>1, Sizes
<1>4. tick = Plus(rt_tick, n) /\ timeout_tick' = [timeout_tick EXCEPT ![t] = tick]
  BY <1>1, <1>2, TicksLeftIs
<1>5. n \in Latest .. MaxTime /\ n >= 1 - MaxLate
  BY <1>1, <1>3, Sizes DEF Latest
<1>6. /\ \A x, y \in Timer : Precedes(rt_timer_list, x, y) => TicksLeft(x) <= TicksLeft(y)
      /\ \A u \in ToSet(rt_timer_list) : TicksLeft(u) \in Latest .. MaxTime
      /\ isr' = "off" <=> isr = "off"
      /\ rt_timer_list \in Seq(Timer) /\ IsInjective(rt_timer_list)
  BY <1>1 DEF Clocks, InOrder, InRange
<1> HIDE DEF n, tick
<1>7. /\ ToSet(rt_timer_list') = ToSet(rt_timer_list) \cup {t}
      /\ \A u \in Timer \ {t} : TicksLeft(u)' = TicksLeft(u)
      /\ TicksLeft(t)' = n
      /\ \A x, y \in Timer : Precedes(rt_timer_list, x, y) => Precedes(rt_timer_list', x, y)
      /\ \A x \in ToSet(rt_timer_list) : timeout_tick[x] = tick => Precedes(rt_timer_list', x, t)
      /\ InRange' /\ InOrder'
  BY ONLY TimerInv, <1>1, <1>2, <1>4, <1>5, <1>6, InClocks
<1> QED BY <1>1, <1>2, <1>3, <1>7 DEF n, tick

\* The thread that has computed a timeout finds it as it left it.
LEMMA StampedKept ==
    ASSUME TimerInv, Clocks, rt_tick' = rt_tick,
           \A c \in Thread : pc'[c].at = "link" =>
              /\ pc[c].at = "link" /\ pc'[c] = pc[c]
              /\ init_tick'[pc[c].obj] = init_tick[pc[c].obj]
              /\ timeout_tick'[pc[c].obj] = timeout_tick[pc[c].obj]
    PROVE  Stamped'
<1> SUFFICES ASSUME NEW c \in Thread, pc'[c].at = "link", NEW t, t = pc'[c].obj
             PROVE  TicksLeft(t)' \in init_tick'[t] - MaxLate .. init_tick'[t]
  BY DEF Stamped
<1>1. t = pc[c].obj /\ pc[c].at = "link" /\ init_tick'[t] = init_tick[t]
      /\ timeout_tick'[t] = timeout_tick[t]
  OBVIOUS
<1>2. TicksLeft(t)' = TicksLeft(t)
  BY <1>1, SameLeft
<1> QED BY <1>1, <1>2 DEF Clocks, Stamped

\* Who has computed a timeout works on a timer that is not linked, not active and not
\* called, and that no other thread works on.
LEMMA LinkingFinds ==
    ASSUME TimerInv, NEW c \in Thread, pc[c].at = "link"
    PROVE  /\ pc[c].obj \in Timer /\ Owner[pc[c].obj] = c /\ pc[c].obj # called
           /\ pc[c].obj \notin ToSet(rt_timer_list) /\ ~activated[pc[c].obj]
           /\ \A d \in Thread : pc[d].obj = pc[c].obj => d = c
<1>1. pc[c].obj # Nobody
  BY DEF TimerInv, Working
<1> QED BY <1>1, Types DEF TimerInv, Working, Linked

LEMMA ThreadClocks ==
    ASSUME TimerInv, Clocks, NEW c \in Thread,
           Continue(c) \/ \E t \in Timer : Begin(c, t)
    PROVE  Clocks'
<1> USE DEF Runs, Uses
<1>0. /\ pc \in [Thread -> [at : {"run", "drop", "stamp", "link", "remove", "unflag"},
                          obj : Timer \cup {Nobody}]]
      /\ timeout_tick \in [Timer -> 0 .. RT_TICK_MAX] /\ init_tick \in [Timer -> Times]
  BY DEF TimerInv, TypeOK
<1>a. \A d \in Thread : pc[d].at = "link" => pc[d].obj \in Timer /\ Owner[pc[d].obj] = d
  BY LinkingFinds
<1>1. ASSUME NEW t \in Timer, InitTimer(c, t) \/ Control(c, t)
      PROVE  Clocks'
  <2>1. /\ rt_tick' = rt_tick /\ isr' = isr /\ rt_timer_list' = rt_timer_list /\ pc' = pc
        /\ timeout_tick' = timeout_tick /\ Owner[t] = c /\ pc[c].at = "run"
        /\ \A u \in Timer \ {t} : init_tick'[u] = init_tick[u]
    BY <1>0, <1>1 DEF InitTimer, Control, isrVars
  <2>2. \A d \in Thread : pc[d].at = "link" => init_tick'[pc[d].obj] = init_tick[pc[d].obj]
    BY <2>1, <1>a
  <2>3. Stamped'
    BY <2>1, <2>2, StampedKept
  <2>4. InRange' /\ InOrder'
    BY <2>1, KeptClocks
  <2> QED BY <2>3, <2>4 DEF Clocks
<1>2. ASSUME NEW t \in Timer, TakeOut(t), Owner[t] = c, rt_tick' = rt_tick, isr' = isr,
             init_tick' = init_tick, NEW step \in {"drop", "stamp", "unflag"},
             pc' = [pc EXCEPT ![c] = [at |-> step, obj |-> t]]
      PROVE  Clocks'
  <2>1. InRange' /\ InOrder' /\ \A u \in Timer \ {t} : timeout_tick'[u] = timeout_tick[u]
    BY <1>2, OutClocks
  <2>2. \A d \in Thread : pc'[d].at = "link" => pc[d].at = "link" /\ pc'[d] = pc[d] /\ d # c
    BY <1>0, <1>2
  <2>3. \A d \in Thread : pc'[d].at = "link" => timeout_tick'[pc[d].obj] = timeout_tick[pc[d].obj]
    BY <2>1, <2>2, <1>2, <1>a
  <2>4. Stamped'
    BY <2>2, <2>3, <1>2, StampedKept
  <2> QED BY <2>1, <2>4 DEF Clocks
<1>3. ASSUME rt_tick' = rt_tick, isr' = isr, init_tick' = init_tick, timeout_tick' = timeout_tick,
             rt_timer_list' = rt_timer_list, NEW step \in {"run", "remove"}, NEW t,
             pc' = [pc EXCEPT ![c] = [at |-> step, obj |-> t]]
      PROVE  Clocks'
  <2>1. InRange' /\ InOrder'
    BY <1>3, KeptClocks
  <2>2. \A d \in Thread : pc'[d].at = "link" => pc[d].at = "link" /\ pc'[d] = pc[d]
    BY <1>0, <1>3
  <2>3. Stamped'
    BY <2>2, <1>3, StampedKept
  <2> QED BY <2>1, <2>3 DEF Clocks
<1>4. ASSUME NEW t \in Timer, Detach(c, t) \/ Start(c, t)
      PROVE  Clocks'
  <2>1. /\ TakeOut(t) /\ Owner[t] = c /\ rt_tick' = rt_tick /\ isr' = isr /\ init_tick' = init_tick
        /\ \E step \in {"drop", "stamp", "unflag"} :
              pc' = [pc EXCEPT ![c] = [at |-> step, obj |-> t]]
    BY <1>4 DEF Detach, Start, Call, isrVars
  <2> QED BY <2>1, <1>2
<1>5. ASSUME NEW t \in Timer, Stop(c, t)
      PROVE  Clocks'
  <2>1. /\ rt_tick' = rt_tick /\ isr' = isr /\ init_tick' = init_tick /\ timeout_tick' = timeout_tick
        /\ rt_timer_list' = rt_timer_list
        /\ pc' = [pc EXCEPT ![c] = [at |-> "remove", obj |-> t]]
    BY <1>5 DEF Stop, Call, isrVars
  <2> QED BY <2>1, <1>3
<1>6. CASE Drop(c) \/ StopFlag(c)
  <2>1. /\ rt_tick' = rt_tick /\ isr' = isr /\ init_tick' = init_tick /\ timeout_tick' = timeout_tick
        /\ rt_timer_list' = rt_timer_list
        /\ pc' = [pc EXCEPT ![c] = [at |-> "run", obj |-> Nobody]]
    BY <1>6 DEF Drop, StopFlag, Return, Free, isrVars
  <2> QED BY <2>1, <1>3
<1>7. CASE StopRemove(c)
  <2>1. /\ TakeOut(pc[c].obj) /\ rt_tick' = rt_tick /\ isr' = isr /\ init_tick' = init_tick
        /\ pc' = [pc EXCEPT ![c] = [at |-> "unflag", obj |-> pc[c].obj]]
        /\ pc[c].obj \in Timer /\ Owner[pc[c].obj] = c
    BY <1>7, ThreadFinds DEF StopRemove, Call, isrVars
  <2> QED BY <2>1, <1>2
<1>8. CASE Link(c)
  <2>1. InRange' /\ InOrder'
    BY <1>8, LinkClocks
  <2>2. /\ rt_tick' = rt_tick /\ init_tick' = init_tick /\ timeout_tick' = timeout_tick
        /\ pc' = [pc EXCEPT ![c] = [at |-> "run", obj |-> Nobody]]
    BY <1>8 DEF Link, Return, Free, isrVars
  <2>3. \A d \in Thread : pc'[d].at = "link" => pc[d].at = "link" /\ pc'[d] = pc[d]
    BY <2>2, <1>0
  <2>4. Stamped'
    BY <2>2, <2>3, StampedKept
  <2> QED BY <2>1, <2>4 DEF Clocks
<1>9. CASE Stamp(c)
  <2> DEFINE t == pc[c].obj
  <2>1. /\ pc[c].at = "stamp" /\ rt_tick' = rt_tick /\ isr' = isr /\ init_tick' = init_tick
        /\ timeout_tick' = [timeout_tick EXCEPT ![t] = Plus(rt_tick, init_tick[t])]
        /\ pc' = [pc EXCEPT ![c] = [at |-> "link", obj |-> t]]
        /\ rt_timer_list' = rt_timer_list
    BY <1>9 DEF Stamp, Call, isrVars
  <2>2. t \in Timer /\ t \notin ToSet(rt_timer_list) /\ Owner[t] = c
    BY <2>1, ThreadFinds DEF Linked
  <2> HIDE DEF t
  <2>3. /\ timeout_tick'[t] = Plus(rt_tick, init_tick[t])
        /\ \A u \in Timer \ {t} : timeout_tick'[u] = timeout_tick[u]
    BY <2>1, <2>2, <1>0
  <2>4. InRange' /\ InOrder'
    BY <2>1, <2>2, <2>3, Counts, KeptClocks
  <2>5. /\ pc'[c].obj = t /\ \A d \in Thread \ {c} : pc'[d] = pc[d]
    BY <2>1, <1>0
  <2>6. Stamped'
    <3> SUFFICES ASSUME NEW d \in Thread, pc'[d].at = "link", NEW u, u = pc'[d].obj
                 PROVE  TicksLeft(u)' \in init_tick'[u] - MaxLate .. init_tick'[u]
      BY DEF Stamped
    <3>1. CASE d = c
      <4>1. u = t /\ init_tick[t] \in 1 .. MaxTime /\ rt_tick \in 0 .. RT_TICK_MAX
        BY <3>1, <2>2, <2>5, Counts
      <4>2. TicksLeft(u)' = Left(rt_tick, Plus(rt_tick, init_tick[t]))
        BY <4>1, <2>1, <2>3 DEF TicksLeft, Due, Left
      <4>3. init_tick[t] \in Int /\ -Half < init_tick[t] /\ init_tick[t] < Half
        BY <4>1, Sizes
      <4>4. TicksLeft(u)' = init_tick[t]
        BY <4>1, <4>2, <4>3, LeftIs
      <4> QED BY <4>1, <4>3, <4>4, <2>1, Sizes
    <3>2. CASE d # c
      <4>1. /\ pc[d].at = "link" /\ u = pc[d].obj /\ u \in Timer /\ u # t
        BY <3>2, <2>2, <2>5, <1>a
      <4>2. TicksLeft(u)' = TicksLeft(u)
        BY <4>1, <2>1, <2>3, SameLeft
      <4> QED BY <4>1, <4>2, <2>1 DEF Clocks, Stamped
    <3> QED BY <3>1, <3>2
  <2> QED BY <2>4, <2>6 DEF Clocks
<1> QED BY <1>1, <1>4, <1>5, <1>6, <1>7, <1>8, <1>9 DEF Begin, Continue

\* What the tick interrupt does to the countdowns.
LEMMA TickLeft ==
    ASSUME TimerInv, Clocks, Tick
    PROVE  /\ \A u \in ToSet(rt_timer_list) : TicksLeft(u)' = TicksLeft(u) - 1
           /\ Clocks'
<1> USE Counts
<1>0. /\ isr = "off" /\ isr' = "check" /\ rt_tick' = Plus(rt_tick, 1) /\ timeout_tick' = timeout_tick
      /\ rt_timer_list' = rt_timer_list /\ init_tick' = init_tick /\ pc' = pc
      /\ \A c \in Thread : InTime(c)
  BY DEF Tick
<1>1. ASSUME NEW u \in Timer, TicksLeft(u) > 1 - Half, TicksLeft(u) <= Half
      PROVE  TicksLeft(u)' = TicksLeft(u) - 1
  <2>1. TicksLeft(u) = Left(rt_tick, timeout_tick[u])
    BY TicksLeftIs
  <2>2. TicksLeft(u)' = Left(Plus(rt_tick, 1), timeout_tick[u])
    BY <1>0 DEF TicksLeft, Due, Left
  <2>3. 1 - Half < Left(rt_tick, timeout_tick[u]) /\ Left(rt_tick, timeout_tick[u]) <= Half
    BY <2>1, <1>1, Sizes
  <2> QED BY <2>1, <2>2, <2>3, TickDown
<1>2. ASSUME NEW u \in ToSet(rt_timer_list)
      PROVE  TicksLeft(u) \in 1 - MaxLate .. MaxTime /\ TicksLeft(u)' = TicksLeft(u) - 1
  <2>1. TicksLeft(u) \in 1 - MaxLate .. MaxTime
    BY <1>0 DEF Clocks, InRange, Latest
  <2>2. TicksLeft(u) > 1 - Half /\ TicksLeft(u) <= Half
    BY <2>1, Sizes
  <2> QED BY <2>1, <2>2, <1>1
<1>3. InRange'
  <2> SUFFICES ASSUME NEW u \in ToSet(rt_timer_list)
               PROVE  TicksLeft(u)' \in Latest' .. MaxTime
    BY <1>0 DEF InRange
  <2>1. Latest' = -MaxLate
    BY <1>0 DEF Latest
  <2>2. TicksLeft(u) \in 1 - MaxLate .. MaxTime /\ TicksLeft(u)' = TicksLeft(u) - 1
    BY <1>2
  <2> QED BY <2>1, <2>2, Sizes
<1>4. InOrder'
  <2> SUFFICES ASSUME NEW x \in Timer, NEW y \in Timer, Precedes(rt_timer_list, x, y)
               PROVE  TicksLeft(x)' <= TicksLeft(y)'
    BY <1>0 DEF InOrder
  <2>1. x \in ToSet(rt_timer_list) /\ y \in ToSet(rt_timer_list)
    BY PrecedesLinked
  <2>2. TicksLeft(x) <= TicksLeft(y)
    BY DEF Clocks, InOrder
  <2> QED BY <2>1, <2>2, <1>2
<1>5. Stamped'
  <2> SUFFICES ASSUME NEW c \in Thread, pc[c].at = "link", NEW t, t = pc[c].obj
               PROVE  TicksLeft(t)' \in init_tick[t] - MaxLate .. init_tick[t]
    BY <1>0 DEF Stamped
  <2>1. t \in Timer /\ TicksLeft(t) \in init_tick[t] - MaxLate .. init_tick[t]
    BY LinkingFinds DEF Clocks, Stamped
  <2>2. init_tick[t] \in 1 .. MaxTime
    BY <2>1
  <2>3. Minus(rt_tick, timeout_tick[t] - init_tick[t]) < MaxLate
    BY <1>0 DEF InTime
  <2>4. TicksLeft(t) = Left(rt_tick, timeout_tick[t])
    BY <2>1, TicksLeftIs
  <2>5. Minus(rt_tick, timeout_tick[t] - init_tick[t]) = init_tick[t] - TicksLeft(t)
    <3>1. /\ init_tick[t] \in Nat /\ init_tick[t] < Half
          /\ init_tick[t] - MaxLate <= Left(rt_tick, timeout_tick[t])
          /\ Left(rt_tick, timeout_tick[t]) <= init_tick[t]
      BY <2>1, <2>2, <2>4, Sizes
    <3>2. rt_tick \in 0 .. RT_TICK_MAX /\ timeout_tick[t] \in 0 .. RT_TICK_MAX
      BY <2>1
    <3> QED BY <3>1, <3>2, <2>4, LateBy
  <2>6. TicksLeft(t) > init_tick[t] - MaxLate
    BY <2>1, <2>2, <2>3, <2>5, Sizes
  <2>7. TicksLeft(t) > 1 - Half /\ TicksLeft(t) <= Half
    BY <2>1, <2>2, <2>6, Sizes
  <2>8. TicksLeft(t)' = TicksLeft(t) - 1
    BY <2>1, <2>7, <1>1
  <2> QED BY <2>1, <2>2, <2>6, <2>8, Sizes
<1> QED BY <1>2, <1>3, <1>4, <1>5 DEF Clocks

\* The timer that expires is the one with least left, and when none is due at the front
\* none is.
LEMMA FrontIsLeast ==
    ASSUME TimerInv, Clocks, rt_timer_list # <<>>
    PROVE  /\ Head(rt_timer_list) \in ToSet(rt_timer_list)
           /\ \A u \in ToSet(rt_timer_list) : TicksLeft(Head(rt_timer_list)) <= TicksLeft(u)
<1> DEFINE t == Head(rt_timer_list)
<1> USE Counts
<1>1. t \in ToSet(rt_timer_list)
  BY TailElements
<1>2. ASSUME NEW u \in ToSet(rt_timer_list)
      PROVE  TicksLeft(t) <= TicksLeft(u)
  <2>1. u = t \/ Precedes(rt_timer_list, t, u)
    BY HeadFirst
  <2> HIDE DEF t
  <2>2. TicksLeft(u) \in Int
    OBVIOUS
  <2> QED BY <2>1, <2>2, <1>1 DEF Clocks, InOrder
<1> QED BY <1>1, <1>2

LEMMA HandlerClocks ==
    ASSUME TimerInv, Clocks,
           Tick \/ CheckStep \/ \E t \in Timer : CallStart(t) \/ CallStop(t)
    PROVE  Clocks'
<1>0. /\ called \in Timer \cup {Nobody} /\ (isr = "call" <=> called # Nobody)
      /\ Nobody \notin Timer \cup Thread
  BY TimerAssumption DEF TimerInv, TypeOK, Handler
<1>a. \A c \in Thread : pc[c].at = "link" =>
         /\ pc[c].obj \in Timer /\ Owner[pc[c].obj] = c /\ pc[c].obj # called
         /\ pc[c].obj \notin ToSet(rt_timer_list) /\ ~activated[pc[c].obj]
  BY LinkingFinds
<1>b. ASSUME NEW t \in Timer, \A u \in Timer \ {t} : timeout_tick'[u] = timeout_tick[u],
             \A c \in Thread : pc[c].at = "link" => pc[c].obj # t,
             pc' = pc, init_tick' = init_tick, rt_tick' = rt_tick
      PROVE  Stamped'
  BY <1>a, <1>b, StampedKept
<1>1. CASE Tick
  BY <1>1, TickLeft
<1>2. CASE Expire
  <2> DEFINE t == Head(rt_timer_list)
  <2>1. /\ TakeOut(t) /\ rt_tick' = rt_tick /\ isr' = "call" /\ pc' = pc /\ init_tick' = init_tick
        /\ rt_timer_list # <<>>
    BY <1>2 DEF Expire
  <2>2. t \in ToSet(rt_timer_list) /\ t \in Timer
    BY <2>1, Counts, FrontIsLeast
  <2> HIDE DEF t
  <2>3. InRange' /\ InOrder' /\ \A u \in Timer \ {t} : timeout_tick'[u] = timeout_tick[u]
    BY <2>1, <2>2, OutClocks
  <2>4. Stamped'
    BY <2>1, <2>2, <2>3, <1>a, <1>b
  <2> QED BY <2>3, <2>4 DEF Clocks
<1>3. CASE Settle
  <2>1. /\ isr = "call" /\ isr' = "check" /\ rt_tick' = rt_tick /\ init_tick' = init_tick /\ pc' = pc
        /\ StartAtOnce(called) \/ UNCHANGED <<rt_timer_list, timeout_tick>>
    BY <1>3 DEF Settle
  <2>2. called \in Timer
    BY <2>1, <1>0
  <2>3. CASE StartAtOnce(called)
    <3>1. InRange' /\ InOrder' /\ \A u \in Timer \ {called} : timeout_tick'[u] = timeout_tick[u]
      BY <2>1, <2>2, <2>3, AgainClocks
    <3>2. Stamped'
      BY <3>1, <2>1, <2>2, <1>a, <1>b
    <3> QED BY <3>1, <3>2 DEF Clocks
  <2>4. CASE UNCHANGED <<rt_timer_list, timeout_tick>>
    <3>1. InRange' /\ InOrder'
      BY <2>1, <2>4, KeptClocks
    <3>2. Stamped'
      BY <2>1, <2>2, <2>4, <1>a, <1>b
    <3> QED BY <3>1, <3>2 DEF Clocks
  <2> QED BY <2>1, <2>3, <2>4
<1>4. CASE CheckDone
  <2>1. /\ isr = "check" /\ isr' = "off" /\ pc' = pc /\ rt_tick' = rt_tick
        /\ rt_timer_list # <<>> => ~Due(Head(rt_timer_list))
        /\ rt_timer_list' = rt_timer_list /\ timeout_tick' = timeout_tick /\ init_tick' = init_tick
    BY <1>4 DEF CheckDone
  <2>2. \A u \in ToSet(rt_timer_list) : TicksLeft(u) >= 1
    <3> SUFFICES ASSUME NEW u \in ToSet(rt_timer_list)
                 PROVE  TicksLeft(u) >= 1
      OBVIOUS
    <3>1. rt_timer_list # <<>>
      BY DEF ToSet
    <3> DEFINE t == Head(rt_timer_list)
    <3>2. t \in Timer /\ u \in Timer /\ TicksLeft(t) <= TicksLeft(u) /\ ~Due(t)
      BY <3>1, <2>1, Counts, FrontIsLeast
    <3> HIDE DEF t
    <3>3. /\ timeout_tick[t] \in 0 .. RT_TICK_MAX /\ rt_tick \in 0 .. RT_TICK_MAX
          /\ TicksLeft(t) \in Int /\ TicksLeft(u) \in Int
      BY <3>2, Counts
    <3>4. ~(TicksLeft(t) <= 0)
      BY <3>2, <3>3, TicksLeftIs
    <3> QED BY <3>2, <3>3, <3>4
  <2>3. \A u \in ToSet(rt_timer_list) : TicksLeft(u)' = TicksLeft(u)
    BY <2>1, SameLeft
  <2>4. InRange'
    <3>1. Latest' = 1 - MaxLate
      BY <2>1 DEF Latest
    <3>2. ASSUME NEW u \in ToSet(rt_timer_list)
          PROVE  TicksLeft(u) \in 1 - MaxLate .. MaxTime
      <4>1. TicksLeft(u) \in Latest .. MaxTime /\ Latest = -MaxLate
        BY <2>1 DEF Clocks, InRange, Latest
      <4> QED BY <4>1, <2>2, Sizes
    <3> QED BY <3>1, <3>2, <2>1, <2>3 DEF InRange
  <2>5. InOrder'
    <3> SUFFICES ASSUME NEW x \in Timer, NEW y \in Timer, Precedes(rt_timer_list, x, y)
                 PROVE  TicksLeft(x)' <= TicksLeft(y)'
      BY <2>1 DEF InOrder
    <3>1. x \in ToSet(rt_timer_list) /\ y \in ToSet(rt_timer_list)
      BY PrecedesLinked
    <3> QED BY <3>1, <2>3 DEF Clocks, InOrder
  <2>6. Stamped'
    BY <2>1, StampedKept
  <2> QED BY <2>4, <2>5, <2>6 DEF Clocks
<1>5. ASSUME NEW u \in Timer, CallStart(u)
      PROVE  Clocks'
  <2>1. /\ isr = "call" /\ <<"start", u>> \in Calls[called] /\ StartAtOnce(u) /\ isr' = "call"
        /\ rt_tick' = rt_tick /\ init_tick' = init_tick /\ pc' = pc
    BY <1>5 DEF CallStart, isrVars
  <2>2. u = called \/ Owner[u] = Nobody
    BY <2>1, <1>0, StartedByCall
  <2>3. InRange' /\ InOrder' /\ \A v \in Timer \ {u} : timeout_tick'[v] = timeout_tick[v]
    BY <2>1, AgainClocks
  <2>4. Stamped'
    BY <2>1, <2>2, <2>3, <1>0, <1>a, <1>b
  <2> QED BY <2>3, <2>4 DEF Clocks
<1>6. ASSUME NEW u \in Timer, CallStop(u)
      PROVE  Clocks'
  <2>1. /\ TakeOut(u) /\ isr' = isr /\ activated[u]
        /\ rt_tick' = rt_tick /\ init_tick' = init_tick /\ pc' = pc
    BY <1>6 DEF CallStop, isrVars
  <2>2. InRange' /\ InOrder' /\ \A v \in Timer \ {u} : timeout_tick'[v] = timeout_tick[v]
    BY <2>1, OutClocks
  <2>3. Stamped'
    BY <2>1, <2>2, <1>a, <1>b
  <2> QED BY <2>2, <2>3 DEF Clocks
<1> QED BY <1>1, <1>2, <1>3, <1>4, <1>5, <1>6 DEF CheckStep

LEMMA ClocksHold == Spec => []Clocks
<1>1. Init => Clocks
  <2> SUFFICES ASSUME Init PROVE Clocks
    OBVIOUS
  <2>1. ToSet(<<>>) = {}
    BY DEF ToSet
  <2>2. \A x, y : ~Precedes(<<>>, x, y)
    BY DEF Precedes
  <2> QED BY <2>1, <2>2 DEF Init, Clocks, InRange, InOrder, Stamped, Free
<1>2. ASSUME TimerInv, Clocks, [Next]_vars
      PROVE  Clocks'
  <2>1. CASE UNCHANGED vars
    <3>1. /\ rt_tick' = rt_tick /\ timeout_tick' = timeout_tick /\ rt_timer_list' = rt_timer_list
          /\ isr' = isr /\ init_tick' = init_tick /\ pc' = pc
      BY <2>1 DEF vars, isrVars
    <3> QED BY <1>2, <3>1, KeptClocks, StampedKept DEF Clocks
  <2>2. CASE Next
    BY <1>2, <2>2, ThreadClocks, HandlerClocks DEF Next
  <2> QED BY <1>2, <2>1, <2>2
<1> QED BY <1>1, <1>2, TimerInvHolds, PTL DEF Spec

-----------------------------------------------------------------------------
(* The refinement: every step is a step of Alarms, or leaves its variables  *)
(* unchanged.                                                               *)

\* left of Alarms.
Countdown == [t \in ToSet(rt_timer_list) |-> TicksLeft(t)]

USE DEF Promise!Next, Promise!vars, Promise!Running, Promise!Due, Promise!With, Promise!Without

\* A step that changes nothing that Alarms knows.
LEMMA PromiseKept ==
    ASSUME ToSet(rt_timer_list') = ToSet(rt_timer_list),
           \A u \in ToSet(rt_timer_list) : TicksLeft(u)' = TicksLeft(u),
           (isr # "off")' <=> isr # "off", called' = called
    PROVE  UNCHANGED Promise!vars
<1>1. Countdown' = Countdown
  BY DEF Countdown
<1> QED BY <1>1 DEF Countdown

\* A timer is taken out.
LEMMA PromiseStop ==
    ASSUME TimerInv, Clocks, NEW t \in Timer, TakeOut(t), rt_tick' = rt_tick,
           isr' = isr, called' = called
    PROVE  Promise!Stop(t) \/ UNCHANGED Promise!vars
<1>1. /\ ToSet(rt_timer_list') = ToSet(rt_timer_list) \ {t}
      /\ \A u \in Timer \ {t} : TicksLeft(u)' = TicksLeft(u)
      /\ ToSet(rt_timer_list) \subseteq Timer
  BY OutClocks, Counts
<1>2. CASE t \in ToSet(rt_timer_list)
  <2>1. Countdown' = [u \in ToSet(rt_timer_list) \ {t} |-> Countdown[u]]
    BY <1>1 DEF Countdown
  <2>2. DOMAIN Countdown = ToSet(rt_timer_list)
    BY DEF Countdown
  <2> QED BY <2>1, <2>2, <1>2 DEF Promise!Stop, Countdown
<1>3. CASE t \notin ToSet(rt_timer_list)
  BY <1>1, <1>3, PromiseKept
<1> QED BY <1>2, <1>3

LEMMA PromiseStep ==
    ASSUME TimerInv, Clocks, [Next]_vars
    PROVE  [Promise!Next]_(Promise!vars)
<1> USE Counts
<1>0. /\ called \in Timer \cup {Nobody} /\ (isr = "call" <=> called # Nobody)
      /\ Nobody \notin Timer \cup Thread
  BY TimerAssumption DEF TimerInv, TypeOK, Handler
<1>a. ASSUME rt_timer_list' = rt_timer_list, rt_tick' = rt_tick, isr' = isr, called' = called,
             \A u \in ToSet(rt_timer_list) : timeout_tick'[u] = timeout_tick[u]
      PROVE  UNCHANGED Promise!vars
  BY <1>a, SameLeft, PromiseKept
<1>b. DOMAIN Countdown = ToSet(rt_timer_list)
      /\ \A u \in ToSet(rt_timer_list) : Countdown[u] = TicksLeft(u)
  BY DEF Countdown
<1>1. CASE UNCHANGED vars
  BY <1>1, <1>a DEF vars, isrVars
<1>2. ASSUME NEW c \in Thread, NEW t \in Timer, Begin(c, t)
      PROVE  [Promise!Next]_(Promise!vars)
  <2>1. CASE InitTimer(c, t) \/ Stop(c, t) \/ Control(c, t)
    BY <2>1, <1>a DEF InitTimer, Stop, Control, isrVars
  <2>2. CASE Detach(c, t) \/ Start(c, t)
    <3>1. TakeOut(t) /\ rt_tick' = rt_tick /\ isr' = isr /\ called' = called
      BY <2>2 DEF Detach, Start, isrVars
    <3> QED BY <3>1, PromiseStop
  <2> QED BY <2>1, <2>2, <1>2 DEF Begin
<1>3. ASSUME NEW c \in Thread, Continue(c)
      PROVE  [Promise!Next]_(Promise!vars)
  <2>1. CASE Drop(c) \/ StopFlag(c)
    BY <2>1, <1>a DEF Drop, StopFlag, isrVars
  <2>2. CASE StopRemove(c)
    <3>1. /\ TakeOut(pc[c].obj) /\ rt_tick' = rt_tick /\ isr' = isr /\ called' = called
          /\ pc[c].obj \in Timer
      BY <2>2, ThreadFinds DEF StopRemove, Runs, isrVars
    <3> QED BY <3>1, PromiseStop
  <2>3. CASE Stamp(c)
    <3>1. /\ pc[c].obj \in Timer \ ToSet(rt_timer_list) /\ pc[c].at = "stamp"
      BY <2>3, ThreadFinds DEF Stamp, Runs, Linked
    <3>2. \A u \in ToSet(rt_timer_list) : timeout_tick'[u] = timeout_tick[u]
      BY <3>1, <2>3 DEF Stamp
    <3> QED BY <3>2, <2>3, <1>a DEF Stamp, isrVars
  <2>4. CASE Link(c)
    <3>0. PICK t \in Timer : t = pc[c].obj
      BY <2>4, LinkClocks
    <3>1. /\ t \in Timer \ ToSet(rt_timer_list)
          /\ ToSet(rt_timer_list') = ToSet(rt_timer_list) \cup {t}
          /\ \A u \in Timer : TicksLeft(u)' = TicksLeft(u)
          /\ TicksLeft(t) \in 1 - MaxLate .. MaxTime
      BY <3>0, <2>4, LinkClocks
    <3>2. isr' = isr /\ called' = called
      BY <2>4 DEF Link, isrVars
    <3>3. Countdown' = [u \in DOMAIN Countdown \cup {t} |->
                          IF u = t THEN TicksLeft(t) ELSE Countdown[u]]
      BY <3>1 DEF Countdown
    <3>4. Promise!Start(t)
      BY <3>1, <3>2, <3>3, <1>b DEF Promise!Start, Countdown, MaxTime
    <3> QED BY <3>4
  <2> QED BY <2>1, <2>2, <2>3, <2>4, <1>3 DEF Continue
<1>4. CASE Tick
  <2>1. /\ isr = "off" /\ isr' = "check" /\ called' = called /\ rt_timer_list' = rt_timer_list
        /\ \A u \in ToSet(rt_timer_list) : TicksLeft(u)' = TicksLeft(u) - 1
    BY <1>4, TickLeft DEF Tick
  <2>2. Countdown' = [u \in DOMAIN Countdown |-> Countdown[u] - 1]
    BY <2>1 DEF Countdown
  <2>3. Promise!Tick
    BY <2>1, <2>2 DEF Promise!Tick, Countdown
  <2> QED BY <2>3
<1>5. CASE Expire
  <2> DEFINE t == Head(rt_timer_list)
  <2>1. /\ TakeOut(t) /\ rt_tick' = rt_tick /\ isr = "check" /\ isr' = "call" /\ called' = t
        /\ rt_timer_list # <<>> /\ Due(t)
    BY <1>5 DEF Expire
  <2>2. /\ t \in ToSet(rt_timer_list) /\ t \in Timer
        /\ \A u \in ToSet(rt_timer_list) : TicksLeft(t) <= TicksLeft(u)
    BY <2>1, FrontIsLeast
  <2>3. TicksLeft(t) <= 0
    BY <2>1, <2>2, TicksLeftIs
  <2> HIDE DEF t
  <2>4. /\ ToSet(rt_timer_list') = ToSet(rt_timer_list) \ {t}
        /\ \A u \in Timer \ {t} : TicksLeft(u)' = TicksLeft(u)
    BY <2>1, <2>2, OutClocks
  <2>5. Countdown' = [u \in DOMAIN Countdown \ {t} |-> Countdown[u]]
    BY <2>4 DEF Countdown
  <2>6. called = Nobody
    BY <2>1, <1>0
  <2>7. Promise!Expire(t)
    BY <2>1, <2>2, <2>3, <2>5, <2>6, <1>b DEF Promise!Expire, Countdown
  <2> QED BY <2>2, <2>7
<1>6. CASE Settle
  <2>1. /\ isr = "call" /\ isr' = "check" /\ called' = Nobody /\ rt_tick' = rt_tick
        /\ StartAtOnce(called) \/ UNCHANGED <<rt_timer_list, timeout_tick>>
    BY <1>6 DEF Settle
  <2>2. called \in Timer /\ called # Nobody
    BY <2>1, <1>0
  <2>3. CASE StartAtOnce(called)
    <3>1. PICK t \in Timer : t = called
      BY <2>2
    <3>2. /\ TicksLeft(t)' \in 1 .. MaxTime
          /\ ToSet(rt_timer_list') = ToSet(rt_timer_list) \cup {t}
          /\ \A u \in Timer \ {t} : TicksLeft(u)' = TicksLeft(u)
      BY <3>1, <2>1, <2>3, AgainClocks
    <3>a. PICK n \in 1 .. MaxTime : n = TicksLeft(t)'
      BY <3>2
    <3>b. Countdown' = [u \in DOMAIN Countdown \cup {called} |->
                          IF u = called THEN n ELSE Countdown[u]]
      BY <3>1, <3>2, <3>a DEF Countdown
    <3>3. Promise!Return
      BY <3>b, <2>1, <2>2 DEF Promise!Return, Countdown, MaxTime
    <3> QED BY <3>3
  <2>4. CASE UNCHANGED <<rt_timer_list, timeout_tick>>
    <3>1. Countdown' = Countdown
      BY <2>1, <2>4, SameLeft DEF Countdown
    <3>2. Promise!Return
      BY <3>1, <2>1, <2>2 DEF Promise!Return, Countdown
    <3> QED BY <3>2
  <2> QED BY <2>1, <2>3, <2>4
<1>7. CASE CheckDone
  <2>1. /\ isr = "check" /\ isr' = "off" /\ rt_tick' = rt_tick /\ called' = called
        /\ rt_timer_list # <<>> => ~Due(Head(rt_timer_list))
        /\ rt_timer_list' = rt_timer_list /\ timeout_tick' = timeout_tick
    BY <1>7 DEF CheckDone
  <2>2. called = Nobody
    BY <2>1, <1>0
  <2>3. ASSUME NEW u \in ToSet(rt_timer_list)
        PROVE  ~(TicksLeft(u) <= 0)
    <3> DEFINE t == Head(rt_timer_list)
    <3>1. rt_timer_list # <<>>
      BY DEF ToSet
    <3>2. t \in Timer /\ TicksLeft(t) <= TicksLeft(u) /\ ~Due(t)
      BY <3>1, <2>1, FrontIsLeast
    <3> HIDE DEF t
    <3>3. ~(TicksLeft(t) <= 0)
      BY <3>2, TicksLeftIs
    <3>4. TicksLeft(t) \in Int /\ TicksLeft(u) \in Int
      BY <3>2
    <3> QED BY <3>2, <3>3, <3>4
  <2>4. Countdown' = Countdown
    BY <2>1, SameLeft DEF Countdown
  <2>5. Promise!Leave
    BY <2>1, <2>2, <2>3, <2>4, <1>b DEF Promise!Leave, Countdown
  <2> QED BY <2>5
<1>8. ASSUME NEW u \in Timer, CallStart(u)
      PROVE  [Promise!Next]_(Promise!vars)
  <2>1. /\ isr = "call" /\ StartAtOnce(u) /\ isr' = isr /\ rt_tick' = rt_tick /\ called' = called
    BY <1>8 DEF CallStart, isrVars
  <2>2. /\ ToSet(rt_timer_list') = ToSet(rt_timer_list) \cup {u}
        /\ \A v \in Timer \ {u} : TicksLeft(v)' = TicksLeft(v)
        /\ TicksLeft(u)' \in 1 .. MaxTime
    BY <2>1, AgainClocks
  <2>a. PICK n \in 1 .. MaxTime : n = TicksLeft(u)'
    BY <2>2
  <2>3. Countdown' = [v \in DOMAIN Countdown \cup {u} |-> IF v = u THEN n ELSE Countdown[v]]
    BY <2>2, <2>a DEF Countdown
  <2>4. called # Nobody
    BY <2>1, <1>0
  <2>5. Promise!Restart(u)
    BY <2>1, <2>3, <2>4 DEF Promise!Restart, Countdown, MaxTime
  <2> QED BY <2>5
<1>9. ASSUME NEW u \in Timer, CallStop(u)
      PROVE  [Promise!Next]_(Promise!vars)
  <2>1. TakeOut(u) /\ isr' = isr /\ rt_tick' = rt_tick /\ called' = called
    BY <1>9 DEF CallStop, isrVars
  <2> QED BY <2>1, PromiseStop
<1> QED BY <1>1, <1>2, <1>3, <1>4, <1>5, <1>6, <1>7, <1>8, <1>9 DEF Next, CheckStep

\* The timer list, with its tick count that wraps around, does what Alarms says: every
\* running timer counts down by one at a tick, the most overdue expires first, and
\* rt_timer_check leaves none that has run out.
THEOREM PromiseKeeping == Spec => KeepsPromise
<1>1. Init => Promise!Init
  <2> SUFFICES ASSUME Init PROVE Promise!Init
    OBVIOUS
  <2>1. ToSet(<<>>) = {}
    BY DEF ToSet
  <2>2. Countdown = [u \in {} |-> 0]
    BY <2>1 DEF Init, Countdown
  <2> QED BY <2>2 DEF Init, Promise!Init, Countdown
<1> QED BY <1>1, PromiseStep, TimerInvHolds, ClocksHold, PTL DEF Spec, KeepsPromise, Promise!Spec

-----------------------------------------------------------------------------
(* The order of timers that time out at the same tick.                      *)

\* No timeout function starts its own timer; a periodic one starts again when the
\* function returns.
StartsOthers == \A t \in Timer : <<"start", t>> \notin Calls[t]

\* Then the timer whose timeout function runs is not linked.
CalledOut == called # Nobody => called \notin ToSet(rt_timer_list)

LEMMA CalledOutStep ==
    ASSUME TimerInv, CalledOut, StartsOthers, [Next]_vars
    PROVE  CalledOut'
<1> USE Counts
<1>0. called \in Timer \cup {Nobody} /\ (isr = "call" <=> called # Nobody)
  BY DEF TimerInv, TypeOK, Handler
<1>1. ASSUME NEW c \in Thread, Continue(c) \/ \E t \in Timer : Begin(c, t)
      PROVE  CalledOut'
  <2>1. isr = "off" /\ called' = called
    BY <1>1 DEF Continue, Drop, Stamp, Link, StopRemove, StopFlag, Begin, InitTimer, Detach,
                Start, Stop, Control, Uses, Runs, isrVars
  <2> QED BY <2>1, <1>0 DEF CalledOut
<1>2. CASE Tick \/ CheckDone \/ UNCHANGED vars
  BY <1>2 DEF Tick, CheckDone, CalledOut, vars, isrVars
<1>3. CASE Settle
  BY <1>3 DEF Settle, CalledOut
<1>4. CASE Expire
  <2>1. PICK t \in Timer : t = Head(rt_timer_list)
    BY <1>4, TailElements DEF Expire
  <2>2. TakeOut(t) /\ called' = t
    BY <2>1, <1>4 DEF Expire
  <2>3. t \notin ToSet(rt_timer_list')
    BY <2>2, TakenOut
  <2> QED BY <2>2, <2>3 DEF CalledOut
<1>5. ASSUME NEW u \in Timer, CallStart(u)
      PROVE  CalledOut'
  <2>1. called' = called /\ StartAtOnce(u) /\ <<"start", u>> \in Calls[called] /\ isr = "call"
    BY <1>5 DEF CallStart, isrVars
  <2>2. ToSet(rt_timer_list') = ToSet(rt_timer_list) \cup {u} /\ u # called
    BY <2>1, StartedAtOnce DEF StartsOthers
  <2> QED BY <2>1, <2>2 DEF CalledOut
<1>6. ASSUME NEW u \in Timer, CallStop(u)
      PROVE  CalledOut'
  <2>1. called' = called /\ TakeOut(u)
    BY <1>6 DEF CallStop, isrVars
  <2>2. ToSet(rt_timer_list') = ToSet(rt_timer_list) \ {u}
    BY <2>1, TakenOut
  <2> QED BY <2>1, <2>2 DEF CalledOut
<1> QED BY <1>1, <1>2, <1>3, <1>4, <1>5, <1>6 DEF Next, CheckStep

\* What TiesInOrder says of a step.
LEMMA TiesStep ==
    ASSUME TimerInv, Clocks, CalledOut, Next,
           NEW t \in ToSet(rt_timer_list'), NEW u \in ToSet(rt_timer_list'),
           t # u, timeout_tick'[t] = timeout_tick'[u],
           Linked(t), ~CallStart(t),
           Linked(u) => Precedes(rt_timer_list, t, u) \/ CallStart(u)
    PROVE  Precedes(rt_timer_list', t, u)
<1> USE Counts DEF Linked
<1>0. /\ t \in Timer /\ u \in Timer /\ called \in Timer \cup {Nobody}
      /\ isr = "call" <=> called # Nobody
      /\ t \in ToSet(rt_timer_list)
  <2>1. TimerInv'
    BY TimerInvStep
  <2>2. rt_timer_list' \in Seq(Timer)
    BY <2>1 DEF TimerInv, TypeOK
  <2> QED BY <2>2, ListMembers DEF TimerInv, TypeOK, Handler
<1>a. CASE CallStart(u)
  <2>1. StartAtOnce(u) /\ rt_tick' = rt_tick /\ isr = "call" /\ isr' = "call"
    BY <1>a DEF CallStart, isrVars
  <2> QED BY <2>1, <1>0, AgainClocks
<1>b. CASE ~CallStart(u)
  <2> USE <1>b
  <2>0. u \in ToSet(rt_timer_list) => Precedes(rt_timer_list, t, u)
    OBVIOUS
  <2>1. CASE rt_timer_list' = rt_timer_list
    BY <2>0, <2>1
  <2>2. ASSUME NEW x \in Timer, TakeOut(x), rt_tick' = rt_tick, isr' = "off" => isr = "off"
        PROVE  Precedes(rt_timer_list', t, u)
    BY <2>0, <2>2, <1>0, OutClocks
  <2>3. ASSUME NEW c \in Thread, Link(c)
        PROVE  Precedes(rt_timer_list', t, u)
    <3>1. PICK x \in Timer : x = pc[c].obj
      BY <2>3, LinkClocks
    <3>2. /\ ToSet(rt_timer_list') = ToSet(rt_timer_list) \cup {x} /\ timeout_tick' = timeout_tick
          /\ \A a, b \in Timer : Precedes(rt_timer_list, a, b) => Precedes(rt_timer_list', a, b)
          /\ \A a \in ToSet(rt_timer_list) : timeout_tick[a] = timeout_tick[x]
                                              => Precedes(rt_timer_list', a, x)
      BY <3>1, <2>3, LinkClocks
    <3> QED BY <3>2, <2>0, <1>0
  <2>4. CASE Settle
    <3>1. /\ isr = "call" /\ isr' = "check" /\ rt_tick' = rt_tick
          /\ StartAtOnce(called) \/ rt_timer_list' = rt_timer_list
      BY <2>4 DEF Settle
    <3>2. called \in Timer /\ called \notin ToSet(rt_timer_list)
      BY <3>1, <1>0 DEF CalledOut
    <3>3. CASE StartAtOnce(called)
      <4>1. /\ ToSet(rt_timer_list') = ToSet(rt_timer_list) \cup {called}
            /\ \A x, y \in Timer : x # called /\ y # called /\ Precedes(rt_timer_list, x, y)
                                   => Precedes(rt_timer_list', x, y)
            /\ \A x \in ToSet(rt_timer_list) : x # called /\ timeout_tick'[x] = timeout_tick'[called]
                                               => Precedes(rt_timer_list', x, called)
        BY <3>1, <3>2, <3>3, AgainClocks
      <4>2. t # called
        BY <3>2, <1>0
      <4>3. CASE u = called
        BY <4>1, <4>2, <4>3, <1>0
      <4>4. CASE u # called
        BY <4>1, <4>2, <4>4, <2>0, <1>0
      <4> QED BY <4>3, <4>4
    <3> QED BY <3>1, <3>3, <2>1
  <2>5. ASSUME NEW x \in Timer, CallStart(x)
        PROVE  Precedes(rt_timer_list', t, u)
    <3>1. StartAtOnce(x) /\ rt_tick' = rt_tick /\ isr = "call" /\ isr' = "call"
      BY <2>5 DEF CallStart, isrVars
    <3>2. x # t /\ x # u
      BY <2>5
    <3> QED BY <3>1, <3>2, <2>0, <1>0, AgainClocks
  <2>6. ASSUME NEW c \in Thread, Continue(c) \/ \E x \in Timer : Begin(c, x)
        PROVE  Precedes(rt_timer_list', t, u)
    <3>1. CASE Link(c)
      BY <3>1, <2>3
    <3>2. CASE StopRemove(c)
      <4>1. TakeOut(pc[c].obj) /\ rt_tick' = rt_tick /\ isr' = isr /\ pc[c].obj \in Timer
        BY <3>2, ThreadFinds DEF StopRemove, Runs, isrVars
      <4> QED BY <4>1, <2>2
    <3>3. CASE Drop(c) \/ Stamp(c) \/ StopFlag(c)
      BY <3>3, <2>1 DEF Drop, Stamp, StopFlag
    <3>4. ASSUME NEW x \in Timer, Begin(c, x)
          PROVE  Precedes(rt_timer_list', t, u)
      <4>1. CASE Detach(c, x) \/ Start(c, x)
        <5>1. TakeOut(x) /\ rt_tick' = rt_tick /\ isr' = isr
          BY <4>1 DEF Detach, Start, isrVars
        <5> QED BY <5>1, <2>2
      <4>2. CASE InitTimer(c, x) \/ Stop(c, x) \/ Control(c, x)
        BY <4>2, <2>1 DEF InitTimer, Stop, Control
      <4> QED BY <3>4, <4>1, <4>2 DEF Begin
    <3> QED BY <2>6, <3>1, <3>2, <3>3, <3>4 DEF Continue
  <2>7. CASE Tick \/ CheckDone
    BY <2>7, <2>1 DEF Tick, CheckDone
  <2>8. CASE Expire
    <3>1. PICK x \in Timer : x = Head(rt_timer_list)
      BY <2>8, TailElements DEF Expire
    <3>2. TakeOut(x) /\ rt_tick' = rt_tick /\ isr' = "call"
      BY <3>1, <2>8 DEF Expire
    <3> QED BY <3>2, <2>2
  <2>9. ASSUME NEW x \in Timer, CallStop(x)
        PROVE  Precedes(rt_timer_list', t, u)
    <3>1. TakeOut(x) /\ rt_tick' = rt_tick /\ isr' = isr
      BY <2>9 DEF CallStop, isrVars
    <3> QED BY <3>1, <2>2
  <2> QED BY <2>4, <2>5, <2>6, <2>7, <2>8, <2>9 DEF Next, CheckStep
<1> QED BY <1>a, <1>b

\* Timers that time out at the same tick keep the order in which they were inserted, as
\* the comment in rt_timer_start says, while others come and go and across the
\* wraparound.
THEOREM TiesCorrect == ASSUME StartsOthers PROVE Spec => TiesInOrder
<1> DEFINE Ties ==
      \A t, u \in ToSet(rt_timer_list') :
          /\ t # u /\ timeout_tick'[t] = timeout_tick'[u]
          /\ Linked(t) /\ ~CallStart(t)
          /\ Linked(u) => Precedes(rt_timer_list, t, u) \/ CallStart(u)
          => Precedes(rt_timer_list', t, u)
<1>1. Init => CalledOut
  BY DEF Init, CalledOut
<1>2. TimerInv /\ CalledOut /\ [Next]_vars => CalledOut'
  BY StartsOthers, CalledOutStep
<1>3. TimerInv /\ Clocks /\ CalledOut /\ [Next]_vars => [Ties]_vars
  BY TiesStep
<1> QED BY <1>1, <1>2, <1>3, TimerInvHolds, ClocksHold, PTL DEF Spec, TiesInOrder

=============================================================================
