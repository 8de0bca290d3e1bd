------------------------------ MODULE Scheduler ------------------------------
(***************************************************************************)
(* The RT-Thread 3.1.4 kernel scheduler and thread life cycle on a single  *)
(* Cortex-M4 (src/rt-thread/src/{scheduler,thread,idle,irq,clock}.c and    *)
(* libcpu/arm/cortex-m4/context_gcc.S), as compiled by src/rtconfig.h.     *)
(*                                                                         *)
(* A region between rt_hw_interrupt_disable and rt_hw_interrupt_enable is  *)
(* one action.  A call made of several such regions is several actions,    *)
(* with the caller's place in pc, and interrupts (the tick, a device) and  *)
(* the PendSV context switch happen between them.                          *)
(***************************************************************************)
EXTENDS RtList

CONSTANTS
    Thread,         \* the thread control blocks
    Nobody,         \* RT_NULL where a thread pointer is expected
    Idle,           \* the idle thread
    Booted,         \* the ready queues when the scheduler is started
    PrioMax,        \* RT_THREAD_PRIORITY_MAX: priorities 0 .. PrioMax-1, 0 first
    InitPriority,   \* init_priority of each thread
    InitTick,       \* init_tick, the time slice of each thread
    Static,         \* threads made with rt_thread_init (system objects)
    Cleanup,        \* threads with a cleanup function
    NewPriority,    \* the priorities rt_thread_control may be given
    Sources,        \* the interrupts there are
    MaxLock,        \* bound on the nesting of rt_enter_critical
    Manages,        \* <<m, t>>: m calls start/suspend/resume/control/delete on t
    DeleteSleeping  \* whether a thread is deleted while its timer runs

Priority == 0 .. PrioMax - 1
Object == Thread \cup {Nobody}
Worker == Thread \ {Idle}

ASSUME SchedulerAssumption ==
    /\ Nobody \notin Thread
    /\ Idle \in Static \cap Thread
    /\ PrioMax \in Nat \ {0}
    /\ InitPriority \in [Thread -> Priority]
    /\ InitTick \in [Thread -> Nat \ {0}]
    /\ Static \subseteq Thread /\ Cleanup \subseteq Thread
    /\ NewPriority \subseteq Priority
    /\ Sources \subseteq {"tick", "device"}
    /\ MaxLock \in Nat
    /\ Booted \in [Priority -> Seq(Thread)]
    /\ \A p \in Priority : IsInjective(Booted[p]) /\
                          \A t \in ToSet(Booted[p]) : InitPriority[t] = p
    /\ Idle \in ToSet(Booted[InitPriority[Idle]])
    /\ DeleteSleeping \in BOOLEAN

\* Who manages whom: nobody manages itself, the idle thread or another manager.
ASSUME ManagesAssumption ==
    /\ Manages \subseteq Worker \X Worker
    /\ \A x, y \in Manages : x[1] # y[2]

VARIABLES
    stat,                       \* thread->stat; "none" is a control block not in use
    current_priority,
    remaining_tick,
    timer,                      \* threads whose thread_timer is active
    waiting,                    \* threads linked on the suspend list of an IPC object
    priority_table,             \* rt_thread_priority_table: a FIFO queue per priority
    ready_priority_group,       \* the priorities whose bit is set
    thread_defunct,             \* rt_thread_defunct
    rt_current_thread,
    scheduler_lock_nest,
    isr,                        \* where the active interrupts are, the innermost first
    switch_flag, switch_from, switch_to,    \* what PendSV is asked to do
    on_cpu,                     \* the thread whose context is on the processor
    pc                          \* where each thread is in a kernel call

threadVars == <<stat, current_priority, remaining_tick, timer>>
listVars == <<waiting, priority_table, ready_priority_group, thread_defunct>>
switchVars == <<rt_current_thread, switch_flag, switch_from, switch_to>>
vars == <<threadVars, listVars, switchVars, scheduler_lock_nest, isr, on_cpu, pc>>

-----------------------------------------------------------------------------
(* Ready queues.                                                           *)

\* rt_list_remove(&t->tlist) takes t off whichever ready queue it is on.
Unlinked(table, t) == [p \in Priority |-> Unlink(table[p], t)]

\* (A "Mutant" is a wrong version of the definition after it; no action uses one.)
MutantInsertThread(t) ==    \* at the front, before its equals
    /\ stat' = [stat EXCEPT ![t] = "ready"]
    /\ priority_table' = [priority_table EXCEPT ![current_priority[t]] = Push(@, t)]
    /\ ready_priority_group' = ready_priority_group \cup {current_priority[t]}

\* rt_schedule_insert_thread: to the tail of its queue, and the bit is set.
InsertThread(t) ==
    /\ stat' = [stat EXCEPT ![t] = "ready"]
    /\ priority_table' = [priority_table EXCEPT ![current_priority[t]] = Enqueue(@, t)]
    /\ ready_priority_group' = ready_priority_group \cup {current_priority[t]}

\* rt_schedule_remove_thread: the bit is cleared when the queue is left empty.
MutantGroupAfter(table, group, p) == group  \* the bit is never cleared
GroupAfter(table, group, p) == IF table[p] = <<>> THEN group \ {p} ELSE group

RemoveThread(t) ==
    /\ priority_table' = Unlinked(priority_table, t)
    /\ ready_priority_group' =
          GroupAfter(priority_table', ready_priority_group, current_priority[t])

\* __rt_ffs(rt_thread_ready_priority_group) - 1.
HighestReady(group) == CHOOSE p \in group : \A q \in group : p <= q

\* to_thread of rt_schedule.  An empty queue under a set bit would make the
\* kernel take the list head for a thread: Nobody stands for that wild pointer.
ToThread(table, group) ==
    IF group = {} \/ table[HighestReady(group)] = <<>> THEN Nobody
    ELSE Head(table[HighestReady(group)])

MutantContextSwitch(to) ==  \* the first "from" is overwritten
    /\ rt_current_thread' = to
    /\ switch_flag' = TRUE
    /\ switch_from' = rt_current_thread
    /\ switch_to' = to

\* rt_hw_context_switch: a switch still pending keeps its "from".
ContextSwitch(to) ==
    /\ rt_current_thread' = to
    /\ switch_flag' = TRUE
    /\ switch_from' = IF switch_flag THEN switch_from ELSE rt_current_thread
    /\ switch_to' = to

MutantSchedule(table, group) ==  \* the scheduler lock is not looked at
    IF ToThread(table, group) # rt_current_thread
    THEN ContextSwitch(ToThread(table, group))
    ELSE UNCHANGED switchVars

\* rt_schedule, on the queues it finds.
Schedule(table, group) ==
    IF scheduler_lock_nest = 0 /\ ToThread(table, group) # rt_current_thread
    THEN ContextSwitch(ToThread(table, group))
    ELSE UNCHANGED switchVars

-----------------------------------------------------------------------------
(* The processor: who may take a step.                                     *)

\* t's code runs: no interrupt is active and no context switch is due.
Runs(t) == on_cpu = t /\ isr = <<>> /\ ~switch_flag
At(t, step) == Runs(t) /\ pc[t].at = step
AtRest == [at |-> "run", obj |-> Nobody, ret |-> "run"]
Goto(t, step) == pc' = [pc EXCEPT ![t] = [AtRest EXCEPT !.at = step]]
Call(m, step, t, ret) == pc' = [pc EXCEPT ![m] = [at |-> step, obj |-> t, ret |-> ret]]

Init ==
    /\ stat = [t \in Thread |-> IF t \in ToSet(Booted[InitPriority[t]]) THEN "ready" ELSE "none"]
    /\ current_priority = InitPriority
    /\ remaining_tick = InitTick
    /\ timer = {} /\ waiting = {} /\ thread_defunct = <<>>
    /\ priority_table = Booted
    /\ ready_priority_group = {p \in Priority : Booted[p] # <<>>}
    /\ rt_current_thread = Nobody
    /\ switch_flag = FALSE /\ switch_from = Nobody /\ switch_to = Nobody
    /\ scheduler_lock_nest = 0
    /\ isr = <<>>
    /\ on_cpu = Nobody
    /\ pc = [t \in Thread |-> AtRest]

\* rt_system_scheduler_start and rt_hw_context_switch_to: nothing to save.
SchedulerStart ==
    /\ rt_current_thread = Nobody /\ ~switch_flag
    /\ LET to == ToThread(priority_table, ready_priority_group)
       IN  rt_current_thread' = to /\ switch_to' = to
    /\ switch_flag' = TRUE /\ switch_from' = Nobody
    /\ UNCHANGED <<threadVars, listVars, scheduler_lock_nest, isr, on_cpu, pc>>

\* PendSV_Handler, of the lowest interrupt priority: after every other handler.
\* What it leaves in the two pointers is never read: they are forgotten.
PendSV ==
    /\ isr = <<>> /\ switch_flag
    /\ switch_flag' = FALSE
    /\ on_cpu' = switch_to
    /\ switch_from' = Nobody /\ switch_to' = Nobody
    /\ UNCHANGED <<threadVars, listVars, rt_current_thread, scheduler_lock_nest, isr, pc>>

-----------------------------------------------------------------------------
(* Calls a thread makes for itself.                                        *)

\* The rt_schedule that ends a call.
CallSchedule(t) ==
    /\ At(t, "sched")
    /\ Schedule(priority_table, ready_priority_group)
    /\ Goto(t, "run")
    /\ UNCHANGED <<threadVars, listVars, scheduler_lock_nest, isr, on_cpu>>

\* rt_thread_sleep: suspend (refused unless READY), then start the timer.
Sleep(t) ==
    /\ At(t, "run")
    /\ timer' = timer \cup {t}
    /\ Goto(t, "sched")
    /\ IF stat[t] = "ready"
       THEN stat' = [stat EXCEPT ![t] = "suspend"] /\ RemoveThread(t)
       ELSE UNCHANGED <<stat, priority_table, ready_priority_group>>
    /\ UNCHANGED <<current_priority, remaining_tick, waiting, thread_defunct, switchVars,
                   scheduler_lock_nest, isr, on_cpu>>

\* A blocking IPC call that has to wait: rt_thread_suspend and rt_ipc_list_suspend,
\* then the thread timer when there is a timeout.  Its caller is READY and
\* has not locked the scheduler.
Wait(t) ==
    /\ At(t, "run")
    /\ stat[t] = "ready" /\ scheduler_lock_nest = 0
    /\ stat' = [stat EXCEPT ![t] = "suspend"]
    /\ RemoveThread(t)
    /\ waiting' = waiting \cup {t}
    /\ timer' \in {timer, timer \cup {t}}
    /\ Goto(t, "sched")
    /\ UNCHANGED <<current_priority, remaining_tick, thread_defunct, switchVars,
                   scheduler_lock_nest, isr, on_cpu>>

MutantResumeWaiter(w) ==    \* its timer goes on
    /\ w \in waiting /\ stat[w] = "suspend"
    /\ waiting' = waiting \ {w}
    /\ timer' = timer
    /\ InsertThread(w)

\* rt_ipc_list_resume, inside the region of the IPC call: rt_thread_resume.
ResumeWaiter(w) ==
    /\ w \in waiting /\ stat[w] = "suspend"
    /\ waiting' = waiting \ {w}
    /\ timer' = timer \ {w}
    /\ InsertThread(w)

\* A thread releases an IPC object and schedules.
Wake(t, w) ==
    /\ At(t, "run")
    /\ ResumeWaiter(w)
    /\ Goto(t, "sched")
    /\ UNCHANGED <<current_priority, remaining_tick, thread_defunct, switchVars,
                   scheduler_lock_nest, isr, on_cpu>>

\* rt_thread_yield, the region of it: only when the queue holds another thread.
CanYield(t) ==
    LET q == priority_table[current_priority[t]]
    IN  stat[t] = "ready" /\ t \in ToSet(q) /\ Len(q) > 1
MutantToTail(t) == UNCHANGED priority_table     \* the queue is not rotated
ToTail(t) ==
    priority_table' = [priority_table EXCEPT ![current_priority[t]] = Enqueue(Unlink(@, t), t)]

Yield(t) ==
    /\ At(t, "run")
    /\ CanYield(t)
    /\ ToTail(t)
    /\ Goto(t, "sched")
    /\ UNCHANGED <<threadVars, waiting, ready_priority_group, thread_defunct, switchVars,
                   scheduler_lock_nest, isr, on_cpu>>

EnterCritical(t) ==
    /\ At(t, "run")
    /\ scheduler_lock_nest < MaxLock
    /\ scheduler_lock_nest' = scheduler_lock_nest + 1
    /\ UNCHANGED <<threadVars, listVars, switchVars, isr, on_cpu, pc>>

\* Where rt_exit_critical goes on.
MutantAfterUnlock == "run"      \* it never schedules
AfterUnlock == IF scheduler_lock_nest = 1 THEN "sched" ELSE "run"

\* rt_exit_critical schedules, in a region of its own, when the last lock is left.
ExitCritical(t) ==
    /\ At(t, "run") /\ scheduler_lock_nest > 0
    /\ scheduler_lock_nest' = scheduler_lock_nest - 1
    /\ Goto(t, AfterUnlock)
    /\ UNCHANGED <<threadVars, listVars, switchVars, isr, on_cpu>>

\* Onto the list that the idle thread empties.
MutantBury(t) == UNCHANGED thread_defunct   \* forgotten
Bury(t) == thread_defunct' = Push(thread_defunct, t)

\* The status of a thread that is over: a system object without a cleanup
\* function is detached at once, any other waits for the idle thread.
MutantFinalStat(t) == "none"    \* the control block is given up at once
FinalStat(t) == IF t \in Static \ Cleanup THEN "none" ELSE "close"

\* rt_thread_exit, where the entry function returns to.
Exit(t) ==
    /\ At(t, "run") /\ scheduler_lock_nest = 0
    /\ RemoveThread(t)
    /\ timer' = timer \ {t}
    /\ stat' = [stat EXCEPT ![t] = FinalStat(t)]
    /\ IF FinalStat(t) = "close" THEN Bury(t) ELSE UNCHANGED thread_defunct
    /\ Goto(t, "sched")
    /\ UNCHANGED <<current_priority, remaining_tick, waiting, switchVars,
                   scheduler_lock_nest, isr, on_cpu>>

-----------------------------------------------------------------------------
(* Calls on another thread.  The caller's obligations, which the kernel    *)
(* does not check: calls on one thread are made one at a time, by a READY  *)
(* thread of a higher priority than its own, so that it cannot run in the  *)
(* middle of one; a thread is not deleted while its timer runs, unless     *)
(* DeleteSleeping.                                                         *)

Manager(m, t) ==
    /\ At(m, "run") /\ <<m, t>> \in Manages
    /\ \A x \in Thread : pc[x].obj # t

MayManage(m, t) ==
    /\ Manager(m, t) /\ stat[t] # "none"
    /\ stat[m] = "ready" /\ current_priority[m] < current_priority[t]

\* rt_thread_create or rt_thread_init: _rt_thread_init.
Create(m, t) ==
    /\ Manager(m, t) /\ stat[t] = "none"
    /\ stat' = [stat EXCEPT ![t] = "init"]
    /\ current_priority' = [current_priority EXCEPT ![t] = InitPriority[t]]
    /\ remaining_tick' = [remaining_tick EXCEPT ![t] = InitTick[t]]
    /\ pc' = [pc EXCEPT ![t] = AtRest]
    /\ UNCHANGED <<timer, listVars, switchVars, scheduler_lock_nest, isr, on_cpu>>

\* rt_thread_startup up to the first region of the rt_thread_resume it calls.
Startup(m, t) ==
    /\ Manager(m, t) /\ stat[t] = "init" /\ stat[m] = "ready"
    /\ current_priority' = [current_priority EXCEPT ![t] = InitPriority[t]]
    /\ stat' = [stat EXCEPT ![t] = "suspend"]
    /\ Call(m, "unlink", t, "sched")
    /\ UNCHANGED <<remaining_tick, timer, listVars, switchVars, scheduler_lock_nest,
                   isr, on_cpu>>

\* rt_thread_resume: the status is read with interrupts enabled...
Resume(m, t) ==
    /\ MayManage(m, t)
    /\ stat[t] = "suspend"
    /\ Call(m, "unlink", t, "run")
    /\ UNCHANGED <<threadVars, listVars, switchVars, scheduler_lock_nest, isr, on_cpu>>

\* ...then the thread is taken off its list, whatever list that is by now...
ResumeUnlink(m) ==
    LET t == pc[m].obj
    IN  /\ At(m, "unlink")
        /\ priority_table' = Unlinked(priority_table, t)
        /\ waiting' = waiting \ {t}
        /\ thread_defunct' = Unlink(thread_defunct, t)
        /\ timer' = timer \ {t}
        /\ Call(m, "insert", t, pc[m].ret)
        /\ UNCHANGED <<stat, current_priority, remaining_tick, ready_priority_group,
                       switchVars, scheduler_lock_nest, isr, on_cpu>>

\* ...and, in another region, put on its ready queue.
ResumeInsert(m) ==
    /\ At(m, "insert")
    /\ InsertThread(pc[m].obj)
    /\ Goto(m, pc[m].ret)
    /\ UNCHANGED <<current_priority, remaining_tick, timer, waiting, thread_defunct,
                   switchVars, scheduler_lock_nest, isr, on_cpu>>

MutantSuspendable(t) == stat[t] # "init"     \* refuses only what has not started
Suspendable(t) == stat[t] = "ready"

\* rt_thread_suspend: the status is read first, the region follows.
Suspend(m, t) ==
    /\ MayManage(m, t)
    /\ Suspendable(t)
    /\ Call(m, "suspend", t, "run")
    /\ UNCHANGED <<threadVars, listVars, switchVars, scheduler_lock_nest, isr, on_cpu>>

SuspendRemove(m) ==
    LET t == pc[m].obj
    IN  /\ At(m, "suspend")
        /\ stat' = [stat EXCEPT ![t] = "suspend"]
        /\ RemoveThread(t)
        /\ waiting' = waiting \ {t}
        /\ thread_defunct' = Unlink(thread_defunct, t)
        /\ timer' = timer \ {t}
        /\ Goto(m, "run")
        /\ UNCHANGED <<current_priority, remaining_tick, switchVars, scheduler_lock_nest,
                       isr, on_cpu>>

\* rt_thread_control(RT_THREAD_CTRL_CHANGE_PRIORITY): no rt_schedule follows.
Control(m, t, p) ==
    /\ MayManage(m, t) /\ p \in NewPriority
    /\ current_priority[m] < p
    /\ current_priority' = [current_priority EXCEPT ![t] = p]
    /\ IF stat[t] = "ready"
       THEN LET table == Unlinked(priority_table, t)
            IN  /\ priority_table' = [table EXCEPT ![p] = Enqueue(@, t)]
                /\ ready_priority_group' = {p} \cup
                      GroupAfter(table, ready_priority_group, current_priority[t])
       ELSE UNCHANGED <<priority_table, ready_priority_group>>
    /\ UNCHANGED <<stat, remaining_tick, timer, waiting, thread_defunct, switchVars,
                   scheduler_lock_nest, isr, on_cpu, pc>>

\* rt_thread_delete and rt_thread_detach, first region: off its list.
Delete(m, t) ==
    /\ MayManage(m, t)
    /\ DeleteSleeping \/ t \notin timer
    /\ IF stat[t] = "init"
       THEN UNCHANGED <<waiting, priority_table, ready_priority_group, thread_defunct>>
       ELSE /\ RemoveThread(t)
            /\ waiting' = waiting \ {t}
            /\ thread_defunct' = Unlink(thread_defunct, t)
    /\ Call(m, "close", t, "run")
    /\ UNCHANGED <<threadVars, switchVars, scheduler_lock_nest, isr, on_cpu>>

\* Second: the timer is released and the status set; a system object without
\* cleanup is detached at once.
DeleteClose(m) ==
    LET t == pc[m].obj
    IN  /\ At(m, "close")
        /\ timer' = timer \ {t}
        /\ stat' = [stat EXCEPT ![t] = FinalStat(t)]
        /\ IF FinalStat(t) = "close" THEN Call(m, "bury", t, "run") ELSE Goto(m, "run")
        /\ UNCHANGED <<current_priority, remaining_tick, listVars, switchVars,
                       scheduler_lock_nest, isr, on_cpu>>

\* Third: onto the defunct list.
DeleteBury(m) ==
    /\ At(m, "bury")
    /\ Bury(pc[m].obj)
    /\ Goto(m, "run")
    /\ UNCHANGED <<threadVars, waiting, priority_table, ready_priority_group, switchVars,
                   scheduler_lock_nest, isr, on_cpu>>

-----------------------------------------------------------------------------
(* rt_thread_idle_excute.  Its rt_enter_critical and rt_exit_critical are  *)
(* inside one region; the latter schedules.                                *)

Reap ==
    LET t == Head(thread_defunct)
    IN  /\ At(Idle, "run") /\ thread_defunct # <<>>
        /\ thread_defunct' = Tail(thread_defunct)
        /\ IF t \in Static
           THEN stat' = [stat EXCEPT ![t] = "none"] /\ UNCHANGED pc
           ELSE Call(Idle, "free", t, "run") /\ UNCHANGED stat
        /\ Schedule(priority_table, ready_priority_group)
        /\ UNCHANGED <<current_priority, remaining_tick, timer, waiting, priority_table,
                       ready_priority_group, scheduler_lock_nest, isr, on_cpu>>

\* The stack and the control block go back to the heap, interrupts enabled.
Free ==
    /\ At(Idle, "free")
    /\ stat' = [stat EXCEPT ![pc[Idle].obj] = "none"]
    /\ Goto(Idle, "run")
    /\ UNCHANGED <<current_priority, remaining_tick, timer, listVars, switchVars,
                   scheduler_lock_nest, isr, on_cpu>>

-----------------------------------------------------------------------------
(* Interrupts.  The board gives the tick the most urgent priority          *)
(* (libraries/HAL_Drivers/drv_common.c): it may nest on a device's handler, *)
(* and nothing nests on it.  isr holds where each active handler is:        *)
(* "tick" in rt_timer_check, "wake" and "sched" in a device's handler.      *)

InIsr(at) == isr # <<>> /\ Head(isr) = at
IsrEnter(at) == isr' = <<at>> \o isr
IsrLeave == isr' = Tail(isr)

CanInterrupt(src) ==
    /\ src \in Sources
    /\ rt_current_thread # Nobody
    /\ IF src = "tick" THEN ~InIsr("tick") ELSE isr = <<>>

\* The countdown of the time slice: a slice that is over starts anew.
MutantCountdown(t) == remaining_tick[t] - 1     \* it does not
Countdown(t) == IF remaining_tick[t] = 1 THEN InitTick[t] ELSE remaining_tick[t] - 1

\* rt_tick_increase as far as rt_timer_check: the time slice, the yield at its end.
Tick ==
    LET t == rt_current_thread
    IN  /\ CanInterrupt("tick")
        /\ remaining_tick' = [remaining_tick EXCEPT ![t] = Countdown(t)]
        /\ IF remaining_tick[t] = 1 /\ CanYield(t)
           THEN ToTail(t) /\ Schedule(priority_table', ready_priority_group)
           ELSE UNCHANGED <<priority_table, switchVars>>
        /\ IsrEnter("tick")
        /\ UNCHANGED <<stat, current_priority, timer, waiting, ready_priority_group,
                       thread_defunct, scheduler_lock_nest, on_cpu, pc>>

\* rt_timer_check on a thread timer that is due: rt_thread_timeout.
TimerExpire(t) ==
    /\ InIsr("tick") /\ t \in timer
    /\ timer' = timer \ {t}
    /\ waiting' = waiting \ {t}
    /\ InsertThread(t)
    /\ Schedule(priority_table', ready_priority_group')
    /\ UNCHANGED <<current_priority, remaining_tick, thread_defunct, scheduler_lock_nest,
                   isr, on_cpu, pc>>

\* No other timer is due.
TickLeave ==
    /\ InIsr("tick")
    /\ IsrLeave
    /\ UNCHANGED <<threadVars, listVars, switchVars, scheduler_lock_nest, on_cpu, pc>>

\* A device interrupt that releases an IPC object somebody waits for.
DeviceEnter ==
    /\ CanInterrupt("device") /\ waiting # {}
    /\ IsrEnter("wake")
    /\ UNCHANGED <<threadVars, listVars, switchVars, scheduler_lock_nest, on_cpu, pc>>

DeviceWake(w) ==
    /\ InIsr("wake")
    /\ ResumeWaiter(w)
    /\ isr' = <<"sched">>
    /\ UNCHANGED <<current_priority, remaining_tick, thread_defunct, switchVars,
                   scheduler_lock_nest, on_cpu, pc>>

DeviceSchedule ==
    /\ InIsr("sched")
    /\ Schedule(priority_table, ready_priority_group)
    /\ IsrLeave
    /\ UNCHANGED <<threadVars, listVars, scheduler_lock_nest, on_cpu, pc>>

\* Whoever waited has been timed out by a nested tick.
DeviceLeave ==
    /\ InIsr("wake") /\ waiting = {}
    /\ IsrLeave
    /\ UNCHANGED <<threadVars, listVars, switchVars, scheduler_lock_nest, on_cpu, pc>>

-----------------------------------------------------------------------------
\* A thread's next step inside a call it has begun.
Continue(t) ==
    \/ CallSchedule(t)
    \/ ResumeUnlink(t) \/ ResumeInsert(t)
    \/ SuspendRemove(t)
    \/ DeleteClose(t) \/ DeleteBury(t)

\* A call that t begins.
Begin(t) ==
    \/ Sleep(t) \/ Wait(t) \/ Yield(t) \/ Exit(t)
    \/ EnterCritical(t) \/ ExitCritical(t)
    \/ \E o \in Thread :
          \/ Wake(t, o)
          \/ Create(t, o) \/ Startup(t, o)
          \/ Resume(t, o) \/ Suspend(t, o) \/ Delete(t, o)
          \/ \E p \in Priority : Control(t, o, p)

IdleStep == Reap \/ Free

TickStep == TickLeave \/ \E t \in Thread : TimerExpire(t)

DeviceStep == DeviceSchedule \/ DeviceLeave \/ \E w \in Thread : DeviceWake(w)

Next ==
    \/ SchedulerStart \/ PendSV
    \/ \E t \in Worker : Begin(t) \/ Continue(t)
    \/ IdleStep
    \/ Tick \/ TickStep
    \/ DeviceEnter \/ DeviceStep

Spec == Init /\ [][Next]_vars

-----------------------------------------------------------------------------
(* Properties.                                                             *)

Stat == {"none", "init", "ready", "suspend", "close"}
Step == {"run", "sched", "unlink", "insert", "suspend", "close", "bury", "free"}
Place == [at : Step, obj : Object, ret : {"run", "sched"}]
Frame == {"tick", "wake", "sched"}

\* Every variable keeps the type the source declares it with.
TypeOK ==
    /\ stat \in [Thread -> Stat]
    /\ current_priority \in [Thread -> Priority]
    /\ remaining_tick \in [Thread -> Nat]
    /\ \A t \in Thread : remaining_tick[t] \in 1 .. InitTick[t]
    /\ timer \subseteq Thread /\ waiting \subseteq Thread
    /\ priority_table \in [Priority -> Seq(Thread)]
    /\ ready_priority_group \subseteq Priority
    /\ thread_defunct \in Seq(Thread)
    /\ rt_current_thread \in Object /\ on_cpu \in Object
    /\ switch_from \in Object /\ switch_to \in Object
    /\ switch_flag \in BOOLEAN
    /\ scheduler_lock_nest \in 0 .. MaxLock
    /\ isr \in Seq(Frame)
    /\ pc \in [Thread -> Place]

\* t is in the middle of a call, between the given regions.
InCall(t, steps) == \E m \in Thread : pc[m].obj = t /\ pc[m].at \in steps

\* A thread's node is linked at most once, on the list its status calls for
\* (rt_schedule_insert_thread, rt_ipc_list_suspend, rt_thread_exit), and only a
\* suspended thread has a running timer (the assertion of rt_thread_timeout).
LinkedWhereStatSays ==
    /\ \A p \in Priority :
          /\ IsInjective(priority_table[p])
          /\ \A t \in ToSet(priority_table[p]) : stat[t] = "ready" /\ current_priority[t] = p
    /\ \A t \in waiting \cup timer : stat[t] = "suspend"
    /\ IsInjective(thread_defunct)
    /\ \A t \in ToSet(thread_defunct) : stat[t] = "close" /\ ~InCall(t, {"close", "bury"})

\* No thread is lost: a READY thread is on its ready queue and a closed one on
\* the defunct list, or the call that is moving it will put it there.
NoThreadLost ==
    \A t \in Thread :
       /\ stat[t] = "ready" =>
             t \in ToSet(priority_table[current_priority[t]]) \/ InCall(t, {"insert", "close"})
       /\ stat[t] = "close" =>
             t \in ToSet(thread_defunct) \/ InCall(t, {"close", "bury", "free"})

\* The bit of a priority is set when its queue holds a thread.  rt_thread_resume
\* may leave a bit over an empty queue between its two regions, no longer.
GroupMatchesTable ==
    /\ \A p \in Priority : priority_table[p] # <<>> => p \in ready_priority_group
    /\ \A p \in ready_priority_group : priority_table[p] = <<>> =>
          \E t \in Thread : current_priority[t] = p /\ stat[t] = "ready" /\ InCall(t, {"insert"})

\* rt_schedule never takes the head of an empty list for a thread: whatever
\* interrupt comes, the highest bit that is set has a thread under it.
NeverDispatchesNobody == ToThread(priority_table, ready_priority_group) # Nobody

\* PendSV saves the registers in the control block of the thread they belong to
\* and loads those of rt_current_thread (rt_hw_context_switch, PendSV_Handler).
SwitchSavesRunner ==
    IF switch_flag THEN switch_from = on_cpu /\ switch_to = rt_current_thread
    ELSE on_cpu = rt_current_thread

\* Whenever a thread executes its own code and the scheduler is not locked, it
\* is the thread rt_schedule would choose: no call or interrupt that made a more
\* urgent thread ready returns without the switch.
NoScheduleOwed ==
    ~switch_flag /\ isr = <<>> /\ on_cpu # Nobody /\ scheduler_lock_nest = 0 =>
       \/ pc[on_cpu].at = "sched"
       \/ on_cpu = ToThread(priority_table, ready_priority_group)

\* A control block is recycled only when neither the processor nor a pending
\* switch uses its stack, and nothing links to it (rt_thread_idle_excute frees
\* what rt_thread_exit and rt_thread_delete left on the defunct list).
FreedIsUnused ==
    \A t \in Thread : stat[t] = "none" =>
       /\ t \notin waiting \cup timer \cup ToSet(thread_defunct)
       /\ \A p \in Priority : t \notin ToSet(priority_table[p])
       /\ t \notin Static => t \notin {on_cpu, rt_current_thread}
                             /\ ~(switch_flag /\ switch_from = t)

\* "The thread object will be removed from thread queue" (rt_thread_delete): a
\* closed thread is on no ready queue.
ClosedIsOffQueues ==
    \A t \in Thread : stat[t] = "close" => \A p \in Priority : t \notin ToSet(priority_table[p])

\* rt_enter_critical keeps the processor: no switch, whatever interrupts do and
\* even when the thread that locked suspends itself.
LockKeepsProcessor == [][scheduler_lock_nest > 0 => on_cpu' = on_cpu]_vars

\* A closed thread never runs again: it only leaves that status to be freed.
ClosedStaysClosed ==
    [][\A t \in Thread : stat[t] = "close" => stat'[t] \in {"close", "none"}]_vars

\* Threads of one priority keep their order, and one that becomes ready goes behind
\* the others: a thread is overtaken only when it is the current thread, by a yield
\* or the end of its time slice, or when its priority is set anew.
Precedes(q, a, b) == \E i, j \in DOMAIN q : i < j /\ q[i] = a /\ q[j] = b
NoOvertaking ==
    [][\A p \in Priority :
          \A a \in ToSet(priority_table[p]), b \in ToSet(priority_table'[p]) :
             Precedes(priority_table'[p], b, a) =>
                \/ Precedes(priority_table[p], b, a)
                \/ a = rt_current_thread
                \/ \E m \in Thread : Control(m, a, p)]_vars

-----------------------------------------------------------------------------
(* Fairness.  The tick keeps coming and handlers run to their end; they     *)
(* leave time to PendSV for each thread chosen, and to the threads on the   *)
(* processor to finish, one or the other of them, a kernel call begun or a  *)
(* critical section.  Nothing makes a thread begin a call.                  *)

Fairness ==
    /\ WF_vars(SchedulerStart)
    /\ \A t \in Thread : SF_vars(PendSV /\ switch_to = t)
    /\ WF_vars(Tick) /\ WF_vars(TickStep)
    /\ SF_vars(IdleStep)
    /\ SF_vars(\E t \in Worker : Continue(t))
    /\ SF_vars(\E t \in Worker : ExitCritical(t))

FairSpec == Spec /\ Fairness

\* The time slice shares the processor among the threads of the highest ready
\* priority (rt_tick_increase, rt_thread_yield): each of them runs, or stops
\* being one.
IsTop(t) == ready_priority_group # {} /\
            t \in ToSet(priority_table[HighestReady(ready_priority_group)])
TopThreadsShare == \A t \in Thread : IsTop(t) ~> (on_cpu = t \/ ~IsTop(t))

\* No closed thread is forgotten: while the idle thread keeps getting the
\* processor there comes a time when none is left, unless threads close for ever.
\* (Then one may stay: rt_thread_exit and rt_thread_delete put the closed at the
\* head of the defunct list, where rt_thread_idle_excute takes the next to free.)
Closes == \E t \in Thread : stat[t] # "close" /\ stat'[t] = "close"
NoneClosed == \A t \in Thread : stat[t] # "close"
ClosedAreFreed == []<>Runs(Idle) => []<>NoneClosed \/ []<><<Closes>>_vars

=============================================================================
