# TLA+ models of the pandora robot firmware

The repository is the firmware of a two-wheeled robot on an STM32L475: a small application
(`src/applications`) on the real-time kernel RT-Thread 3.1.4 (`src/rt-thread/src`), with the
context switch of the Cortex-M4 port (`src/rt-thread/libcpu/arm/cortex-m4`). What can go wrong
here in a way no test shows is in the kernel: threads, the tick interrupt, device interrupts and
timeout functions interleave at every point where interrupts are enabled. This directory models
the kernel as it is configured in `src/rtconfig.h`: 32 priorities, 1000 ticks per second, one
timer list level, no soft timers, no signals.

## Inventory

| component | source | state | operations | correct when |
|---|---|---|---|---|
| scheduler | `scheduler.c`, `context_gcc.S` | ready queue per priority, bitmap of non-empty queues, current thread, pending switch, lock nesting | insert, remove, `rt_schedule`, enter and exit critical, PendSV | queues, bitmap and thread states agree; the most urgent thread gets the processor; the registers of the right thread are saved |
| threads | `thread.c` | status, priority, time slice, thread timer, error | create, startup, delay, yield, suspend, resume, change priority, exit, delete, timeout | a thread is on the list its status says, on one only, and is never lost |
| idle thread | `idle.c` | list of closed threads | reap, free | each closed thread is freed, once, and not while it is in use |
| interrupts, tick | `irq.c`, `clock.c`, `drv_common.c` | nesting, tick count | enter, leave, tick | slices count down, timeouts happen |
| timers | `timer.c` | sorted list, timeout, flags of each timer | init, start, stop, control, detach, check | a timer is called at its tick, in order, across the wraparound; a stopped one is not |
| mutex | `ipc.c` | owner, hold, value, saved priority, waiters | take, release, detach | one owner; hand-over and timeout exclude each other; lent priorities are lent and given back |
| semaphore, event, mailbox, message queue | `ipc.c` | value or set or ring, waiters | send and receive with timeouts, control(reset), detach | nothing lost, nothing received twice, in order |
| memory pool, heap | `mempool.c`, `mem.c` | free lists, waiters | alloc, free, realloc | blocks tile the memory and do not overlap; waiters are woken |
| objects, devices | `object.c`, `device.c` | containers, reference counts | init, detach, open, close | counts match opens |
| device IPC, serial | `components/drivers/src`, `serial.c` | completion flag, rings, work queues | wait and done, push and pop | no completion or datum is lost |
| robot | `src/applications` | target velocity | `mobile_robot`, `car_thread` | the last command holds |

The components interact through calls made with interrupts disabled, through the `tlist` node of
a thread, which is on a ready queue, a waiting list or the list of closed threads, and through the
thread timer, whose timeout function runs in the tick interrupt and moves that node. `PROJECT.json`
lists every component, and every hazard of the code at its line with the properties that cover it.

## Plan

1. `Scheduler`: threads, ready queues, context switch, idle thread, tick, device interrupt.
   *Done; all of its safety properties proved.*
2. `Timer`, implementing the abstract `Alarms`. *Done; safety and refinement proved.*
3. `Mutex`. *Done; all properties proved.*
4. `Ipc`, the way threads wait for any other object, and on it `Semaphore`, `Event`, `Mailbox`,
   `MessageQueue`, `MemPool`, `Completion`, `DataQueue`, `WorkQueue` and, on the data queue,
   `Serial`; `Queue` is what the mailbox, the message queue and the data queue promise. `Objects`
   puts them into one specification. *Done; proved, but for the wakeups of the work queue.*
5. `Heap`. *Done; all properties proved.*

What rests on fairness stays with TLC. An extension would begin with what "Not modelled" lists:
delayed works, the rest of the serial driver, the devices.

## Conventions of the models

A region with interrupts disabled is one action, and so is the whole of what an interrupt handler
does with them disabled. Everything between two such regions is a step of a program counter `pc`,
between which any interrupt, or another thread after a switch, takes its steps. Lists are sequences
without repetition (`RtList`). A model value stands for a thread, a timer or a mutex; names,
stacks, hooks and debug output are left out. Definitions called `Mutant...` are wrong versions of
the definition that follows; no action uses them, and each shows that a property notices the error.

## RtList and RtListProof

`Push`, `Enqueue` and `Unlink` are `rt_list_insert_after`, `rt_list_insert_before` (both with the
list head) and `rt_list_remove` of `rtservice.h`. The lemmas say which elements the results hold,
and that they repeat none.

## Scheduler

| model | code |
|---|---|
| `priority_table`, `ready_priority_group` | `rt_thread_priority_table`, `rt_thread_ready_priority_group` |
| `rt_current_thread`, `scheduler_lock_nest`, `thread_defunct` | `rt_current_thread`, `rt_scheduler_lock_nest`, `rt_thread_defunct` |
| `switch_flag`, `switch_from`, `switch_to` | `rt_thread_switch_interrupt_flag`, `rt_interrupt_from_thread`, `rt_interrupt_to_thread` |
| `on_cpu` | the thread whose registers the processor has |
| `waiting` | the suspend list of one semaphore with `RT_IPC_FLAG_FIFO` |
| `timer` | the threads whose thread timer runs; any of them may expire at a tick |
| `isr` | the active interrupt handlers, the innermost first |
| `pc` | where each thread is in a call |

`rt_schedule` sets `rt_current_thread` and asks for PendSV; the action `PendSV` makes the switch
later, when no handler is active. The board gives SysTick the highest priority (`drv_common.c:31`)
and the devices lower ones, so the tick nests on a device handler and nothing nests on the tick.
Calls on other threads (resume, suspend, delete, change of priority) are split where the code
enables interrupts. The kernel does not protect these calls against each other. The model's
callers keep what the code takes for granted: calls on one thread are made one at a time, by a
READY thread more urgent than it, and, unless `DeleteSleeping`, a thread is not deleted while its
timer runs. `SchedulerDelete.cfg` drops the last of them.

Runs:

- `scheduler`: a manager (priority 0), two workers (1), the idle thread (2), the tick and a device
  that releases the semaphore; slices of one and two ticks, priorities changed between 1 and 2,
  one level of the scheduler lock, one thread of static storage. About 300,000 states. Two workers
  of one priority are the least for round robin and for a queue that empties or not; a third
  priority is needed to tell a stale bit of the bitmap from a set one.
- `scheduler_fair`: liveness with a manager, two workers and the idle thread, the tick the only
  interrupt. Both workers may exit or be deleted again and again; one is of static storage, which
  the manager has initialised anew, the other is freed and created anew. About 45,000 states: slices
  are one tick, the workers have the priority of the idle thread, and only the manager makes calls
  on other threads. A device handler that lasts longer than a slice may consume it before the thread runs, so
  with devices round robin does not hold for every handler length. Fairness: the tick keeps coming
  and its handler goes on (WF); PendSV is taken when pending for a thread again and again (SF), and
  if again and again some thread that is in a call, or in a critical section, has the processor, then
  some such thread makes its next step (SF: interrupts interrupt it, and return); the idle thread
  goes on likewise. A thread is not obliged to begin a call.
  `ClosedAreFreed` says: where the idle thread gets the processor again and again, the defunct list
  is empty again and again, or threads close for ever. More the code does not give. The list is last
  in, first out (`thread.c:108`, `idle.c:162`), so a thread that is closed stays there under one that
  is closed, freed, created and closed again for ever, although the idle thread runs in between:
  TLC refutes "whoever is closed is freed some time" in this run.
- `scheduler_delete`: expected violation. `rt_thread_delete` on a sleeping thread, against its
  comment (`thread.c:400`).

## Timer and Alarms

`rt_timer_list` is the one row of the list, `timeout_tick` and `init_tick` the fields of a timer,
`periodic` and `activated` its two flags, `object` the initialised timers. `rt_timer_start` of a
thread is three actions, `Start` (unlinked), `Stamp` (the timeout computed) and `Link` (inserted);
`rt_timer_stop` is `Stop` (flag read), `StopRemove`, `StopFlag`. `rt_timer_check` disables
interrupts for all of its loop: `Expire`, the calls a timeout function makes (`CallStart`,
`CallStop`), `Settle` after it returned, `CheckDone`. A tick count of `TickBits` bits is written
with `%`; the comparison of ticks is the code's, a difference below half of `RT_TICK_MAX`.

`Alarms` has no tick count: each running timer has a number of ticks left, the handler calls the
timers that have none left, the most overdue first, and leaves none of them. `Timer` implements it
(`KeepsPromise`) with the ticks left computed from the wrapped difference.

Assumptions: one thread at a time uses a timer (`Owner`), a timeout function starts only its own
timer or one that no thread uses, `init_tick` is positive and below half the range (asserted in the
code), the periodic flag is changed only while the timer is inactive. A thread is delayed by at
most `MaxLate` ticks inside `rt_timer_start`, and `init_tick + MaxLate` is at most half the range:
one more and a timer is inserted on the wrong side of another.

Runs:

- `timer`: ticks of 3 bits, so that the count wraps every eight ticks and half the range is 3;
  times 1 and 2, a delay of one tick, two threads with a timer each, of which one is deleted and
  initialised again, and a third timer that a timeout function starts. About 210,000 states.
  Fairness: the tick comes, its handler ends, a thread that is in a call continues it.
- `timer_restart`: expected violation. A one-shot timer that its own timeout function starts.

## Mutex

`value`, `owner`, `original_priority`, `hold` and `suspend_thread` are the fields of the mutex;
`taken` is the callers' view, the takes that returned `RT_EOK` and are not released. Both
`rt_mutex_take` up to the suspension and `rt_mutex_release` are one region each, and one action
per outcome. `Timeout` is `rt_thread_timeout` from the tick, `TakeReturns` the thread that runs
again and looks at `thread->error`. Detach wakes the waiters one region at a time. Any thread that
does not wait may take a step; the scheduler, which picks the most urgent, is a special case.

The callers take a second mutex only inside those that `Nests` allows, release in order if
`InOrder`, and take no mutex that is being detached. `hold` is a byte, and `MaxTakes` bounds the
takes.

Runs:

- `mutex`: three threads of three priorities; `inner` taken inside `outer`, `alone` by itself and
  detached by its owner; FIFO and priority lists; up to three takes. About 240,000 states. The
  model allows a thread to release a mutex it does not own, and to time out at any moment.
- `mutex_restore`: expected violation. Two mutexes released in the order they were taken leave the
  thread with a borrowed priority, against the comment in `rt_mutex_release` (`ipc.c:831`).

`OwnerInherits` is stated for mutexes of `RT_IPC_FLAG_PRIO` that are held alone. Of a FIFO mutex
the new owner may be less urgent than those who wait behind it, and inside nested mutexes the
release of the inner one takes back a priority lent for the outer one.

Detach is made while nobody waits with a timeout; see `BusyDetach` below.

## Ipc and the objects that threads wait for

`Ipc` has what the calls of `ipc.c`, `mempool.c`, `completion.c`, `dataqueue.c` and `workqueue.c`
share. `suspended` are the two suspend lists an object may have, `error` and `timed` the error and
the running timer of each thread, `pc` where a thread is in a call, what is left of its timeout
("ticks", "forever" or none) and what it has in its hands: a value to send, an item, what it
received. `object` is the life of the object. The loop of the calls that wait is `Blocks` (it is
suspended), `BlocksAgain` (it was woken, and somebody was faster: it returns if nothing is left of
its timeout), `Fails` (it returns `thread->error`), and in each module an action that goes on.
`Timeout` is `rt_thread_timeout`, `ListResume` `rt_ipc_list_resume`, and `Detach`, `DetachTest`,
`DetachResume`, `DetachEnds` are detach and delete, with the test of the list outside the region
that resumes a waiter, as in `rt_ipc_list_resume_all`.

| module | code | state |
|---|---|---|
| `Semaphore` | `rt_sem_*` | `value`; `balance` is auxiliary: tokens put in and not taken out |
| `Event` | `rt_event_*` | `set`; the waiter's `event_set` and `event_info` are in its `pc` |
| `Mailbox` | `rt_mb_*` | `msg_pool`, `entry`, `in_offset`, `out_offset` |
| `MessageQueue` | `rt_mq_*` | the free list and the queue, linked by `next`; `entries` is `entry` |
| `MemPool` | `rt_mp_*` | `block_list`, the two counts; `allocated` is the callers' view |
| `Completion` | `rt_completion_*` | `flag` |
| `DataQueue` | `rt_data_queue_*` | `ring` and its two indices, which are not taken modulo its size |
| `Serial` | `serial.c` | `activated` and `dma`, what the DMA sends; `buffer`, `rx_put`, `rx_get`, `is_full` of the receive ring, and `expected`, auxiliary: the characters a reader should find |
| `WorkQueue` | `_workqueue_*` | `work_list`, `work_current`, `pending`; `rt_thread_suspend` puts the work thread on no list, and its place on the second list stands for that |

The objects share nothing but the threads, and a thread waits for one of them at a time.
`Objects` is therefore the sum of the modules: the variable `kind` says which of them a behaviour
is about, and the variables of the others do not change. One run covers them all, and `Ipc` with
its properties is checked under each of them.

The abstract `Queue` has a bounded sequence and, for each thread, the value it has received and not
returned with. `MailboxIsQueue` maps the values between the offsets of the ring, `MessagesAreQueue`
the contents of the linked items, `DataQueueIsQueue` the values between the indices. An item that
a sender fills is in no queue yet, one that a receiver copies out is in its hands: a call that
overwrote it there would be no step of `Queue`.

Runs:

- `objects`: three threads, one of them more urgent; two values, rings, items and blocks of two,
  so that two senders wait at once and an item is used again while another is in a thread's hands;
  two events with waiters that want both, any or one of them, and clear them or not; a receive
  ring of three, which DMA blocks of one to three characters overtake. About 720,000 states.
  `NoLostWakeup` is one property for all of them: for what is there while threads wait, as many
  threads have been woken. Deadlock is not checked: a system whose object is gone has stopped, and
  threads may all wait.
- `pool_timeout`: expected violation. A timed-out `rt_mp_alloc` stays counted in
  `suspend_thread_count`, against its comment (`rtdef.h:764`). In `objects` timeouts of the pool
  happen too; there a behaviour ends where `rt_mp_free` would take the list head for a thread.
- `workqueue_empty`: expected violation. With two clients the work thread is resumed for a work
  that is not there any more, against the comment in `_workqueue_thread_entry`
  (`workqueue.c:68`). With one client, as in `objects`, `WorkToDo` holds as part of `NoLostWakeup`.
- `serial_tx_race`: expected violation. `_serial_dma_tx` starts the DMA with its own data in
  another region than its push, against the comment in the interrupt (`serial.c:1220`):
  `DmaSendsFirst` fails. The push, the mark and the start are three steps in `objects` too, where
  other writers and ends of transfers come between them; what does hold there, and is part of
  `NoLostWakeup`, is that nothing queued is forgotten: the DMA sends, or a writer is about to
  look at the mark or to start it.

What the callers keep in `objects`, each a constant, and what happens without it:

- `BusyDetach = FALSE`: an object is detached, and a data queue reset, while every other thread is
  outside a call or waits for ever. Otherwise a timeout, or a handler that pushes, empties the list
  between the test and the region, and the list head is taken for a thread.
- `MaxPut`: the indices of a data queue, 16 bits wide, do not wrap. When `put_index` has wrapped
  and `get_index` has not, their difference as an int is negative, the queue never looks full, and
  a push overwrites an item: with `MaxPut = IndexRange - 1` TLC refutes `DataQueueIsQueue`.
- `WorkerFirst = TRUE`: the work thread is more urgent than its client. Otherwise a submission
  between its look at the list and its suspension is not noticed, and `NoLostWakeup` fails.
- One client of the work queue: with two, the run `workqueue_empty`.
- `MaxValue`, `MaxWaits`: bounds, of the semaphore's value and of `suspend_thread_count`.

A serial device has a data queue of 8 with a low water mark of 4; the run has 2 and 0, where a
thread that waits to push is woken only by the last pop.

## Heap

`heap` maps the offset of each block to its header (`next`, `prev`, `used`), `lfree` is the offset
where a search begins, `used_mem` the counter, and `live` the callers' view: the requests that were
met. A call holds `heap_sem` from its first to its last look at the heap and is one action;
`rt_realloc` that moves a block is three (`Expand`, `ExpandMalloc`, `ExpandFree`), between which
the other thread allocates and frees. Offsets and sizes are in units of the alignment. Callers give
back what they got, once, and not while they reallocate it.

- `heap`: 12 units and a header of one, requests of 1 to 5, two threads: up to four blocks, every
  order of splitting, near fit and joining on both sides. About 990,000 states up to the symmetry
  of the threads, which is sound as nothing else names them.

`Tiled` is what `plug_holes` and the comment in `rt_malloc` say of the chain of blocks. `lfree` is
called the lowest free block (`mem.c:118`), and is not after a shrinking `rt_realloc`; `Tiled` says
what is true, that it is free or the end. An exact fit at the very end of the heap is not found
(`mem.c:293` compares with `<`), which costs memory and breaks none of the properties.

## What is proved

The theorems hold for every value of the constants that satisfies the named assumptions of the
modules (`SchedulerAssumption`, `TimerAssumption`, `MutexAssumption`, `HeapAssumption`, `IpcAssumption`
and those of the objects): any threads, priorities, timers, mutexes, sizes. Where a theorem has a hypothesis of its own, it is an
obligation of the callers that the code does not enforce, and mostly one that a run which expects
a violation shows to be needed. Every invariant was checked with TLC before it was proved.

`RtListProof` has the facts about lists: what `Insert`, `Remove`, `RemoveAt` and `InsertAt` contain,
in which order, that they repeat nothing, and that `Min` of a set of naturals is in it (from the
well-foundedness of `<`, in the form with a set instead of a predicate).

**Scheduler.** `SchedulerProof` has the parts that need little:

- `TypeCorrect`: `Spec => []TypeOK`. The inductive invariant `TypeInv` adds `CallsOnThreads`: a
  thread that is in the middle of a call on another one names a thread, and not `Nobody`, which the
  type of `pc` alone does not say and the steps that use it need.
- `SwitchCorrect`: `Spec => []SwitchSavesRunner`. The invariant is inductive over `TypeInv`: of the
  steps only `Schedule` and `PendSV` touch the pending switch (`ScheduleSaves`).
- `LockCorrect`: `Spec => LockKeepsProcessor`. The step property follows from the invariant
  `LockInv`: while the scheduler is locked no switch is pending, and a thread is current.

`SchedulerListProof` has the lists, under `~DeleteSleeping` (the run `scheduler_delete` shows what
happens without): `ListsCorrect`, `NoneLost`, `BitmapCorrect`, `DispatchCorrect`, `FreedCorrect`
and `ClosedCorrect` all follow from one inductive invariant `ListInv`, as none of them is inductive
alone: where a node is linked depends on which call is moving it, whether the bitmap is right on
who is between the two regions of `rt_thread_resume`, and whether a freed thread is still in use on
who is on the processor. `ListInv` is `Structure`, what links what, and `Running`, who may be in the
middle of a call. `SwitchesInTime` (`NoScheduleOwed`) needs `NoDebt` on top: whatever makes a thread
ready that is more urgent than the one on the processor is followed by a schedule, which the steps
of a call or of a handler in between still owe. `OrderCorrect` (`NoOvertaking`) goes through the
steps once more: taking a node off a queue leaves the order of the others (`UnlinkOrder`), one at
the end overtakes nobody (`EnqueueOrder`), and `ListInv` says that whoever is made ready was on no
queue before, so that only a yield, the end of a slice and a new priority move a thread back.

**Timer.** `TimerInv` (type, `Working`, `Handler`) says who works on which timer;
`TypeCorrect` follows. `FlagsCorrect` (`ActiveMeansLinked`) has the invariant `Flags` and the
hypothesis `RestartsPeriodic`, that a timeout function starts its own timer only if that is periodic
anyway; `timer_restart` is the counterexample without. `PromiseKeeping` is the refinement
`Spec => Promise!Spec`: the invariant `Clocks` bounds the distance of every timeout to the tick and
keeps the list sorted by it, so that the comparison of wrapped counts is the comparison of the
ticks left; then each step is a step of `Alarms` or a stutter, one lemma per action. `TiesCorrect`
(`TiesInOrder`) has the hypothesis `StartsOthers`, that no timeout function starts its own timer.

**Mutex.** `Owners` is the inductive invariant: who waits is on one list, the takes of a thread
that returned and the one it is about to return from add up to `hold`, an end of a wait is seen
once. `TypeCorrect`, `OwnerCorrect` (`TakersOwn`) and `WaitCorrect` (`WaitEndsOnce`) follow from it.
`InheritCorrect` (`OwnerInherits`) needs `Inherits`: the waiting list is sorted, and the priority of
the owner of a mutex held alone is no one else's business. `RestoreCorrect` (`PriorityRestored`) and
`TurnsCorrect` (`PassedInTurn`) need `Saved`, that the mutex a thread took first has saved the
priority it was given, which holds only where mutexes are released in reverse order (`InOrder`);
`mutex_restore` is the counterexample without.

**Heap.** `HeapInv` is inductive: `Chain` (the blocks are linked in both directions, which
`Tiled` says only of one and of the neighbours that are read), `Apart`, `Start` (of `lfree`), `Met`
(of the requests) and `Moving` (a thread in `rt_realloc` has its block still). The lemmas say what
`Split`, `Merge` and `PlugHoles` do to a chain in which one free block may have free neighbours;
`PlugsForward` and `PlugsBackward` are the two halves of `plug_holes`. `CountOne` is why `used_mem`
comes out: what a request takes is disjoint from what the others take. `TypeCorrect`,
`TilesCorrect`, `BlocksCorrect` and `CountCorrect` are the four properties of the run `heap`.

**Objects.** `IpcProof` is about a semaphore, a memory pool and a mailbox (`kind` of `Objects`).
`WaitInv` is what every call keeps of the waiting threads: a thread is on one list at most and once,
has no error while it is on it, and its timer runs only then. The last two are what a race of a
timeout with a release turns on: a thread that is off the lists has been woken for good or has its
error. One lemma per kind of step (`WaitKeeps`, `LeaveKeeps`, `CallReturns`, `ResumeWakes`,
`ResumeGoes`) says what becomes of the lists and of the threads that have been woken and have not
run, `Arriving`; the steps that hand out nothing (a timeout, a reset, all of a detach) are `Quiet`.
`TokensCorrect`, `BlocksCorrect` and `WakeupsCorrect` follow from the invariants `SemInv`, `PoolInv`
and `MbInv`. That of the pool says that `suspend_thread_count` is no less than the number of waiters
(the run `pool_timeout` shows that it can be more), which is what `rt_mp_free` needs to wake one.
`DetachCorrect` has the hypothesis `~BusyDetach`; `DetachInv` follows the thread that
detaches, and says that whoever else is in a call waits without a timer or has its error.
`MailCorrect` is the refinement of `Queue`: the values between the offsets are a sequence
(`MailsAre`, where `%` is a subtraction at most), storing one appends to it (`StoreRing`), taking one
takes its head (`TakeRing`), and each step of `MbNext` is a step of `Queue` or a stutter.

`ObjectsProof` has the other objects and what is said of all of them, on the same `WaitInv`. Its
theorems use two conditions: `Early`, that no index of a data queue wraps
(`MaxPut + 1 < IndexRange`), and `~BusyDetach`. What happens without each of them is said above,
under `objects`.

- `TypeCorrect` (`TypeOK`) has no condition. Most of it is part of the invariants below; where those
  need one, there is a weaker invariant that does not: `CarryInv`, by which what a thread pushes or
  has popped is a value, also after an index has wrapped, and `WorkTypes`. `RestTypes` says that
  the variables of the other objects do not change.
- `ReceiveCorrect` (`RxKeepsLatest`): `RxInv` puts the i-th expected character at the place that is
  i - 1 behind `rx_get`, round the ring, and says when `is_full` may be set, which differs between
  the interrupt and the DMA. The lemmas are about the arithmetic of places: `%` is there a
  subtraction or addition at most.
- `DataQueueCorrect` (`DataQueueIsQueue`): `DqInv` has the order of the two indices, at most
  the size of the ring apart (`DqOrder`, which is where `Early` is needed), and that values lie
  between them. Each step is one of `Queue` or a stutter, the pushes of an interrupt and the reset
  too.
- `ItemsCorrect` and `MessagesCorrect` (`ItemsConserved`, `MessagesAreQueue`). `From` follows `next`
  recursively; `Chain(next, i, q)` says step by step that `q` is what one finds from `i` on, and the
  two agree for a `q` without repetition (`FromIs`; the least place where they do not would
  contradict the one before). Linking an item at either end, taking one off and the reset, which
  moves all of the queue to the free list, are lemmas about chains. `MqInv` then is `MqLists` (there
  are two chains, disjoint), `MqOwned` (what is in neither is in the hands of exactly one thread),
  `MqPcOK` and `MqWakeOK`. Texts of linked items are the abstract queue, and no step writes to an
  item that another thread has in its hands.
- `EventsCorrect` (`EventsTakenOnce`): the walk of `rt_event_send` is a recursive function of the
  number of waiters it has visited. `WalkOK(w, i)` is what is true after i of them: who is still on
  the list, what each that was resumed has received, what is left of the set. It holds for every i,
  or there would be a least one for which it does not (`WalkIsOK`), and the next visit
  contradicts that.
- `MessageWakeupsCorrect` (`NoLostWakeup`) is about the kinds of objects that need no condition, the
  event, the message queue and the completion among them. `QueueWakeupsCorrect` adds, under `Early`,
  the data queue and the transmission of a serial device. `TxInv` has `TxOrder` on top of `DqInv`:
  the DMA is marked exactly while it sends or one thread is about to start it, and while it is not
  marked the queue is empty or somebody has pushed and not yet looked at the mark. That is inductive
  over every race of writers with ends of transfers, although what the DMA sends then may not be
  the first of the queue. The theorem leaves out the work queue: there a wakeup can be lost, and
  is lost but for the conditions under which `objects` checks it.
- `AllDetachCorrect` (`DetachWakesAll`) extends `DetachCorrect` to all kinds: `DetachInv` for those that
  are detached or reset (with `MqCalm`, that nobody fills an item of a message queue then), and
  `LastingInv` for those that nothing detaches.

Every safety property of a passing run, the refinements of `Alarms` and `Queue` included, is stated by
a theorem, `NoLostWakeup` with the exception of the work queue. Only model-checked are that part of
it, for one client and a more urgent worker, and what rests on fairness, as the proof system does
not reason about ENABLED: `TopThreadsShare`, `ClosedAreFreed` (the run `scheduler_fair`) and
`EveryTimerEnds` of the timers.

## Hazards that no property catches

Of the hazards in `PROJECT.json` these have no property, for the reason that stands beside each
there. The models leave the case to the callers, where nothing in the code prevents it: one timer
started by two (`timer.c:310`), the flag of a running timer changed (`timer.c:476`), delays beyond half
the range (`thread.c:544`), the 256th recursive take (`ipc.c:682`), a timeout inside a detach
(`ipc.c:161`), the 65536th release (`ipc.c:459`), the wrap of a data queue's index (`dataqueue.c:66`),
a work queue whose worker is not more urgent than its client (`workqueue.c:61`). Or the models have
the behaviour, and the code does not do what one might wish: the loan lost by the release of an inner
mutex (`ipc.c:831`), the completion lost to a timeout (`completion.c:88`), and `lfree` above a free
block (`mem.c:458`), which alone a comment contradicts (`mem.c:118`, see Heap). The state of the
application (`car.c:81`) is in a submodule whose directory is empty.

## Not modelled

Soft timers, signals, modules, the skip list above one level and priorities above 32 are not
compiled. `rt_tick_set` has no caller in what is compiled (only the power manager calls it). Stack
checks, hooks, object names and debug output have no effect on the properties. The board's drivers
and the HAL enter as a device interrupt. The chassis library of the robot
(`src/packages/rt-robot-latest`) is an empty submodule: the state and the logic of the application
are in it, and what is left in `src/applications` only calls it.

Of the device IPC the pipe, the wait queue and the ring buffers are left out, and the delayed works
of the work queue, whose timer submits from the tick interrupt; so are the callbacks of the data
queue. Of the serial driver opening, closing, control, polling and transmission by interrupt are
left out. Devices and kernel objects (`device.c`, `object.c`) keep reference counts and lists of
names; other modules use what matters of them, that an object is gone.
