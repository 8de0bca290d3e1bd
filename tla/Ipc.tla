-------------------------------- MODULE Ipc --------------------------------
(***************************************************************************)
(* How the threads of RT-Thread wait for an object that is not a mutex     *)
(* (src/rt-thread/src/ipc.c, mempool.c, components/drivers/src): what the  *)
(* calls of the semaphore, the event, the mailbox, the message queue, the  *)
(* memory pool and the device queues have in common.  The modules of these *)
(* objects extend this one.                                                *)
(*                                                                         *)
(* A region with interrupts disabled is one action, and any thread that    *)
(* does not wait may run.  The objects share nothing, and a thread waits   *)
(* for one of them at a time: there is one object.  A call that neither    *)
(* waits nor is split into several regions is not tied to a thread: an     *)
(* interrupt handler may make it too.  A call that fails at once, with a   *)
(* timeout of 0, changes nothing and is no action.                         *)
(***************************************************************************)
EXTENDS RtList, FiniteSetsExt

CONSTANTS
    Thread, Nothing,
    Value,          \* what threads send each other
    Priority,       \* a smaller number is more urgent
    PrioFlag,       \* whether the object is RT_IPC_FLAG_PRIO, or FIFO
    BusyDetach      \* whether an object is detached, or a data queue reset, while a call
                    \* of another thread goes on or waits with a timeout

ASSUME IpcAssumption ==
    /\ IsFiniteSet(Thread) /\ Nothing \notin Thread \cup Value
    /\ Priority \in [Thread -> Nat]
    /\ PrioFlag \in BOOLEAN /\ BusyDetach \in BOOLEAN

VARIABLES
    suspended,      \* the suspend lists of the object
    error,          \* of each thread; forgotten when the call returns
    timed,          \* the threads whose timer runs
    pc,             \* where each thread is in a call, what is left of its timeout,
                    \* and what it has in its hands
    object          \* "live", "locked" (while the scheduler is), "detaching", "gone"

Receivers == "suspend_thread"           \* of struct rt_ipc_object
Senders == "suspend_sender_thread"      \* of struct rt_mailbox, for one
List == {Receivers, Senders}

waitVars == <<suspended, error, timed, pc>>
ipcVars == <<waitVars, object>>

Running == [at |-> "run", timeout |-> "none", arg |-> Nothing]

IpcInit ==
    /\ suspended = [l \in List |-> <<>>]
    /\ error = [t \in Thread |-> "ok"]
    /\ timed = {}
    /\ pc = [t \in Thread |-> Running]
    /\ object = "live"

-----------------------------------------------------------------------------
Waiters == UNION {ToSet(suspended[l]) : l \in List}

At(t, step) == pc[t].at = step /\ t \notin Waiters /\ object # "locked"

\* t is free to make a call.
May(t) == At(t, "run") /\ object = "live"

\* t goes on with its call where it has been woken, with RT_EOK or with an error.
Woken(t, step) == At(t, step) /\ error[t] = "ok"

\* Who has been woken with RT_EOK and has not run since.
Arriving(step) ==
    {t \in Thread : pc[t].at = step /\ t \notin Waiters /\ error[t] = "ok"}

Goto(t, step, arg) ==
    /\ pc' = [pc EXCEPT ![t] = [at |-> step, timeout |-> "none", arg |-> arg]]
    /\ error' = [error EXCEPT ![t] = "ok"]

Return(t) ==
    /\ pc' = [pc EXCEPT ![t] = Running]
    /\ error' = [error EXCEPT ![t] = "ok"]

-----------------------------------------------------------------------------
(* The lists.  (A "Mutant" is a wrong version of the definition after it;   *)
(* no action uses one.)                                                     *)

\* rt_ipc_list_suspend: behind every waiter, or in front of the first that is less
\* urgent.
ListSuspend(t, l) ==
    LET later == {i \in DOMAIN suspended[l] :
                    PrioFlag /\ Priority[t] < Priority[suspended[l][i]]}
    IN  IF later = {} THEN Enqueue(suspended[l], t)
                      ELSE InsertAt(suspended[l], Min(later), t)

\* t is suspended on l, which becomes list, and its timer is started.
Wait(t, l, list, step, arg, timeout) ==
    /\ error' = [error EXCEPT ![t] = "ok"]
    /\ suspended' = [suspended EXCEPT ![l] = list]
    /\ timed' = IF timeout = "ticks" THEN timed \cup {t} ELSE timed
    /\ pc' = [pc EXCEPT ![t] = [at |-> step, timeout |-> timeout, arg |-> arg]]

\* rt_ipc_list_resume: rt_thread_resume of the first waiter stops its timer.
MutantListResume(l) ==      \* it does not
    /\ suspended' = [suspended EXCEPT ![l] = Tail(@)]
    /\ UNCHANGED timed
ListResume(l) ==
    /\ suspended' = [suspended EXCEPT ![l] = Tail(@)]
    /\ timed' = timed \ {Head(suspended[l])}

ResumeIfAny(l) ==
    IF suspended[l] = <<>> THEN UNCHANGED <<suspended, timed>> ELSE ListResume(l)

\* rt_ipc_list_resume_all inside a region (RT_IPC_CMD_RESET).
ListResumeAll ==
    /\ suspended' = [l \in List |-> <<>>]
    /\ error' = [t \in Thread |-> IF t \in Waiters THEN "error" ELSE error[t]]
    /\ timed' = timed \ Waiters

\* The tick interrupt finds that t has waited long enough: rt_thread_timeout.
Timeout(t) ==
    /\ t \in timed
    /\ timed' = timed \ {t}
    /\ error' = [error EXCEPT ![t] = "timeout"]
    /\ suspended' = [l \in List |-> Unlink(suspended[l], t)]
    /\ UNCHANGED <<pc, object>>

-----------------------------------------------------------------------------
(* The loop of the calls that wait: while it is blocked the thread is       *)
(* suspended, for what is left of its timeout.                              *)

\* The first time...
Blocks(t, l, list, step, arg, timeouts, blocked) ==
    /\ May(t) /\ blocked
    /\ \E timeout \in timeouts : Wait(t, l, list, step, arg, timeout)
    /\ UNCHANGED object

\* ...and again, when it was woken and somebody else was faster.
Left(t) == IF pc[t].timeout = "ticks" THEN {"none", "ticks"} ELSE {pc[t].timeout}

BlocksAgain(t, l, list, step, blocked) ==
    /\ Woken(t, step) /\ blocked
    /\ \E left \in Left(t) :
          IF left = "none" THEN Return(t) /\ UNCHANGED <<suspended, timed>>
                           ELSE Wait(t, l, list, step, pc[t].arg, left)
    /\ UNCHANGED object

\* The call returns thread->error.
Fails(t, step) ==
    /\ At(t, step) /\ error[t] # "ok"
    /\ Return(t)
    /\ UNCHANGED <<suspended, timed, object>>

-----------------------------------------------------------------------------
(* rt_sem_detach, rt_mb_delete and the like: rt_ipc_list_resume_all outside *)
(* a region looks whether a list is empty before it disables interrupts.    *)
(* Nobody makes a call any more, and what a thread does that is still in    *)
(* one is what it did before.                                               *)

Idle(u) == pc[u].at = "run" \/ (u \in Waiters /\ pc[u].timeout = "forever")

Detach(t, status) ==
    /\ May(t)
    /\ BusyDetach \/ \A u \in Thread : Idle(u)
    /\ object' = status
    /\ Goto(t, "test", Receivers)
    /\ UNCHANGED <<suspended, timed>>

Tests(t) == pc[t].at = "test" /\ t \notin Waiters

DetachTest(t) ==
    /\ Tests(t)
    /\ IF suspended[pc[t].arg] # <<>>
       THEN Goto(t, "resume", pc[t].arg)
       ELSE pc[t].arg = Receivers /\ Goto(t, "test", Senders)
    /\ UNCHANGED <<suspended, timed, object>>

DetachResume(t) ==
    /\ pc[t].at = "resume" /\ suspended[pc[t].arg] # <<>>
    /\ error' = [error EXCEPT ![Head(suspended[pc[t].arg])] = "error"]
    /\ ListResume(pc[t].arg)
    /\ pc' = [pc EXCEPT ![t].at = "test"]
    /\ UNCHANGED object

\* rt_object_detach; or, of a locked scheduler, rt_exit_critical.
MutantDetachEnds(t, status) ==      \* the second list is forgotten
    /\ Tests(t)
    /\ suspended[pc[t].arg] = <<>>
    /\ object' = status
    /\ Return(t)
    /\ UNCHANGED <<suspended, timed>>
DetachEnds(t, status) ==
    /\ Tests(t)
    /\ pc[t].arg = Senders /\ suspended[Senders] = <<>>
    /\ object' = status
    /\ Return(t)
    /\ UNCHANGED <<suspended, timed>>

Removed(t) ==
    Detach(t, "detaching") \/ DetachTest(t) \/ DetachResume(t) \/ DetachEnds(t, "gone")

-----------------------------------------------------------------------------
(* Properties of every object.                                              *)

IpcTypeOK ==
    /\ suspended \in [List -> Seq(Thread)]
    /\ error \in [Thread -> {"ok", "timeout", "error"}]
    /\ timed \subseteq Waiters
    /\ \A t \in Thread : pc[t].timeout \in {"none", "ticks", "forever"}
    /\ object \in {"live", "locked", "detaching", "gone"}

\* "wakeup all suspend threads": when an object is detached no thread waits for it any
\* more, on either list, and the calls of those that did fail.  Whoever resumes a
\* waiter ("get next suspend thread") finds one: no timeout and no call empties the
\* list after it was looked at and before interrupts are disabled.
DetachWakesAll ==
    /\ object = "gone" =>
          \A t \in Thread : t \notin Waiters /\ (pc[t].at = "run" \/ error[t] = "error")
    /\ \A t \in Thread : pc[t].at = "resume" => suspended[pc[t].arg] # <<>>

=============================================================================
