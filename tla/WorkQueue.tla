----------------------------- MODULE WorkQueue -----------------------------
(***************************************************************************)
(* The work queues of src/rt-thread/components/drivers/src/workqueue.c: a   *)
(* thread of their own does the works that others submit.  rt_thread_suspend *)
(* puts that thread on no list: that it is on the list of the senders says   *)
(* that it is suspended.  The other list is the one of the semaphore.        *)
(***************************************************************************)
EXTENDS Ipc

CONSTANTS
    Work,
    Worker,         \* work_thread
    Clients,        \* the threads that submit and cancel
    WorkerFirst     \* whether the worker is more urgent than every client

ASSUME WorkAssumption ==
    /\ Worker \in Thread /\ Clients \subseteq Thread \ {Worker}
    /\ WorkerFirst \in BOOLEAN /\ Nothing \notin Work

VARIABLES work_list, work_current,
          pending       \* the works whose flags have RT_WORK_STATE_PENDING

workVars == <<work_list, work_current, pending>>

WorkInit == work_list = <<>> /\ work_current = Nothing /\ pending = {}

Sleeps == Worker \in ToSet(suspended[Senders])

\* t gets the processor: a more urgent worker has nothing to do, or its work waits.
Runs(t) == WorkerFirst => Sleeps \/ pc[Worker].at = "doing"

-----------------------------------------------------------------------------
\* _workqueue_thread_entry: the list is looked at...
WorkTest ==
    /\ At(Worker, "run")
    /\ Goto(Worker, IF work_list = <<>> THEN "sleep" ELSE "take", Nothing)
    /\ UNCHANGED <<suspended, timed, object, workVars>>

\* ...and the thread is suspended, until somebody resumes it...
WorkSleep ==
    /\ At(Worker, "sleep")
    /\ Wait(Worker, Senders, <<Worker>>, "take", Nothing, "forever")
    /\ UNCHANGED <<object, workVars>>

\* ...and takes the first work.  The head of an empty list is no work.
WorkTake ==
    /\ At(Worker, "take") /\ work_list # <<>>
    /\ work_current' = Head(work_list)
    /\ work_list' = Tail(work_list)
    /\ pending' = pending \ {Head(work_list)}
    /\ Goto(Worker, "doing", Nothing)
    /\ UNCHANGED <<suspended, timed, object>>

WorkDone ==
    /\ At(Worker, "doing")
    /\ work_current' = Nothing
    /\ Goto(Worker, "done", Nothing)
    /\ UNCHANGED <<suspended, timed, object, work_list, pending>>

\* _workqueue_work_completion: the semaphore is released until nobody waits for it and
\* it can be taken.
WorkCompletion ==
    /\ At(Worker, "done")
    /\ suspended' = [suspended EXCEPT ![Receivers] = <<>>]
    /\ Return(Worker)
    /\ UNCHANGED <<timed, object, workVars>>

-----------------------------------------------------------------------------
\* _workqueue_submit_work; -RT_EBUSY changes nothing.
WorkSubmit(t, w) ==
    /\ May(t) /\ Runs(t)
    /\ w \notin pending /\ work_current # w
    /\ work_list' = Enqueue(Unlink(work_list, w), w)
    /\ pending' = pending \cup {w}
    /\ IF work_current = Nothing THEN Goto(t, "submitted", Nothing) ELSE UNCHANGED <<error, pc>>
    /\ UNCHANGED <<suspended, timed, object, work_current>>

\* With interrupts enabled: rt_thread_resume, if the thread is suspended.
WorkResume(t) ==
    /\ At(t, "submitted") /\ Runs(t)
    /\ suspended' = [suspended EXCEPT ![Senders] = Unlink(@, Worker)]
    /\ Return(t)
    /\ UNCHANGED <<timed, object, workVars>>

\* _workqueue_cancel_work, and rt_workqueue_cancel_work_sync of another work than the
\* current one
WorkCancel(t, w) ==
    /\ May(t) /\ Runs(t)
    /\ work_current # w
    /\ work_list' = Unlink(work_list, w)
    /\ pending' = pending \ {w}
    /\ UNCHANGED <<ipcVars, work_current>>

\* rt_workqueue_cancel_work_sync of the current work: interrupts stay disabled in
\* rt_sem_take, and the thread is switched when its flags are cleared.
WorkCancelWaits(t, w) ==
    /\ Runs(t)
    /\ Blocks(t, Receivers, Enqueue(suspended[Receivers], t), "cancelling", w, {"forever"},
              work_current = w)
    /\ pending' = pending \ {w}
    /\ UNCHANGED <<work_list, work_current>>

WorkCancelReturns(t) ==
    /\ Woken(t, "cancelling") /\ Runs(t)
    /\ Return(t)
    /\ UNCHANGED <<suspended, timed, object, workVars>>

WorkNext ==
    \/ WorkTest \/ WorkSleep \/ WorkTake \/ WorkDone \/ WorkCompletion
    \/ \E t \in Clients :
          \/ WorkResume(t) \/ WorkCancelReturns(t)
          \/ \E w \in Work : WorkSubmit(t, w) \/ WorkCancel(t, w) \/ WorkCancelWaits(t, w)

WorkSpec == IpcInit /\ WorkInit /\ [][WorkNext]_<<ipcVars, workVars>>

-----------------------------------------------------------------------------
(* Properties.                                                             *)

WorkTypeOK ==
    /\ work_list \in Seq(Work) /\ pending \subseteq Work
    /\ work_current \in Work \cup {Nothing}

\* _workqueue_thread_entry: "we have work to do with", when the thread takes the first
\* work of the list without another look whether there is one.
WorkToDo == pc[Worker].at = "take" /\ ~Sleeps => work_list # <<>>

\* The thread does not sleep while there is work that nobody is about to resume it for,
\* and is not woken without any; who waits for the current work to end will be told.
WorkNoLostWakeup ==
    /\ Sleeps => work_list = <<>> \/ \E t \in Clients : pc[t].at = "submitted"
    /\ WorkToDo
    /\ suspended[Receivers] # <<>> => pc[Worker].at \in {"doing", "done"}

=============================================================================
