----------------------------- MODULE Completion -----------------------------
(***************************************************************************)
(* The completions of src/rt-thread/components/drivers/src/completion.c,    *)
(* with which a driver waits for its interrupt.                             *)
(***************************************************************************)
EXTENDS Ipc

VARIABLE flag       \* whether it is RT_COMPLETED

CompletionInit == flag = FALSE

-----------------------------------------------------------------------------
CompletionWait ==
    /\ object = "live" /\ flag
    /\ flag' = FALSE
    /\ UNCHANGED ipcVars

\* "only one thread can suspend on complete"
CompletionWaits(t) ==
    /\ suspended[Receivers] = <<>>
    /\ Blocks(t, Receivers, Enqueue(suspended[Receivers], t), "awaiting", Nothing,
              {"ticks", "forever"}, ~flag)
    /\ UNCHANGED flag

\* The flag is cleared whatever has woken the thread, a timeout too.
CompletionReturns(t) ==
    /\ At(t, "awaiting")
    /\ flag' = FALSE
    /\ Return(t)
    /\ UNCHANGED <<suspended, timed, object>>

\* rt_completion_done looks at the flag before it disables interrupts.
CompletionTest(t) ==
    /\ May(t) /\ ~flag
    /\ Goto(t, "completing", Nothing)
    /\ UNCHANGED <<suspended, timed, object, flag>>

CompletionDone(t) ==
    /\ At(t, "completing")
    /\ flag' = TRUE
    /\ ResumeIfAny(Receivers)
    /\ Return(t)
    /\ UNCHANGED object

CompletionNext ==
    \/ CompletionWait
    \/ \E t \in Thread :
          \/ CompletionWaits(t) \/ CompletionReturns(t)
          \/ CompletionTest(t) \/ CompletionDone(t)
          \/ Timeout(t) /\ UNCHANGED flag

CompletionSpec == IpcInit /\ CompletionInit /\ [][CompletionNext]_<<ipcVars, flag>>

-----------------------------------------------------------------------------
\* Nobody waits for what is completed.
CompletionNoLostWakeup == suspended[Receivers] # <<>> => ~flag

=============================================================================
