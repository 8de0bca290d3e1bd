----------------------------- MODULE Semaphore -----------------------------
(***************************************************************************)
(* The semaphores of src/rt-thread/src/ipc.c.  A release hands its token   *)
(* to the first waiter, and counts it only when nobody waits.              *)
(***************************************************************************)
EXTENDS Ipc

CONSTANT MaxValue       \* bound: of value, which is 16 bits wide and not checked

ASSUME SemAssumption == MaxValue \in 1 .. 65535

VARIABLES
    value,
    balance     \* auxiliary: what rt_sem_init or a reset put in, and the releases,
                \* less the takes that returned RT_EOK

semVars == <<value, balance>>

SemInit == value = 1 /\ balance = 1

-----------------------------------------------------------------------------
\* rt_sem_take and rt_sem_trytake of a token that is there.
SemTake ==
    /\ object = "live" /\ value > 0
    /\ value' = value - 1
    /\ balance' = balance - 1
    /\ UNCHANGED ipcVars

SemTakeWaits(t) ==
    /\ Blocks(t, Receivers, ListSuspend(t, Receivers), "taking", Nothing,
              {"ticks", "forever"}, value = 0)
    /\ UNCHANGED semVars

\* The token is the thread's already.
SemTakeReturns(t) ==
    /\ Woken(t, "taking")
    /\ balance' = balance - 1
    /\ Return(t)
    /\ UNCHANGED <<suspended, timed, object, value>>

SemTakeFails(t) == Fails(t, "taking") /\ UNCHANGED semVars

SemRelease ==
    /\ object = "live"
    /\ \/ /\ suspended[Receivers] # <<>>
          /\ ListResume(Receivers)
          /\ UNCHANGED value
       \/ /\ suspended[Receivers] = <<>>
          /\ value < MaxValue
          /\ value' = value + 1
          /\ UNCHANGED <<suspended, timed>>
    /\ balance' = balance + 1
    /\ UNCHANGED <<error, pc, object>>

\* rt_sem_control(RT_IPC_CMD_RESET).  Who has been given a token keeps it.
SemReset ==
    /\ object = "live"
    /\ ListResumeAll
    /\ \E v \in 0 .. MaxValue :
          value' = v /\ balance' = v + Cardinality(Arriving("taking"))
    /\ UNCHANGED <<pc, object>>

SemNext ==
    \/ SemTake \/ SemRelease \/ SemReset
    \/ \E t \in Thread :
          \/ SemTakeWaits(t) \/ SemTakeReturns(t) \/ SemTakeFails(t)
          \/ (Timeout(t) \/ Removed(t)) /\ UNCHANGED semVars

SemSpec == IpcInit /\ SemInit /\ [][SemNext]_<<ipcVars, semVars>>

-----------------------------------------------------------------------------
(* Properties.                                                             *)

SemTypeOK == value \in 0 .. MaxValue /\ balance \in 0 .. MaxValue + Cardinality(Thread)

\* A release, a timeout and a reset race for a waiter, and no token is lost or made:
\* what is counted in value and what has been handed to threads that have not run
\* since is what was put in and not taken out.  A token handed to a thread whose
\* timer then ends its wait with -RT_ETIMEOUT would be lost.
TokensConserved == value + Cardinality(Arriving("taking")) = balance

\* Nobody waits for a token that is there.
SemNoLostWakeup == suspended[Receivers] # <<>> => value = 0

=============================================================================
