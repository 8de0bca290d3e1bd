------------------------------ MODULE Mailbox ------------------------------
(***************************************************************************)
(* The mailboxes of src/rt-thread/src/ipc.c: a ring of values, with a list  *)
(* of threads that wait to receive and one of threads that wait to send.    *)
(***************************************************************************)
EXTENDS Ipc

CONSTANT MbSize

ASSUME MbAssumption == MbSize \in Nat \ {0}

VARIABLES msg_pool, entry, in_offset, out_offset

mbVars == <<msg_pool, entry, in_offset, out_offset>>

MbInit ==
    /\ msg_pool = [i \in 0 .. MbSize - 1 |-> Nothing]
    /\ entry = 0 /\ in_offset = 0 /\ out_offset = 0

-----------------------------------------------------------------------------
MutantAfter(i) == IF i + 1 > MbSize THEN 0 ELSE i + 1
After(i) == IF i + 1 >= MbSize THEN 0 ELSE i + 1

\* The value is stored and the first receiver is woken, to look for itself.
MutantMbStore(v) ==     \* it is woken when the mailbox was empty
    /\ msg_pool' = [msg_pool EXCEPT ![in_offset] = v]
    /\ in_offset' = After(in_offset)
    /\ entry' = entry + 1
    /\ IF entry = 0 THEN ResumeIfAny(Receivers) ELSE UNCHANGED <<suspended, timed>>
    /\ UNCHANGED out_offset
MbStore(v) ==
    /\ msg_pool' = [msg_pool EXCEPT ![in_offset] = v]
    /\ in_offset' = After(in_offset)
    /\ entry' = entry + 1
    /\ ResumeIfAny(Receivers)
    /\ UNCHANGED out_offset

\* rt_mb_send, and rt_mb_send_wait when there is room
MbSend(v) ==
    /\ object = "live" /\ entry # MbSize
    /\ MbStore(v)
    /\ UNCHANGED <<error, pc, object>>

MbSendWaits(t, v) ==
    /\ Blocks(t, Senders, ListSuspend(t, Senders), "sending", v,
              {"ticks", "forever"}, entry = MbSize)
    /\ UNCHANGED mbVars

MbSendWaitsAgain(t) ==
    /\ BlocksAgain(t, Senders, ListSuspend(t, Senders), "sending", entry = MbSize)
    /\ UNCHANGED mbVars

MutantMbSendReturns(t) ==       \* there is room: the thread has been woken
    /\ Woken(t, "sending")
    /\ MbStore(pc[t].arg)
    /\ Return(t)
    /\ UNCHANGED object
MbSendReturns(t) ==
    /\ Woken(t, "sending") /\ entry # MbSize
    /\ MbStore(pc[t].arg)
    /\ Return(t)
    /\ UNCHANGED object

MbSendFails(t) == Fails(t, "sending") /\ UNCHANGED mbVars

-----------------------------------------------------------------------------
\* rt_mb_recv: the value is taken and the first sender is woken.
MbTake(t) ==
    /\ entry # 0
    /\ Goto(t, "received", msg_pool[out_offset])
    /\ out_offset' = After(out_offset)
    /\ entry' = entry - 1
    /\ ResumeIfAny(Senders)
    /\ UNCHANGED <<msg_pool, in_offset, object>>

MbRecv(t) == (May(t) \/ Woken(t, "receiving")) /\ MbTake(t)

MbRecvWaits(t) ==
    /\ Blocks(t, Receivers, ListSuspend(t, Receivers), "receiving", Nothing,
              {"ticks", "forever"}, entry = 0)
    /\ UNCHANGED mbVars

MbRecvWaitsAgain(t) ==
    /\ BlocksAgain(t, Receivers, ListSuspend(t, Receivers), "receiving", entry = 0)
    /\ UNCHANGED mbVars

MbRecvReturns(t) ==
    /\ At(t, "received")
    /\ Return(t)
    /\ UNCHANGED <<suspended, timed, object, mbVars>>

MbRecvFails(t) == Fails(t, "receiving") /\ UNCHANGED mbVars

\* rt_mb_control(RT_IPC_CMD_RESET)
MbReset ==
    /\ object = "live"
    /\ ListResumeAll
    /\ entry' = 0 /\ in_offset' = 0 /\ out_offset' = 0
    /\ UNCHANGED <<pc, object, msg_pool>>

MbNext ==
    \/ MbReset
    \/ \E v \in Value : MbSend(v)
    \/ \E t \in Thread :
          \/ \E v \in Value : MbSendWaits(t, v)
          \/ MbSendWaitsAgain(t) \/ MbSendReturns(t) \/ MbSendFails(t)
          \/ MbRecv(t) \/ MbRecvWaits(t) \/ MbRecvWaitsAgain(t)
          \/ MbRecvReturns(t) \/ MbRecvFails(t)
          \/ (Timeout(t) \/ Removed(t)) /\ UNCHANGED mbVars

MbSpec == IpcInit /\ MbInit /\ [][MbNext]_<<ipcVars, mbVars>>

-----------------------------------------------------------------------------
(* Properties.                                                             *)

MbTypeOK ==
    /\ msg_pool \in [0 .. MbSize - 1 -> Value \cup {Nothing}]
    /\ entry \in 0 .. MbSize
    /\ in_offset \in 0 .. MbSize - 1 /\ out_offset \in 0 .. MbSize - 1

\* A thread is woken for every value that is there while others wait to receive, and
\* for every free place while others wait to send.
MbNoLostWakeup ==
    /\ suspended[Receivers] # <<>> => entry <= Cardinality(Arriving("receiving"))
    /\ suspended[Senders] # <<>> => MbSize - entry <= Cardinality(Arriving("sending"))

\* The values between the offsets, and those of the threads whose call returns.
Mails == [i \in 1 .. entry |-> msg_pool[(out_offset + i - 1) % MbSize]]
MbHeld == [t \in Thread |-> IF pc[t].at = "received" THEN pc[t].arg ELSE Nothing]

\* However sends, receives, timeouts and resets race, a mailbox is a queue: what is
\* received was sent, in that order, by one thread only and no more than it can hold.
MailQueue == INSTANCE Queue WITH queue <- Mails, held <- MbHeld, Capacity <- MbSize
MailboxIsQueue == MailQueue!Spec

=============================================================================
