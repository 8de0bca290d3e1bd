----------------------------- MODULE DataQueue -----------------------------
(***************************************************************************)
(* The data queues of src/rt-thread/components/drivers/src/dataqueue.c: a   *)
(* ring between two indices that are never taken modulo its size.  A thread *)
(* that waits to push is woken when no more than lwm items are left.        *)
(***************************************************************************)
EXTENDS Ipc

CONSTANTS
    DqSize, Lwm,
    IndexRange,     \* 2^16: put_index and get_index are rt_uint16_t
    MaxPut          \* bound: nothing is pushed when put_index is above it

ASSUME DqAssumption ==
    /\ DqSize \in Nat \ {0} /\ Lwm \in Nat
    /\ IndexRange \in Nat \ {0} /\ MaxPut \in 0 .. IndexRange - 1

VARIABLES ring, put_index, get_index

dqVars == <<ring, put_index, get_index>>

DqInit ==
    /\ ring = [i \in 0 .. DqSize - 1 |-> Nothing]
    /\ put_index = 0 /\ get_index = 0

-----------------------------------------------------------------------------
\* The subtraction is one of int.
DqFull == put_index - get_index = DqSize
DqEmpty == get_index = put_index

DqStore(v) ==
    /\ put_index <= MaxPut
    /\ ring' = [ring EXCEPT ![put_index % DqSize] = v]
    /\ put_index' = (put_index + 1) % IndexRange
    /\ ResumeIfAny(Receivers)
    /\ UNCHANGED get_index

\* rt_data_queue_push, when there is room
DqPush(v) ==
    /\ object = "live" /\ ~DqFull
    /\ DqStore(v)
    /\ UNCHANGED <<error, pc, object>>

DqPushWaits(t, v) ==
    /\ Blocks(t, Senders, Enqueue(suspended[Senders], t), "pushing", v,
              {"ticks", "forever"}, DqFull)
    /\ UNCHANGED dqVars

\* Nothing is taken off the timeout when it waits again.
DqPushWaitsAgain(t) ==
    /\ Woken(t, "pushing") /\ DqFull
    /\ Wait(t, Senders, Enqueue(suspended[Senders], t), "pushing", pc[t].arg, pc[t].timeout)
    /\ UNCHANGED <<object, dqVars>>

DqPushReturns(t) ==
    /\ Woken(t, "pushing") /\ ~DqFull
    /\ DqStore(pc[t].arg)
    /\ Return(t)
    /\ UNCHANGED object

DqPushFails(t) == Fails(t, "pushing") /\ UNCHANGED dqVars

-----------------------------------------------------------------------------
MutantDqTake(t) ==      \* the last item is the one that is looked at
    /\ ~DqEmpty
    /\ Goto(t, "popped", ring[(put_index - 1) % DqSize])
    /\ get_index' = (get_index + 1) % IndexRange
    /\ IF put_index - get_index' <= Lwm THEN ResumeIfAny(Senders)
                                        ELSE UNCHANGED <<suspended, timed>>
    /\ UNCHANGED <<ring, put_index, object>>
DqTake(t) ==
    /\ ~DqEmpty
    /\ Goto(t, "popped", ring[get_index % DqSize])
    /\ get_index' = (get_index + 1) % IndexRange
    /\ IF put_index - get_index' <= Lwm THEN ResumeIfAny(Senders)
                                        ELSE UNCHANGED <<suspended, timed>>
    /\ UNCHANGED <<ring, put_index, object>>

DqPop(t) == (May(t) \/ Woken(t, "popping")) /\ DqTake(t)

DqPopWaits(t) ==
    /\ Blocks(t, Receivers, Enqueue(suspended[Receivers], t), "popping", Nothing,
              {"ticks", "forever"}, DqEmpty)
    /\ UNCHANGED dqVars

DqPopWaitsAgain(t) ==
    /\ Woken(t, "popping") /\ DqEmpty
    /\ Wait(t, Receivers, Enqueue(suspended[Receivers], t), "popping", Nothing, pc[t].timeout)
    /\ UNCHANGED <<object, dqVars>>

DqPopReturns(t) ==
    /\ At(t, "popped")
    /\ Return(t)
    /\ UNCHANGED <<suspended, timed, object, dqVars>>

DqPopFails(t) == Fails(t, "popping") /\ UNCHANGED dqVars

\* rt_data_queue_reset wakes everybody, with the scheduler locked, and leaves the
\* items where they are.  No interrupt handler pushes meanwhile (see BusyDetach).
DqReset(t) ==
    /\ Detach(t, "locked") \/ DetachTest(t) \/ DetachResume(t) \/ DetachEnds(t, "live")
    /\ UNCHANGED dqVars

DqNext ==
    \/ \E v \in Value : DqPush(v)
    \/ \E t \in Thread :
          \/ \E v \in Value : DqPushWaits(t, v)
          \/ DqPushWaitsAgain(t) \/ DqPushReturns(t) \/ DqPushFails(t)
          \/ DqPop(t) \/ DqPopWaits(t) \/ DqPopWaitsAgain(t)
          \/ DqPopReturns(t) \/ DqPopFails(t)
          \/ DqReset(t)
          \/ Timeout(t) /\ UNCHANGED dqVars

DqSpec == IpcInit /\ DqInit /\ [][DqNext]_<<ipcVars, dqVars>>

-----------------------------------------------------------------------------
(* Properties.                                                             *)

DqTypeOK ==
    /\ ring \in [0 .. DqSize - 1 -> Value \cup {Nothing}]
    /\ put_index \in 0 .. IndexRange - 1 /\ get_index \in 0 .. IndexRange - 1

\* A thread is woken for every item that is there while others wait to pop; when
\* nothing is left, one of those that wait to push has been woken.
DqNoLostWakeup ==
    /\ suspended[Receivers] # <<>> =>
          (put_index - get_index) % IndexRange <= Cardinality(Arriving("popping"))
    /\ suspended[Senders] # <<>> /\ DqEmpty => Arriving("pushing") # {}

\* The items between the indices, and those of the threads whose call returns.
Items == [i \in 1 .. (put_index - get_index) % IndexRange |->
             ring[((get_index + i - 1) % IndexRange) % DqSize]]
DqHeld == [t \in Thread |-> IF pc[t].at = "popped" THEN pc[t].arg ELSE Nothing]

=============================================================================
