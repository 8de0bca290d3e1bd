------------------------------- MODULE Queue -------------------------------
(***************************************************************************)
(* What a mailbox, a message queue and a data queue promise: a bounded      *)
(* queue of values.  A value is received by one thread, which holds it      *)
(* until its call returns.                                                  *)
(***************************************************************************)
EXTENDS Integers, Sequences

CONSTANTS Thread, Value, Nothing, Capacity

VARIABLES queue, held

Init == queue = <<>> /\ held = [t \in Thread |-> Nothing]

Send(v) ==
    /\ Len(queue) < Capacity
    /\ queue' = Append(queue, v)
    /\ UNCHANGED held

Urgent(v) ==
    /\ Len(queue) < Capacity
    /\ queue' = <<v>> \o queue
    /\ UNCHANGED held

Recv(t) ==
    /\ queue # <<>>
    /\ held[t] = Nothing
    /\ held' = [held EXCEPT ![t] = Head(queue)]
    /\ queue' = Tail(queue)

Return(t) ==
    /\ held[t] # Nothing
    /\ held' = [held EXCEPT ![t] = Nothing]
    /\ UNCHANGED queue

\* RT_IPC_CMD_RESET
Reset == queue' = <<>> /\ UNCHANGED held

\* With urgent messages, or without.
NextUrgent ==
    \/ Reset
    \/ \E v \in Value : Send(v) \/ Urgent(v)
    \/ \E t \in Thread : Recv(t) \/ Return(t)

Next ==
    \/ Reset
    \/ \E v \in Value : Send(v)
    \/ \E t \in Thread : Recv(t) \/ Return(t)

SpecUrgent == Init /\ [][NextUrgent]_<<queue, held>>
Spec == Init /\ [][Next]_<<queue, held>>

=============================================================================
