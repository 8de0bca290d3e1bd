------------------------------- MODULE Event -------------------------------
(***************************************************************************)
(* The event sets of src/rt-thread/src/ipc.c.  What a thread waits for, its *)
(* event_set and event_info, is what it has in its hands.                   *)
(***************************************************************************)
EXTENDS Ipc

CONSTANTS
    Bit,        \* the events of a set, which is 32 bits wide
    Interest    \* what threads receive: events, with RT_EVENT_FLAG_AND or
                \* RT_EVENT_FLAG_OR, and with RT_EVENT_FLAG_CLEAR or without

ASSUME EventAssumption ==
    Interest \subseteq [event_set : (SUBSET Bit) \ {{}},
                        event_info : [all : BOOLEAN, clear : BOOLEAN]]

VARIABLE set

EventInit == set = {}

-----------------------------------------------------------------------------
Satisfied(want, events) ==
    IF want.event_info.all THEN want.event_set \subseteq events
                           ELSE want.event_set \cap events # {}

\* What a satisfied thread receives.
Received(want, events) ==
    IF want.event_info.all THEN want.event_set ELSE want.event_set \cap events

\* rt_event_recv that need not wait.
EventRecv(want) ==
    /\ object = "live" /\ Satisfied(want, set)
    /\ set' = IF want.event_info.clear THEN set \ want.event_set ELSE set
    /\ UNCHANGED ipcVars

EventRecvWaits(t, want) ==
    /\ Blocks(t, Receivers, ListSuspend(t, Receivers), "receiving", want,
              {"ticks", "forever"}, ~Satisfied(want, set))
    /\ UNCHANGED set

EventRecvReturns(t) ==
    /\ Woken(t, "receiving")
    /\ Return(t)
    /\ UNCHANGED <<suspended, timed, object, set>>

EventRecvFails(t) == Fails(t, "receiving") /\ UNCHANGED set

\* One waiter of the walk of rt_event_send, which changes what is left of the events, the
\* list of waiters, and what the threads it resumes have in their hands.
MutantVisit(walk, t) ==     \* the events are cleared after the walk
    LET want == walk.pc[t].arg
    IN  IF Satisfied(want, walk.set)
        THEN [walk EXCEPT !.pc[t].arg.event_set = Received(want, walk.set),
                          !.list = Unlink(walk.list, t), !.timed = walk.timed \ {t}]
        ELSE walk
Visit(walk, t) ==
    LET want == walk.pc[t].arg
        got == Received(want, walk.set)
    IN  IF Satisfied(want, walk.set)
        THEN [set |-> IF want.event_info.clear THEN walk.set \ got ELSE walk.set,
              list |-> Unlink(walk.list, t),
              pc |-> [walk.pc EXCEPT ![t].arg.event_set = got],
              timed |-> walk.timed \ {t}]
        ELSE walk

EventSend(events) ==
    LET list == suspended[Receivers]
        walk[i \in 0 .. Len(list)] ==
            IF i = 0 THEN [set |-> set \cup events, list |-> list, pc |-> pc, timed |-> timed]
            ELSE Visit(walk[i - 1], list[i])
        end == walk[Len(list)]
    IN  /\ object = "live"
        /\ set' = end.set
        /\ suspended' = [suspended EXCEPT ![Receivers] = end.list]
        /\ timed' = end.timed
        /\ pc' = end.pc
        /\ UNCHANGED <<error, object>>

\* rt_event_control(RT_IPC_CMD_RESET)
EventReset ==
    /\ object = "live"
    /\ ListResumeAll
    /\ set' = {}
    /\ UNCHANGED <<pc, object>>

EventNext ==
    \/ EventReset
    \/ \E events \in (SUBSET Bit) \ {{}} : EventSend(events)
    \/ \E want \in Interest : EventRecv(want)
    \/ \E t \in Thread :
          \/ \E want \in Interest : EventRecvWaits(t, want)
          \/ EventRecvReturns(t) \/ EventRecvFails(t)
          \/ (Timeout(t) \/ Removed(t)) /\ UNCHANGED set

EventSpec == IpcInit /\ EventInit /\ [][EventNext]_<<ipcVars, set>>

-----------------------------------------------------------------------------
(* Properties.                                                             *)

EventTypeOK ==
    /\ set \subseteq Bit
    /\ \A t \in Thread :
          pc[t].at = "receiving" => pc[t].arg.event_set \in (SUBSET Bit) \ {{}}

\* Nobody waits for events that are set.
EventNoLostWakeup ==
    \A i \in DOMAIN suspended[Receivers] : ~Satisfied(pc[suspended[Receivers][i]].arg, set)

\* Events are cleared while rt_event_send walks its waiters.  Each thread it resumes
\* has received all it waits for, or some of it; what one of RT_EVENT_FLAG_CLEAR
\* received is received by nobody behind it and is not left in the set; and no thread
\* is passed over for one behind it while the events it waits for are there.
EventsTaken ==
    LET list == suspended[Receivers]
        Want(i) == pc[list[i]].arg
        Got(i) == pc'[list[i]].arg.event_set
        Stays(i) == list[i] \in ToSet(suspended'[Receivers])
        resumed == {i \in DOMAIN list : ~Stays(i) /\ error'[list[i]] = "ok"}
        Remains(i) == set' \cup UNION {Got(j) : j \in {j \in resumed : i < j}}
    IN  \A i \in DOMAIN list :
           /\ i \in resumed =>
                 /\ Got(i) # {} /\ Got(i) \subseteq Want(i).event_set
                 /\ Want(i).event_info.all => Got(i) = Want(i).event_set
                 /\ Want(i).event_info.clear => Got(i) \cap Remains(i) = {}
           /\ Stays(i) => ~Satisfied(Want(i), Remains(i))

=============================================================================
