---------------------------- MODULE MessageQueue ----------------------------
(***************************************************************************)
(* The message queues of src/rt-thread/src/ipc.c.  A sender takes an item  *)
(* off the free list in one region, fills it with interrupts enabled, and  *)
(* links it in another; a receiver unlinks an item, copies it out, and     *)
(* puts it back.  In between the item belongs to the thread.               *)
(***************************************************************************)
EXTENDS Ipc

CONSTANT Item

ASSUME MqAssumption == IsFiniteSet(Item) /\ Nothing \notin Item /\ Item # {}

VARIABLES
    msg_queue_head, msg_queue_tail, msg_queue_free,
    next, content,      \* of each item
    entries             \* entry of struct rt_messagequeue

mqVars == <<msg_queue_head, msg_queue_tail, msg_queue_free, next, content, entries>>

\* rt_mq_init pushes the items on the free list one by one.
MqInit ==
    LET order == SetToSeq(Item)
        n == Len(order)
    IN  /\ msg_queue_head = Nothing /\ msg_queue_tail = Nothing
        /\ msg_queue_free = order[1]
        /\ next = [i \in Item |-> LET k == CHOOSE k \in 1 .. n : order[k] = i
                                  IN  IF k = n THEN Nothing ELSE order[k + 1]]
        /\ content = [i \in Item |-> Nothing]
        /\ entries = 0

-----------------------------------------------------------------------------
\* rt_mq_send or rt_mq_urgent, to its end the step: the first region.
MqTakeItem(t, step, v) ==
    /\ May(t) /\ msg_queue_free # Nothing
    /\ msg_queue_free' = next[msg_queue_free]
    /\ Goto(t, step, [item |-> msg_queue_free, value |-> v])
    /\ UNCHANGED <<suspended, timed, object, msg_queue_head, msg_queue_tail, next,
                   content, entries>>

\* Behind the tail, whose next it becomes...
LinkLast(i) ==
    /\ next' = [k \in Item |-> IF k = i THEN Nothing
                               ELSE IF k = msg_queue_tail THEN i ELSE next[k]]
    /\ msg_queue_tail' = i
    /\ msg_queue_head' = IF msg_queue_head = Nothing THEN i ELSE msg_queue_head

\* ...or in front of the head.
LinkFirst(i) ==
    /\ next' = [next EXCEPT ![i] = msg_queue_head]
    /\ msg_queue_head' = i
    /\ msg_queue_tail' = IF msg_queue_tail = Nothing THEN i ELSE msg_queue_tail

\* The copy into the item, which nobody else looks at, and the second region.
MqLink(t, step) ==
    LET msg == pc[t].arg
    IN  /\ At(t, step)
        /\ IF step = "filling" THEN LinkLast(msg.item) ELSE LinkFirst(msg.item)
        /\ content' = [content EXCEPT ![msg.item] = msg.value]
        /\ entries' = entries + 1
        /\ ResumeIfAny(Receivers)
        /\ Return(t)
        /\ UNCHANGED <<object, msg_queue_free>>

-----------------------------------------------------------------------------
\* rt_mq_recv: the head is unlinked...
MutantMqTake(t) ==      \* and is on the free list before it is copied out
    /\ entries # 0
    /\ Goto(t, "copying", msg_queue_head)
    /\ msg_queue_head' = next[msg_queue_head]
    /\ msg_queue_tail' = IF msg_queue_tail = msg_queue_head THEN Nothing ELSE msg_queue_tail
    /\ entries' = entries - 1
    /\ next' = [next EXCEPT ![msg_queue_head] = msg_queue_free]
    /\ msg_queue_free' = msg_queue_head
    /\ UNCHANGED <<suspended, timed, object, content>>
MqTake(t) ==
    /\ entries # 0
    /\ Goto(t, "copying", msg_queue_head)
    /\ msg_queue_head' = next[msg_queue_head]
    /\ msg_queue_tail' = IF msg_queue_tail = msg_queue_head THEN Nothing ELSE msg_queue_tail
    /\ entries' = entries - 1
    /\ UNCHANGED <<suspended, timed, object, msg_queue_free, next, content>>

MqRecv(t) == (May(t) \/ Woken(t, "receiving")) /\ MqTake(t)

MqRecvWaits(t) ==
    /\ Blocks(t, Receivers, ListSuspend(t, Receivers), "receiving", Nothing,
              {"ticks", "forever"}, entries = 0)
    /\ UNCHANGED mqVars

MqRecvWaitsAgain(t) ==
    /\ BlocksAgain(t, Receivers, ListSuspend(t, Receivers), "receiving", entries = 0)
    /\ UNCHANGED mqVars

MqRecvFails(t) == Fails(t, "receiving") /\ UNCHANGED mqVars

\* ...copied out, and put on the free list.
MqFreeItem(t) ==
    /\ At(t, "copying")
    /\ next' = [next EXCEPT ![pc[t].arg] = msg_queue_free]
    /\ msg_queue_free' = pc[t].arg
    /\ Return(t)
    /\ UNCHANGED <<suspended, timed, object, msg_queue_head, msg_queue_tail, content, entries>>

-----------------------------------------------------------------------------
\* The items from i on, along next: more than there are if next goes round.
From(i) ==
    LET n == Cardinality(Item)
        item[k \in 0 .. n] ==
            IF k = 0 THEN i
            ELSE IF item[k - 1] = Nothing THEN Nothing ELSE next[item[k - 1]]
    IN  [k \in 1 .. Cardinality({j \in 0 .. n : item[j] # Nothing}) |-> item[k - 1]]

\* rt_mq_control(RT_IPC_CMD_RESET): item by item the queue goes to the free list.
MqReset ==
    LET queued == From(msg_queue_head)
        n == Len(queued)
    IN  /\ object = "live"
        /\ ListResumeAll
        /\ msg_queue_head' = Nothing
        /\ msg_queue_tail' = IF msg_queue_tail \in ToSet(queued) THEN Nothing
                                                                  ELSE msg_queue_tail
        /\ msg_queue_free' = IF n = 0 THEN msg_queue_free ELSE queued[n]
        /\ next' = [i \in Item |->
                      IF i \notin ToSet(queued) THEN next[i]
                      ELSE LET k == CHOOSE k \in 1 .. n : queued[k] = i
                           IN  IF k = 1 THEN msg_queue_free ELSE queued[k - 1]]
        /\ entries' = 0
        /\ UNCHANGED <<pc, object, content>>

MqNext ==
    \/ MqReset
    \/ \E t \in Thread :
          \/ \E v \in Value : MqTakeItem(t, "filling", v) \/ MqTakeItem(t, "urgent", v)
          \/ MqLink(t, "filling") \/ MqLink(t, "urgent")
          \/ MqRecv(t) \/ MqRecvWaits(t) \/ MqRecvWaitsAgain(t) \/ MqRecvFails(t)
          \/ MqFreeItem(t)
          \/ (Timeout(t) \/ Removed(t)) /\ UNCHANGED mqVars

MqSpec == IpcInit /\ MqInit /\ [][MqNext]_<<ipcVars, mqVars>>

-----------------------------------------------------------------------------
(* Properties.                                                             *)

MqTypeOK ==
    /\ {msg_queue_head, msg_queue_tail, msg_queue_free} \subseteq Item \cup {Nothing}
    /\ next \in [Item -> Item \cup {Nothing}]
    /\ content \in [Item -> Value \cup {Nothing}]
    /\ entries \in 0 .. Cardinality(Item)

\* A thread is woken for every message that is there while others wait for one.
MqNoLostWakeup ==
    suspended[Receivers] # <<>> => entries <= Cardinality(Arriving("receiving"))

\* The item that t has taken off a list and has not put on one.
Private(t) ==
    CASE pc[t].at \in {"filling", "urgent"} -> {pc[t].arg.item}
      [] pc[t].at = "copying" -> {pc[t].arg}
      [] OTHER -> {}

\* The lists are right between any two regions: every item is on the free list, on the
\* queue or with one thread, once; entry counts the queue, and its tail is the last
\* item of it.
ItemsConserved ==
    LET queued == From(msg_queue_head)
        free == From(msg_queue_free)
        mine == [t \in Thread |-> Private(t)]
    IN  /\ entries = Len(queued)
        /\ msg_queue_tail = IF queued = <<>> THEN Nothing ELSE Last(queued)
        /\ IsInjective(queued \o free)
        /\ \A t \in Thread : mine[t] \cap ToSet(queued \o free) = {}
        /\ \A t, u \in Thread : t # u => mine[t] \cap mine[u] = {}
        /\ Item = ToSet(queued \o free) \cup UNION {mine[t] : t \in Thread}

\* The messages that are linked, and those that are being copied out.
Messages == LET queued == From(msg_queue_head)
            IN  [k \in DOMAIN queued |-> content[queued[k]]]
MqHeld == [t \in Thread |-> IF pc[t].at = "copying" THEN content[pc[t].arg] ELSE Nothing]

\* However senders, receivers and resets get between the two halves of a call, a
\* message queue is a queue of whole messages, the urgent ones in front.
MessageQueueQueue ==
    INSTANCE Queue WITH queue <- Messages, held <- MqHeld, Capacity <- Cardinality(Item)
MessagesAreQueue == MessageQueueQueue!SpecUrgent

=============================================================================
