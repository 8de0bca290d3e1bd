------------------------------ MODULE Objects ------------------------------
(***************************************************************************)
(* The objects that threads wait for, each with the same threads, timers   *)
(* and lists.  They share nothing else, so that a behaviour is about one    *)
(* of them, its kind.                                                       *)
(***************************************************************************)
EXTENDS Semaphore, Event, Mailbox, MessageQueue, MemPool, Completion, Serial, WorkQueue

CONSTANT Kind

ASSUME KindAssumption ==
    Kind \subseteq {"sem", "event", "mb", "mq", "pool", "completion", "dq", "tx",
                    "int_rx", "dma_rx", "work"}

VARIABLE kind

vars == <<kind, ipcVars, semVars, set, mbVars, mqVars, poolVars, flag, dqVars, txVars,
          rxVars, workVars>>

Init ==
    /\ kind \in Kind
    /\ IpcInit /\ SemInit /\ EventInit /\ MbInit /\ MqInit /\ PoolInit
    /\ CompletionInit /\ DqInit /\ TxInit /\ RxInit /\ WorkInit

Next ==
    /\ \/ /\ kind = "sem" /\ SemNext
          /\ UNCHANGED <<set, mbVars, mqVars, poolVars, flag, dqVars, txVars, rxVars, workVars>>
       \/ /\ kind = "event" /\ EventNext
          /\ UNCHANGED <<semVars, mbVars, mqVars, poolVars, flag, dqVars, txVars, rxVars, workVars>>
       \/ /\ kind = "mb" /\ MbNext
          /\ UNCHANGED <<semVars, set, mqVars, poolVars, flag, dqVars, txVars, rxVars, workVars>>
       \/ /\ kind = "mq" /\ MqNext
          /\ UNCHANGED <<semVars, set, mbVars, poolVars, flag, dqVars, txVars, rxVars, workVars>>
       \/ /\ kind = "pool" /\ PoolNext
          /\ UNCHANGED <<semVars, set, mbVars, mqVars, flag, dqVars, txVars, rxVars, workVars>>
       \/ /\ kind = "completion" /\ CompletionNext
          /\ UNCHANGED <<semVars, set, mbVars, mqVars, poolVars, dqVars, txVars, rxVars, workVars>>
       \/ /\ kind = "dq" /\ DqNext
          /\ UNCHANGED <<semVars, set, mbVars, mqVars, poolVars, flag, txVars, rxVars, workVars>>
       \/ /\ kind = "tx" /\ TxNext
          /\ UNCHANGED <<semVars, set, mbVars, mqVars, poolVars, flag, rxVars, workVars>>
       \/ /\ kind = "int_rx" /\ IntRxNext
          /\ UNCHANGED <<ipcVars, semVars, set, mbVars, mqVars, poolVars, flag, dqVars, txVars, workVars>>
       \/ /\ kind = "dma_rx" /\ DmaRxNext
          /\ UNCHANGED <<ipcVars, semVars, set, mbVars, mqVars, poolVars, flag, dqVars, txVars, workVars>>
       \/ /\ kind = "work" /\ WorkNext
          /\ UNCHANGED <<semVars, set, mbVars, mqVars, poolVars, flag, dqVars, txVars, rxVars>>
    /\ UNCHANGED kind

Spec == Init /\ [][Next]_vars

-----------------------------------------------------------------------------
(* Properties of whichever object it is.                                    *)

TypeOK ==
    /\ kind \in Kind
    /\ IpcTypeOK /\ SemTypeOK /\ MbTypeOK /\ MqTypeOK /\ PoolTypeOK /\ DqTypeOK
    /\ SerialTypeOK /\ WorkTypeOK
    /\ set \subseteq Bit /\ flag \in BOOLEAN
    /\ kind = "event" => EventTypeOK

\* No thread sleeps through what it waits for: while there is a token, an event, a
\* value, room, a block, a completion or work, somebody has been woken to get it, even
\* if the one that was woken first has timed out, been reset or been too slow.
NoLostWakeup ==
    CASE kind = "sem" -> SemNoLostWakeup
      [] kind = "event" -> EventNoLostWakeup
      [] kind = "mb" -> MbNoLostWakeup
      [] kind = "mq" -> MqNoLostWakeup
      [] kind = "pool" -> PoolNoLostWakeup
      [] kind = "completion" -> CompletionNoLostWakeup
      [] kind = "dq" -> DqNoLostWakeup
      [] kind = "tx" -> TxNoLostWakeup
      [] kind = "work" -> WorkNoLostWakeup
      [] OTHER -> TRUE

\* EventsTaken, of every rt_event_send.
EventsTakenOnce == [][kind = "event" => EventsTaken]_vars

\* rt_data_queue_push: "queue is full".  A data queue is a queue of no more items than
\* it has room for, which threads push and pop in any order, with timeouts and resets.
\* (The one of a serial device is popped by an interrupt, whatever that has sent.)
DataQueueQueue ==
    INSTANCE Queue WITH queue <- IF kind = "dq" THEN Items ELSE <<>>, held <- DqHeld,
                        Capacity <- DqSize
DataQueueIsQueue == DataQueueQueue!Spec

=============================================================================
