------------------------------- MODULE Serial -------------------------------
(***************************************************************************)
(* The buffers of src/rt-thread/components/drivers/serial/serial.c.  What   *)
(* threads write is queued in a data queue whose first item the DMA sends;  *)
(* what is received is in a ring, from which threads read.                  *)
(***************************************************************************)
EXTENDS DataQueue

CONSTANT bufsz      \* of struct serial_configure

ASSUME SerialAssumption == bufsz \in Nat \ {0, 1}

VARIABLES
    activated,      \* of struct rt_serial_tx_dma
    dma             \* what the DMA is sending; external

txVars == <<activated, dma>>

TxInit == activated = FALSE /\ dma = Nothing

\* Who has pushed, and has not done with the DMA what has to be done.
Pushed == {t \in Thread : pc[t].at = "pushed"}
Starting == {t \in Thread : pc[t].at = "starting"}

-----------------------------------------------------------------------------
(* _serial_dma_tx.  (A "Mutant" is a wrong version of the definition after   *)
(* it; no action uses one.)                                                  *)

\* rt_data_queue_push, which waits for ever...
TxPush(t, v) ==
    /\ May(t) /\ ~DqFull
    /\ DqStore(v)
    /\ Goto(t, "pushed", v)
    /\ UNCHANGED <<object, txVars>>

TxPushWaits(t, v) ==
    /\ Blocks(t, Senders, Enqueue(suspended[Senders], t), "pushing", v, {"forever"}, DqFull)
    /\ UNCHANGED <<dqVars, txVars>>

TxPushWaitsAgain(t) == DqPushWaitsAgain(t) /\ UNCHANGED txVars

TxPushReturns(t) ==
    /\ Woken(t, "pushing") /\ ~DqFull
    /\ DqStore(pc[t].arg)
    /\ Goto(t, "pushed", pc[t].arg)
    /\ UNCHANGED <<object, txVars>>

\* ...then a region that marks the DMA as activated, unless it is...
TxActivate(t) ==
    /\ At(t, "pushed")
    /\ activated' = TRUE
    /\ IF activated THEN Return(t) ELSE Goto(t, "starting", pc[t].arg)
    /\ UNCHANGED <<suspended, timed, object, dqVars, dma>>

\* ...and behind it dma_transmit, with what this thread has pushed.
TxTransmit(t) ==
    /\ At(t, "starting")
    /\ dma' = pc[t].arg
    /\ Return(t)
    /\ UNCHANGED <<suspended, timed, object, dqVars, activated>>

\* RT_SERIAL_EVENT_TX_DMADONE, in the interrupt: the first item is popped, if there is
\* one, and the DMA is started with what is first then.
TxPop ==
    IF DqEmpty THEN UNCHANGED <<suspended, timed, get_index>>
    ELSE /\ get_index' = (get_index + 1) % IndexRange
         /\ IF put_index - get_index' <= Lwm THEN ResumeIfAny(Senders)
                                             ELSE UNCHANGED <<suspended, timed>>

MutantTxDone ==     \* the DMA stays marked when nothing is left
    /\ dma # Nothing
    /\ TxPop
    /\ dma' = IF get_index' = put_index THEN Nothing ELSE ring[get_index' % DqSize]
    /\ UNCHANGED <<activated, ring, put_index, error, pc, object>>
TxDone ==
    /\ dma # Nothing
    /\ TxPop
    /\ activated' = (get_index' # put_index)
    /\ dma' = IF get_index' = put_index THEN Nothing ELSE ring[get_index' % DqSize]
    /\ UNCHANGED <<ring, put_index, error, pc, object>>

TxNext ==
    \/ TxDone
    \/ \E t \in Thread :
          \/ \E v \in Value : TxPush(t, v) \/ TxPushWaits(t, v)
          \/ TxPushWaitsAgain(t) \/ TxPushReturns(t)
          \/ TxActivate(t) \/ TxTransmit(t)

TxSpec == IpcInit /\ DqInit /\ TxInit /\ [][TxNext]_<<ipcVars, dqVars, txVars>>

-----------------------------------------------------------------------------
(* The ring of received characters, struct rt_serial_rx_fifo.               *)

VARIABLES
    buffer, rx_put, rx_get, is_full,
    expected        \* auxiliary: the characters that nobody has read, but for the
                    \* oldest ones when they are too many

rxVars == <<buffer, rx_put, rx_get, is_full, expected>>

RxInit ==
    /\ buffer = [i \in 0 .. bufsz - 1 |-> Nothing]
    /\ rx_put = 0 /\ rx_get = 0 /\ is_full = FALSE
    /\ expected = <<>>

Latest(s, n) == IF Len(s) <= n THEN s ELSE SubSeq(s, Len(s) - n + 1, Len(s))

\* _serial_fifo_calc_recved_len
RecvedLen ==
    IF rx_put = rx_get THEN IF is_full THEN bufsz ELSE 0 ELSE (rx_put - rx_get) % bufsz

\* RT_SERIAL_EVENT_RX_IND, one character: when the ring is full the oldest one goes.
MutantIntRx(ch) ==      \* the oldest one stays
    /\ buffer' = [buffer EXCEPT ![rx_put] = ch]
    /\ rx_put' = (rx_put + 1) % bufsz
    /\ is_full' = (is_full \/ rx_put' = rx_get)
    /\ expected' = Latest(Append(expected, ch), bufsz - 1)
    /\ UNCHANGED rx_get
IntRx(ch) ==
    /\ buffer' = [buffer EXCEPT ![rx_put] = ch]
    /\ rx_put' = (rx_put + 1) % bufsz
    /\ rx_get' = IF rx_put' = rx_get THEN (rx_get + 1) % bufsz ELSE rx_get
    /\ is_full' = (is_full \/ rx_put' = rx_get)
    /\ expected' = Latest(Append(expected, ch), bufsz - 1)

\* One character of _serial_int_rx
IntRead ==
    /\ rx_get # rx_put \/ is_full
    /\ rx_get' = (rx_get + 1) % bufsz
    /\ is_full' = FALSE
    /\ expected' = Tail(expected)
    /\ UNCHANGED <<buffer, rx_put>>

\* RT_SERIAL_EVENT_RX_DMADONE: the DMA, external, has written chars behind the last
\* ones; rt_dma_recv_update_put_index.
DmaRx(chars) ==
    LET put == rx_put + Len(chars)
        full == \/ is_full
                \/ rx_get <= rx_put /\ put >= bufsz /\ put % bufsz >= rx_get
                \/ rx_get > rx_put /\ put >= rx_get
    IN  /\ buffer' = [i \in 0 .. bufsz - 1 |->
                        LET k == ((i - rx_put) % bufsz) + 1
                        IN  IF k <= Len(chars) THEN chars[k] ELSE buffer[i]]
        /\ rx_put' = put % bufsz
        /\ rx_get' = IF full THEN put % bufsz ELSE rx_get
        /\ is_full' = full
        /\ expected' = Latest(expected \o chars, bufsz)

\* _serial_dma_rx of no more than length characters; rt_dma_recv_update_get_index
DmaRead(length) ==
    LET n == Min({length, RecvedLen})
    IN  /\ n # 0
        /\ rx_get' = (rx_get + n) % bufsz
        /\ is_full' = FALSE
        /\ expected' = SubSeq(expected, n + 1, Len(expected))
        /\ UNCHANGED <<buffer, rx_put>>

IntRxNext == IntRead \/ \E ch \in Value : IntRx(ch)
DmaRxNext ==
    \/ \E length \in 1 .. bufsz : DmaRead(length)
    \/ \E n \in 1 .. bufsz : \E chars \in [1 .. n -> Value] : DmaRx(chars)

-----------------------------------------------------------------------------
(* Properties.                                                             *)

SerialTypeOK ==
    /\ activated \in BOOLEAN /\ dma \in Value \cup {Nothing}
    /\ buffer \in [0 .. bufsz - 1 -> Value \cup {Nothing}]
    /\ rx_put \in 0 .. bufsz - 1 /\ rx_get \in 0 .. bufsz - 1
    /\ is_full \in BOOLEAN

\* RT_SERIAL_EVENT_TX_DMADONE: "transmit next data node".  The DMA sends what is first
\* in the queue, which is what its interrupt then pops: nothing is popped that was not
\* sent, and nothing is sent twice.
DmaSendsFirst == dma # Nothing => ~DqEmpty /\ dma = ring[get_index % DqSize]

\* While something is queued the DMA sends or a thread is about to start it, whatever
\* other writers and the end of a transfer do between its push and that; and when
\* nothing is left one of those that wait to push has been woken.
TxNoLostWakeup ==
    /\ ~DqEmpty => dma # Nothing \/ Pushed \cup Starting # {}
    /\ suspended[Senders] # <<>> /\ DqEmpty => Arriving("pushing") # {}

\* The characters between the indices are the latest ones that arrived and that were
\* not read, in their order, however interrupts and readers overtake each other round
\* the ring: one less than bufsz with interrupts, bufsz with the DMA.
RxKeepsLatest ==
    /\ Len(expected) = RecvedLen
    /\ \A i \in 1 .. RecvedLen : buffer[(rx_get + i - 1) % bufsz] = expected[i]

=============================================================================
