------------------------------- MODULE SerialRx -------------------------------
(***************************************************************************)
(* The way of a byte of the modem to client_parser: the data register of   *)
(* the USART and uart_isr (drivers/drv_usart.c), the receive FIFO of the   *)
(* serial framework (components/drivers/serial/serial.c), the notice of    *)
(* at_client_rx_ind, and the thread that reads byte by byte, sleeping on   *)
(* rx_notice: at_client_getchar with its users at_recv_readline and        *)
(* at_client_obj_recv (components/net/at/src/at_client.c).                 *)
(*                                                                         *)
(* The interrupt handler runs above every thread, so the reader moves only *)
(* while it is off; a byte may arrive between any two steps of either.     *)
(* What a byte means is left open: a line may end with any, and be one     *)
(* that urc_httpContent_func answers by reading a block.                   *)
(***************************************************************************)
EXTENDS Naturals, Sequences

CONSTANTS
    NULL,
    Byte,        \* what may arrive
    Size,        \* serial->config.bufsz (64)
    RecvSize,    \* what urc_httpContent_func asks of at_client_recv (3)
    NoticeMax    \* bound on the value of rx_notice: only zero matters

ASSUME NullAssumption   == NULL \notin Byte
ASSUME SizeAssumption   == Size \in Nat /\ Size >= 2
ASSUME RecvAssumption   == RecvSize \in Nat \ {0}
ASSUME NoticeAssumption == NoticeMax \in Nat \ {0}

VARIABLES
    dr,           \* the data register: a byte, or NULL while RXNE is clear
    buffer, put_index, get_index, is_full,    \* struct rt_serial_rx_fifo
    isr,          \* where the interrupt handler is
    rx_indicate,  \* whether the callback is installed
    rx_notice,    \* value of the semaphore
    pc,           \* where the parser thread is
    mode,         \* "line" in at_recv_readline, "recv" in at_client_obj_recv
    read_idx,     \* bytes at_client_obj_recv has read
    ch,           \* the byte read last
    missed        \* history: the last reset erased the notice of a byte

fifoVars   == <<buffer, put_index, get_index, is_full>>
readerVars == <<mode, read_idx, ch>>
vars == <<dr, fifoVars, isr, rx_indicate, rx_notice, pc, readerVars, missed>>

Slots == 0..(Size - 1)

\* rt_serial_open, with which at_client_init opens the device.
Init ==
    /\ buffer = [i \in Slots |-> NULL]
    /\ put_index = 0 /\ get_index = 0 /\ is_full = FALSE
    /\ dr = NULL /\ isr = "off"
    /\ rx_indicate = FALSE /\ rx_notice = 0
    /\ pc = "open" /\ mode = "line" /\ read_idx = 0 /\ ch = NULL
    /\ missed = FALSE

-----------------------------------------------------------------------------
(* The receive FIFO.                                                       *)

\* Mutant: the index is wrapped one slot late.
NextIndexPast(i) == IF i >= Size THEN 0 ELSE i + 1

\* index += 1; if (index >= serial->config.bufsz) index = 0
NextIndex(i) == IF i + 1 >= Size THEN 0 ELSE i + 1

Empty == get_index = put_index /\ ~is_full

\* Mutant: the oldest byte is not given up.
NeverOverruns(put, get) == FALSE

\* The next position to write is the one to read: the oldest byte goes.
Overruns(put, get) == put = get

\* The loop body of the interrupt handler, with interrupts disabled.  (The
\* slot of a byte that is gone, here or by a read, is shown empty.)
Store(b) ==
    LET put  == NextIndex(put_index)
        over == Overruns(put, get_index)
    IN  /\ buffer' = IF over THEN [buffer EXCEPT ![put_index] = b, ![get_index] = NULL]
                     ELSE [buffer EXCEPT ![put_index] = b]
        /\ put_index' = put
        /\ get_index' = IF over THEN NextIndex(get_index) ELSE get_index
        /\ is_full' = (is_full \/ over)

\* Mutant: the bytes behind the wrap are not counted.
RxLengthAhead == IF put_index >= get_index THEN put_index - get_index ELSE 0

\* rx_length of the handler: what the FIFO holds.
RxLength == IF put_index >= get_index THEN put_index - get_index
            ELSE Size - (get_index - put_index)

-----------------------------------------------------------------------------
(* The line and the data register.                                         *)

\* A byte arrives; while RXNE is set it is lost, which nobody notices.
Arrives ==
    /\ dr = NULL
    /\ \E b \in Byte : dr' = b
    /\ UNCHANGED <<fifoVars, isr, rx_indicate, rx_notice, pc, readerVars, missed>>

-----------------------------------------------------------------------------
(* uart_isr and rt_hw_serial_isr.                                          *)

\* RXNE raises the interrupt.
IsrEnter ==
    /\ isr = "off" /\ dr # NULL
    /\ isr' = "getc"
    /\ UNCHANGED <<dr, fifoVars, rx_indicate, rx_notice, pc, readerVars, missed>>

\* serial->ops->getc reads the data register, which clears RXNE, until it
\* finds nothing there.
IsrByte ==
    /\ isr = "getc" /\ dr # NULL
    /\ Store(dr)
    /\ dr' = NULL
    /\ UNCHANGED <<isr, rx_indicate, rx_notice, pc, readerVars, missed>>

IsrNoByte ==
    /\ isr = "getc" /\ dr = NULL
    /\ isr' = "indicate"
    /\ UNCHANGED <<dr, fifoVars, rx_indicate, rx_notice, pc, readerVars, missed>>

\* rx_indicate, that is at_client_rx_ind: rt_sem_release(rx_notice).
IsrIndicate ==
    /\ isr = "indicate"
    /\ isr' = "clear"
    /\ IF ~rx_indicate \/ RxLength = 0 THEN UNCHANGED <<pc, rx_notice>>
       ELSE IF pc = "wait" THEN pc' = "read" /\ UNCHANGED rx_notice
       ELSE /\ rx_notice' = IF rx_notice < NoticeMax THEN rx_notice + 1 ELSE rx_notice
            /\ UNCHANGED pc
    /\ UNCHANGED <<dr, fifoVars, rx_indicate, readerVars, missed>>

\* __HAL_UART_CLEAR_FLAG(UART_FLAG_RXNE): what has arrived since is lost.
IsrClear ==
    /\ isr = "clear"
    /\ isr' = "off"
    /\ dr' = NULL
    /\ UNCHANGED <<fifoVars, rx_indicate, rx_notice, pc, readerVars, missed>>

Isr == IsrEnter \/ IsrByte \/ IsrNoByte \/ IsrIndicate \/ IsrClear

-----------------------------------------------------------------------------
(* at_client_init: the callback, then the parser thread.                   *)

SetRxIndicate ==
    /\ isr = "off" /\ pc = "open"
    /\ rx_indicate' = TRUE
    /\ pc' = "startup"
    /\ UNCHANGED <<dr, fifoVars, isr, rx_notice, readerVars, missed>>

StartParser ==
    /\ isr = "off" /\ pc = "startup"
    /\ pc' = "read"
    /\ UNCHANGED <<dr, fifoVars, isr, rx_indicate, rx_notice, readerVars, missed>>

-----------------------------------------------------------------------------
(* at_client_getchar.                                                      *)

\* What its two callers do with a byte: a line goes on, or is over and the
\* next one begins, or is one whose function reads a block of RecvSize bytes;
\* behind the block another line begins.
UseByte ==
    IF mode = "line" THEN mode' \in {"line", "recv"} /\ read_idx' = 0
    ELSE IF read_idx + 1 < RecvSize THEN read_idx' = read_idx + 1 /\ UNCHANGED mode
    ELSE read_idx' = 0 /\ mode' = "line"

\* rt_device_read of one byte, with interrupts disabled.
Read ==
    /\ isr = "off" /\ pc = "read"
    /\ IF Empty
       THEN pc' = "reset" /\ UNCHANGED <<fifoVars, readerVars>>
       ELSE /\ ch' = buffer[get_index]
            /\ buffer' = [buffer EXCEPT ![get_index] = NULL]
            /\ get_index' = NextIndex(get_index)
            /\ is_full' = FALSE
            /\ UseByte
            /\ UNCHANGED <<pc, put_index>>
    /\ UNCHANGED <<dr, isr, rx_indicate, rx_notice, missed>>

\* rt_sem_control(rx_notice, RT_IPC_CMD_RESET), with the notice of whatever
\* has come since the read.
ResetNotice ==
    /\ isr = "off" /\ pc = "reset"
    /\ rx_notice' = 0
    /\ missed' = ~Empty
    /\ pc' = "take"
    /\ UNCHANGED <<dr, fifoVars, isr, rx_indicate, readerVars>>

\* rt_sem_take(rx_notice, timeout)
TakeNotice ==
    /\ isr = "off" /\ pc = "take"
    /\ IF rx_notice > 0 THEN rx_notice' = rx_notice - 1 /\ pc' = "read"
                        ELSE pc' = "wait" /\ UNCHANGED rx_notice
    /\ UNCHANGED <<dr, fifoVars, isr, rx_indicate, readerVars, missed>>

\* Mutant: both callers wait for ever.
NeverTimed == FALSE

\* A line is awaited for ever, each byte of a block for 5 seconds.
Timed == mode = "recv"

\* The thread timer.
Timeout ==
    /\ pc = "wait" /\ Timed
    /\ pc' = "timedout"
    /\ UNCHANGED <<dr, fifoVars, isr, rx_indicate, rx_notice, readerVars, missed>>

\* at_client_obj_recv returns 0: what it has read is gone.
RecvFails ==
    /\ isr = "off" /\ pc = "timedout"
    /\ mode' = "line" /\ read_idx' = 0
    /\ pc' = "read"
    /\ UNCHANGED <<dr, fifoVars, isr, rx_indicate, rx_notice, ch, missed>>

Reader == SetRxIndicate \/ StartParser \/ Read \/ ResetNotice \/ TakeNotice \/ RecvFails

Next == Arrives \/ Isr \/ Reader \/ Timeout

\* The handler ends (a byte takes a millisecond, the handler microseconds),
\* the parser is never held up for long by the few threads above it, and
\* timers run out.
Fairness ==
    /\ WF_vars(Isr) /\ []<>(isr = "off")
    /\ SF_vars(Reader) /\ WF_vars(Timeout)

Spec     == Init /\ [][Next]_vars
FairSpec == Spec /\ Fairness

-----------------------------------------------------------------------------
(* Properties.                                                             *)

\* What the FIFO holds, and the receiver with the byte in its register.
Held     == IF Empty THEN 0
            ELSE IF put_index > get_index THEN put_index - get_index
            ELSE put_index + Size - get_index
Slot(i)  == IF get_index + i < Size THEN get_index + i ELSE get_index + i - Size
Contents == [i \in 1..Held |-> buffer[Slot(i - 1)]]
Received == IF dr = NULL THEN Contents ELSE Append(Contents, dr)

\* Type invariant: the indices stay within the buffer and meet only when it
\* is empty, so that one slot is always free.
FifoType   == /\ buffer \in [Slots -> Byte \cup {NULL}]
              /\ put_index \in Slots /\ get_index \in Slots /\ is_full \in BOOLEAN
              /\ put_index = get_index => ~is_full
IsrType    == /\ dr \in Byte \cup {NULL}
              /\ isr \in {"off", "getc", "indicate", "clear"}
              /\ rx_indicate \in BOOLEAN /\ rx_notice \in 0..NoticeMax
ReaderType == /\ pc \in {"open", "startup", "read", "reset", "take", "wait", "timedout"}
              /\ mode \in {"line", "recv"} /\ read_idx \in 0..(RecvSize - 1)
              /\ ch \in Byte \cup {NULL} /\ missed \in BOOLEAN
TypeOK == FifoType /\ IsrType /\ ReaderType

\* The register and the ring, which handler and reader move from two sides,
\* are one queue: bytes are lost at its ends only (behind getc the newest, in
\* a full FIFO the oldest), and never read twice or out of order.
Queue == INSTANCE ByteQueue WITH Capacity <- Size, queue <- Received
ImplementsQueue == Queue!Spec

\* The parser sleeps beside a byte only after its own reset has erased the
\* notice of a byte: any byte that arrives after the reset wakes it.
NoSleepOnData ==
    pc = "wait" /\ ~Empty /\ isr \notin {"getc", "indicate"} => missed

\* A missed notice is made good by later bytes, even if the FIFO overflows or
\* some of them are lost: as long as bytes go on being stored, a parser that
\* sleeps wakes up again.
WakesWithNextByte ==
    []<>(isr = "getc" /\ dr # NULL) => (pc = "wait" ~> pc # "wait")

\* at_client_obj_recv returns, whatever the modem sends and when.
RecvReturns == mode = "recv" ~> mode = "line"
=============================================================================
