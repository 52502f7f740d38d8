-------------------------------- MODULE BYH_M ---------------------------------
(***************************************************************************)
(* Mydevice/BYH_M.c on the receive FIFO of its serial port, and the rounds *)
(* in which BYH_M_thread_entry (applications/enviroment.c) calls it: a     *)
(* request for temperature and humidity, one for the noise, one for PM2.5  *)
(* and PM10, each followed by 100 ms of delay, a read of as many bytes as  *)
(* the reply has, and a check of its CRC.  A failed check leaves the old   *)
(* values, and the round sends whatever the values are.                    *)
(*                                                                         *)
(* The sensor and the line are outside: a reply may come whole or in part, *)
(* damaged, in time or after the read.  It is over before the next request *)
(* (at least one second later).  A byte is abstracted to its place in its  *)
(* reply, a value to the reply it was taken from; two replies of different *)
(* requests or rounds never have the same CRC.  The FIFO is the queue of   *)
(* ByteQueue, which SerialRx implements.                                   *)
(***************************************************************************)
EXTENDS Naturals, Sequences

CONSTANTS
    LongReply,      \* bytes of a reply with two registers (9)
    ShortReply,     \* bytes of a reply with one register (7)
    Capacity,       \* bytes the receive FIFO holds (63)
    StackKept       \* whether temp may still hold the last call's bytes

ASSUME ReplyAssumption    == /\ LongReply \in Nat /\ ShortReply \in Nat
                             /\ 0 < ShortReply /\ ShortReply < LongReply
ASSUME CapacityAssumption == Capacity \in Nat /\ 2 * LongReply <= Capacity
ASSUME StackAssumption    == StackKept \in BOOLEAN

VARIABLES
    pc,        \* where BYH_M_thread_entry is
    req,       \* the request it is at
    got,       \* bytes rt_device_read has read
    temp,      \* local of the three functions, uninitialised at their start
    value,     \* BYH_DATA: for each request, the reply its values are from
    rx,        \* the receive FIFO of uart3, oldest first
    reply,     \* the bytes of the reply that are still to come
    whole,     \* history: nothing of this reply was lost or damaged
    answered,  \* history: which replies of this round came whole, in time
    late       \* history: a byte has come after the read of its reply

vars == <<pc, req, got, temp, value, rx, reply, whole, answered, late>>

Requests == {"humiture", "noise", "pm"}
Rounds   == {"this", "old", "none"}

\* A byte of a reply; a damaged one, or one nobody wrote, has place 0.
Byte    == [of : Requests \cup {"none"}, place : 0..LongReply, round : Rounds]
Garbage == [of |-> "none", place |-> 0, round |-> "none"]
Value   == [of : Requests \cup {"none"}, round : Rounds]
NoValue == [of |-> "none", round |-> "none"]

\* Mutant: the last byte is left behind.
ReadLengthShort(k) == IF k = "noise" THEN ShortReply ELSE LongReply - 1

\* Mutant: the read takes what temp[10] has room for.
ReadLengthPast(k) == LongReply + 1

\* How many bytes the reply has, and are read.
ReplyLength(k) == IF k = "noise" THEN ShortReply ELSE LongReply
ReadLength(k)  == ReplyLength(k)

Reply(k) == [i \in 1..ReplyLength(k) |-> [of |-> k, place |-> i, round |-> "this"]]

Init ==
    /\ pc = "request" /\ req = "humiture" /\ got = 0
    /\ temp = [i \in 1..LongReply |-> Garbage]
    /\ value = [k \in Requests |-> NoValue]
    /\ rx = <<>> /\ reply = <<>>
    /\ whole = FALSE /\ answered = {} /\ late = FALSE

-----------------------------------------------------------------------------
(* The line and the receive FIFO.                                          *)

\* The FIFO gives up its oldest byte when it is full.
Received(b) == Append(IF Len(rx) < Capacity THEN rx ELSE Tail(rx), b)

\* A byte comes, as it was sent or damaged.
ByteComes ==
    /\ reply # <<>>
    /\ reply' = Tail(reply)
    /\ \E b \in {Head(reply), Garbage} :
         /\ rx' = Received(b)
         /\ whole' = (whole /\ b = Head(reply))
    /\ late' = (late \/ pc \notin {"delay", "read"})
    /\ UNCHANGED <<pc, req, got, temp, value, answered>>

\* A byte gets lost; the sensor does not answer if all of them do.
ByteLost ==
    /\ reply # <<>>
    /\ reply' = Tail(reply)
    /\ whole' = FALSE
    /\ UNCHANGED <<pc, req, got, temp, value, rx, answered, late>>

Line == ByteComes \/ ByteLost

-----------------------------------------------------------------------------
(* BYH_M_get_humiture, BYH_M_get_noise and BYH_M_get_PM_Data.              *)

\* rt_device_write of the request: the receive FIFO is not emptied.
Request ==
    /\ pc = "request" /\ reply = <<>>
    /\ reply' = Reply(req)
    /\ whole' = TRUE
    /\ pc' = "delay"
    /\ UNCHANGED <<req, got, temp, value, rx, answered, late>>

\* rt_thread_mdelay(100)
Delay ==
    /\ pc = "delay"
    /\ pc' = "read"
    /\ UNCHANGED <<req, got, temp, value, rx, reply, whole, answered, late>>

\* Mutant: the read waits for the bytes that are missing.
StopsNever == FALSE

\* _serial_int_rx returns at the first byte that is not there.
Stops == rx = <<>>

\* rt_device_read(serial, 0, temp, ...), byte by byte.
ReadByte ==
    /\ pc = "read" /\ got < ReadLength(req) /\ rx # <<>>
    /\ temp' = [temp EXCEPT ![got + 1] = Head(rx)]
    /\ rx' = Tail(rx)
    /\ got' = got + 1
    /\ UNCHANGED <<pc, req, value, reply, whole, answered, late>>

ReadEnd ==
    /\ pc = "read" /\ (got = ReadLength(req) \/ Stops)
    /\ pc' = "check"
    /\ got' = 0
    /\ answered' = IF whole /\ reply = <<>> THEN answered \cup {req} ELSE answered
    /\ UNCHANGED <<req, temp, value, rx, reply, whole, late>>

\* Mutant: the CRC is not looked at.
CrcIgnored == TRUE

\* The bytes are those of one reply of this length.
CrcMatches ==
    \E k \in Requests : ReplyLength(k) = ReadLength(req) /\
        \A i \in 1..ReadLength(req) :
            temp[i] = [of |-> k, place |-> i, round |-> temp[1].round]

Following == CASE req = "humiture" -> "noise" [] req = "noise" -> "pm"
               [] req = "pm" -> "humiture"

\* The values are stored if the CRC matches, else they stay; the next
\* request follows after a second, or the round is over.  What the next
\* function finds in its own temp is the stack: these bytes, or others.
Check ==
    /\ pc = "check"
    /\ value' = IF CrcMatches
                THEN [value EXCEPT ![req] = [of |-> temp[1].of, round |-> temp[1].round]]
                ELSE value
    /\ \/ StackKept /\ UNCHANGED temp
       \/ temp' = [i \in 1..LongReply |-> Garbage]
    /\ req' = Following
    /\ pc' = IF req = "pm" THEN "send" ELSE "request"
    /\ UNCHANGED <<got, rx, reply, whole, answered, late>>

\* The values are mailed, and an hour passes: what is there is old.
Aged(b) == IF b.round = "this" THEN [b EXCEPT !.round = "old"] ELSE b

Send ==
    /\ pc = "send" /\ reply = <<>>
    /\ value' = [k \in Requests |-> Aged(value[k])]
    /\ temp' = [i \in 1..LongReply |-> Aged(temp[i])]
    /\ rx' = [i \in 1..Len(rx) |-> Aged(rx[i])]
    /\ answered' = {}
    /\ pc' = "request"
    /\ UNCHANGED <<req, got, reply, whole, late>>

Thread == Request \/ Delay \/ ReadByte \/ ReadEnd \/ Check \/ Send

Next == Line \/ Thread

\* The thread runs when it can; a reply comes or is lost.
Spec == Init /\ [][Next]_vars /\ WF_vars(Thread) /\ WF_vars(Line)

-----------------------------------------------------------------------------
(* Properties.                                                             *)

\* Type invariant.
TypeOK ==
    /\ pc \in {"request", "delay", "read", "check", "send"}
    /\ req \in Requests /\ got \in 0..LongReply
    /\ temp \in [1..LongReply -> Byte]
    /\ value \in [Requests -> Value]
    /\ rx \in Seq(Byte) /\ reply \in Seq(Byte)
    /\ whole \in BOOLEAN /\ late \in BOOLEAN /\ answered \in SUBSET Requests

\* However late, short or damaged the replies are, the FIFO never holds more
\* than one long reply when a request goes out, and never overflows.
BacklogBounded ==
    /\ pc = "request" /\ reply = <<>> => Len(rx) <= LongReply
    /\ reply # <<>> => Len(rx) < Capacity

\* Nothing is left in the FIFO when a request goes out, whatever was lost or
\* damaged before, as long as no byte has come too late.
AlignedUntilLate == pc = "request" /\ ~late => rx = <<>>

\* The value of k is another of this round: temp still held the whole reply to
\* an earlier request, as long as that to k, and its CRC matched.
FromStack(k) ==
    /\ StackKept
    /\ value[k].of \in answered \ {k}
    /\ ReplyLength(value[k].of) = ReplyLength(k)

\* The values a round sends, while no byte has come too late.  Those whose
\* replies came whole and in time are from this round and from their own
\* request.  The others are not from this round, with one exception, which the
\* uninitialised temp (BYH_M.c:103) allows: they are FromStack.
FreshIfAnswered ==
    pc = "send" /\ ~late =>
        \A k \in Requests :
            IF k \in answered THEN value[k] = [of |-> k, round |-> "this"]
            ELSE value[k].round = "this" => FromStack(k)

\* A silent or broken sensor does not stop the monitor.
RoundsGoOn == []<>(pc = "send")

\* "save the humidity value", "save the noise value", "save the PM2.5 value":
\* each value is taken from a reply to its own request.
OwnReply == \A k \in Requests : value[k].of \in {k, "none"}
=============================================================================
