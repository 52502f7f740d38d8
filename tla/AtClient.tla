------------------------------- MODULE AtClient -------------------------------
(***************************************************************************)
(* rt-thread/components/net/at/src/at_client.c, with the way               *)
(* Mydevice/NB_IOT.c uses it: the NB_IOT thread sends a command and waits  *)
(* for its response; the parser thread reads the lines of the modem,       *)
(* copies them into the response and wakes the caller, or calls the        *)
(* function of a URC.  One of those, urc_httpContent_func, sends a command *)
(* itself: the parser then waits for a response that only the parser could *)
(* deliver, or, without memory for one, stops in an assertion.             *)
(*                                                                         *)
(* The parser (priority 9) preempts NB_IOT (24) whenever it is ready; so   *)
(* NB_IOT moves only while the parser is blocked, and the parser handles a *)
(* line in one step.  The modem and the serial line are outside: the modem *)
(* may answer at any time, in part, or never, and lines may be lost.  A    *)
(* line is abstracted to its kind and to whose command it answers.         *)
(***************************************************************************)
EXTENDS Naturals, Sequences

CONSTANTS
    NULL,
    Requests,       \* what NB_IOT asks: records of Request
    CloseRequest,   \* what urc_httpContent_func asks
    UnknownLines,   \* whether the modem sends lines nobody expects
    MaxWire,        \* bound on the lines received and not parsed
    MaxModem        \* bound on the commands the modem has yet to answer

Callers == {"NB", "parser"}

\* A response object as it is created, and the answer the modem gives to its
\* command: data lines, then OK or ERROR.  room is buf_size, in lines.
Request == [line_num : Nat, room : Nat, data : Nat]

ASSUME RequestsAssumption == Requests \subseteq Request /\ CloseRequest \in Request
ASSUME UnknownAssumption  == UnknownLines \in BOOLEAN
ASSUME BoundsAssumption   == MaxWire \in Nat /\ MaxModem \in Nat
ASSUME NullAssumption     == NULL \notin Callers

VARIABLES
    resp,          \* client->resp: NULL, or the thread whose response it is
    resp_status,   \* client->resp_status
    tokens,        \* value of the semaphore client->resp_notice
    lock,          \* the thread that owns client->lock, or NULL
    line_counts,   \* local of the parser, and with it resp_buf_len, in lines
    pc,            \* where each thread is
    obj,           \* each thread's response object
    result,        \* what its last call returned
    tries,         \* "AT" commands wait_connect has sent
    modem,         \* the answers the modem has yet to finish
    wire,          \* the lines received and not parsed, oldest first
    slipped        \* history: a wait has timed out, an unknown line came, or
                   \* a command went out that nobody waits for

clientVars == <<resp, resp_status, tokens, lock, line_counts>>
callVars   == <<pc, obj, result, tries>>
lineVars   == <<modem, wire, slipped>>
vars       == <<clientVars, callVars, lineVars>>

Kinds == {"data", "ok", "error", "urc", "content"}
Line  == [kind : Kinds, of : Callers \cup {"old", "none"}]
Gap   == [kind |-> "data", of |-> "none"]

Object(req) == [req |-> req, line_counts |-> 0, buf |-> <<>>]

Init ==
    /\ resp = NULL /\ resp_status = "OK" /\ tokens = 0 /\ lock = NULL
    /\ line_counts = 0
    /\ pc = [NB |-> "start", parser |-> "read"]
    /\ obj = [t \in Callers |-> Object(CloseRequest)]
    /\ result = [t \in Callers |-> "none"]
    /\ tries = 0
    /\ modem = <<>> /\ wire = <<>> /\ slipped = FALSE

-----------------------------------------------------------------------------
(* Who may run.                                                            *)

\* The parser is asleep in at_client_getchar, in the delay of the URC
\* function, on the lock or on resp_notice.
ParserBlocked ==
    \/ pc["parser"] = "read" /\ wire = <<>>
    \/ pc["parser"] \in {"delay", "no_resp", "lock", "wait"}

\* It spins in RT_ASSERT, above every other thread of this module.
ParserStopped == pc["parser"] = "asserted"

MayRun(t) == t = "parser" \/ ParserBlocked

Goto(t, label) == pc' = [pc EXCEPT ![t] = label]

\* wait_connect checks its 500 ms before each "AT", and waits up to 500 ms
\* after it: a third one is never sent.
MaxTries == 2

Other(t) == IF t = "NB" THEN "parser" ELSE "NB"

\* A command goes out: what the modem still says of the sender's earlier
\* commands is an old answer from now on.
Aged(lines, t) ==
    [i \in 1..Len(lines) |-> IF lines[i].of = t THEN [lines[i] EXCEPT !.of = "old"]
                             ELSE lines[i]]

\* The modem gets a command, unless its input is full.
SendCommand(t) ==
    /\ modem' = IF Len(modem) < MaxModem
                THEN Append(Aged(modem, t), [of |-> t, left |-> obj[t].req.data])
                ELSE Aged(modem, t)
    /\ wire' = Aged(wire, t)

-----------------------------------------------------------------------------
(* at_obj_exec_cmd, in both threads, and at_client_obj_wait_connect, which *)
(* only NB_IOT calls, once, while it initialises the modem.                *)

\* at_create_resp.
Calls(t, req, label) ==
    /\ obj' = [obj EXCEPT ![t] = Object(req)]
    /\ Goto(t, label)

ExecCall ==
    /\ MayRun("NB") /\ pc["NB"] \in {"start", "idle"}
    /\ \E req \in Requests : Calls("NB", req, "call")
    /\ UNCHANGED <<clientVars, result, tries, lineVars>>

ConnectCall ==
    /\ MayRun("NB") /\ pc["NB"] = "start"
    /\ \E req \in Requests : req.line_num = 0 /\ Calls("NB", req, "c_call")
    /\ UNCHANGED <<clientVars, result, tries, lineVars>>

\* rt_mutex_take(client->lock, RT_WAITING_FOREVER); for exec, then
\* resp_status = AT_RESP_OK; client->resp = resp.
Owns(t, label) ==
    /\ lock' = t
    /\ resp' = t
    /\ resp_status' = IF label = "open" THEN "OK" ELSE resp_status
    /\ Goto(t, label)

TakeLock(t) ==
    /\ MayRun(t) /\ pc[t] \in {"call", "c_call"}
    /\ IF lock = NULL
       THEN Owns(t, IF pc[t] = "call" THEN "open" ELSE "c_loop")
       ELSE /\ Goto(t, IF pc[t] = "call" THEN "lock" ELSE "c_lock")
            /\ UNCHANGED <<lock, resp, resp_status>>
    /\ UNCHANGED <<tokens, line_counts, obj, result, tries, lineVars>>

\* The owner has passed the lock on to t.
Granted(t) ==
    /\ MayRun(t) /\ pc[t] \in {"granted", "c_granted"}
    /\ Owns(t, IF pc[t] = "granted" THEN "open" ELSE "c_loop")
    /\ UNCHANGED <<tokens, line_counts, obj, result, tries, lineVars>>

\* at_vprintfln.
ExecSend(t) ==
    /\ MayRun(t) /\ pc[t] = "open"
    /\ SendCommand(t)
    /\ obj' = [obj EXCEPT ![t].buf = Aged(@, t)]
    /\ Goto(t, "written")
    /\ UNCHANGED <<clientVars, result, tries, slipped>>

\* resp->line_counts = 0, when the response may have come already.
ExecReset(t) ==
    /\ MayRun(t) /\ pc[t] = "written"
    /\ obj' = [obj EXCEPT ![t].line_counts = 0]
    /\ Goto(t, "sent")
    /\ UNCHANGED <<clientVars, result, tries, lineVars>>

\* rt_sem_take(client->resp_notice, resp->timeout): a token is there, or
\* the thread sleeps.
TakeNotice(t) ==
    /\ MayRun(t) /\ pc[t] \in {"sent", "c_sent"}
    /\ IF tokens > 0
       THEN /\ tokens' = tokens - 1
            /\ Goto(t, IF pc[t] = "sent" THEN "woken" ELSE "c_woken")
       ELSE /\ Goto(t, IF pc[t] = "sent" THEN "wait" ELSE "c_wait")
            /\ UNCHANGED tokens
    /\ UNCHANGED <<resp, resp_status, lock, line_counts, obj, result, tries, lineVars>>

\* Mutant: the URC function waits for ever.
TimesOutNB(t) == t = "NB"

\* Every wait for a response has a timeout.
TimesOut(t) == TRUE

\* The thread timer ends the wait; the thread itself runs later.
Timeout(t) ==
    /\ TimesOut(t) /\ pc[t] \in {"wait", "c_wait"}
    /\ Goto(t, IF pc[t] = "wait" THEN "timedout" ELSE "c_loop")
    /\ slipped' = TRUE
    /\ UNCHANGED <<clientVars, obj, result, tries, modem, wire>>

\* The result of the wait, and of the response.
ExecCheck(t) ==
    /\ MayRun(t) /\ pc[t] \in {"woken", "timedout"}
    /\ resp_status' = IF pc[t] = "timedout" THEN "TIMEOUT" ELSE resp_status
    /\ result' = [result EXCEPT ![t] = IF pc[t] = "timedout" THEN "ETIMEOUT"
                                       ELSE IF resp_status = "OK" THEN "EOK"
                                       ELSE "ERROR"]
    /\ Goto(t, "exit")
    /\ UNCHANGED <<resp, tokens, lock, line_counts, obj, tries, lineVars>>

\* Mutant: only a response that was not answered is closed.
ClosedOnTimeout == IF resp_status = "TIMEOUT" THEN NULL ELSE resp

\* client->resp = RT_NULL, by the caller.
ClosedByExit == NULL

\* rt_mutex_release(client->lock): it passes to the thread that waits for it.
Unlock(t) ==
    LET u == Other(t)
    IN  IF pc[u] \in {"lock", "c_lock"}
        THEN /\ lock' = u
             /\ pc' = [pc EXCEPT ![t] = "done",
                                 ![u] = IF @ = "lock" THEN "granted" ELSE "c_granted"]
        ELSE lock' = NULL /\ Goto(t, "done")

\* Clearing client->resp and releasing the lock.
Exit(t) ==
    /\ MayRun(t) /\ pc[t] \in {"exit", "c_freed"}
    /\ resp' = ClosedByExit
    /\ Unlock(t)
    /\ UNCHANGED <<resp_status, tokens, line_counts, obj, result, tries, lineVars>>

\* The caller has read its response and deletes it.
Delete(t) ==
    /\ MayRun(t) /\ pc[t] = "done"
    /\ obj' = [obj EXCEPT ![t] = Object(CloseRequest)]
    /\ result' = [result EXCEPT ![t] = "none"]
    /\ tries' = IF t = "NB" THEN 0 ELSE tries
    /\ Goto(t, IF t = "NB" THEN "idle" ELSE "read")
    /\ UNCHANGED <<clientVars, lineVars>>

\* Mutant: the time of the loop is not checked.
TimeLeftAlways == TRUE

\* rt_tick_get() - start_time <= timeout
TimeLeft == tries < MaxTries

\* One iteration of at_client_obj_wait_connect: "AT" is sent (again); what
\* client->resp is, is left to the parser.
ConnectSend ==
    /\ MayRun("NB") /\ pc["NB"] = "c_loop" /\ TimeLeft
    /\ SendCommand("NB")
    /\ obj' = [obj EXCEPT !["NB"].line_counts = 0, !["NB"].buf = Aged(@, "NB")]
    /\ tries' = tries + 1
    /\ Goto("NB", "c_sent")
    /\ UNCHANGED <<clientVars, result, slipped>>

\* "wait connect timeout"
ConnectGiveUp ==
    /\ MayRun("NB") /\ pc["NB"] = "c_loop" /\ tries > 0
    /\ result' = [result EXCEPT !["NB"] = "ETIMEOUT"]
    /\ Goto("NB", "c_exit")
    /\ UNCHANGED <<clientVars, tries, obj, lineVars>>

\* RT_EOK, whatever the response was.
ConnectCheck ==
    /\ MayRun("NB") /\ pc["NB"] = "c_woken"
    /\ result' = [result EXCEPT !["NB"] = "connected"]
    /\ Goto("NB", "c_exit")
    /\ UNCHANGED <<clientVars, tries, obj, lineVars>>

\* at_delete_resp, before client->resp is cleared: the parser may come between,
\* and what it then writes to goes where the object was.
ConnectDelete ==
    /\ MayRun("NB") /\ pc["NB"] = "c_exit"
    /\ obj' = [obj EXCEPT !["NB"] = Object(CloseRequest)]
    /\ Goto("NB", "c_freed")
    /\ UNCHANGED <<clientVars, result, tries, lineVars>>

CallStep(t) ==
    \/ TakeLock(t) \/ Granted(t) \/ ExecSend(t) \/ ExecReset(t) \/ TakeNotice(t)
    \/ ExecCheck(t) \/ Exit(t) \/ Delete(t)

NBCalls == ExecCall \/ ConnectCall
NBStep  == CallStep("NB") \/ ConnectSend \/ ConnectGiveUp \/ ConnectCheck \/ ConnectDelete

-----------------------------------------------------------------------------
(* client_parser: one line, from at_recv_readline to the next.             *)

\* Mutant: the parser's locals survive the response.
KeepsCounts == line_counts + 1

\* resp_buf_len = 0, line_counts = 0
ResetCounts == 0

\* Mutant: the response stays open.
StaysOpen == resp

\* client->resp = RT_NULL, by the parser.
ClosedByParser == NULL

\* memcpy behind the lines that came before, if there is room.
Fits(o)        == line_counts < o.req.room
Counted(o)     == IF Fits(o) THEN line_counts + 1 ELSE line_counts
Stored(o, line) ==
    IF Fits(o)
    THEN [i \in 1..(line_counts + 1) |->
            IF i = line_counts + 1 THEN line
            ELSE IF i <= Len(o.buf) THEN o.buf[i] ELSE Gap]
    ELSE o.buf

\* "OK" ends a response without a line number, "ERROR" or "FAIL" every
\* response, and the last of the lines asked for a response with one.
EndsOK(o, line)  == line.kind = "ok" /\ o.req.line_num = 0
EndsCount(o)     == Counted(o) = o.req.line_num /\ o.req.line_num # 0
Ends(o, line)    == EndsOK(o, line) \/ line.kind = "error" \/ EndsCount(o)
StatusAfter(o, line) ==
    IF EndsOK(o, line) THEN "OK"
    ELSE IF line.kind = "error" THEN "ERROR"
    ELSE IF EndsCount(o) THEN "OK"
    ELSE IF Fits(o) THEN resp_status ELSE "BUFF_FULL"

\* A sleeping caller is resumed with the token, else the value goes up.
NotifyCaller ==
    IF \E t \in Callers : pc[t] \in {"wait", "c_wait"}
    THEN /\ pc' = [t \in Callers |-> IF pc[t] = "wait" THEN "woken"
                                     ELSE IF pc[t] = "c_wait" THEN "c_woken"
                                     ELSE pc[t]]
         /\ UNCHANGED tokens
    ELSE tokens' = tokens + 1 /\ UNCHANGED pc

\* A line of a response.
ParseResponse ==
    /\ pc["parser"] = "read" /\ wire # <<>>
    /\ Head(wire).kind \in {"data", "ok", "error"} /\ resp # NULL
    /\ wire' = Tail(wire)
    /\ LET o    == obj[resp]
           line == Head(wire)
       IN  /\ resp_status' = StatusAfter(o, line)
           /\ IF Ends(o, line)
              THEN /\ obj' = [obj EXCEPT ![resp].buf = Stored(o, line),
                                         ![resp].line_counts = Counted(o)]
                   /\ resp' = ClosedByParser
                   /\ NotifyCaller
                   /\ line_counts' = ResetCounts
              ELSE /\ obj' = [obj EXCEPT ![resp].buf = Stored(o, line)]
                   /\ line_counts' = Counted(o)
                   /\ UNCHANGED <<resp, tokens, pc>>
    /\ UNCHANGED <<lock, result, tries, modem, slipped>>

\* A line of a URC that only prints, or a line while no response is open.
ParseOther ==
    /\ pc["parser"] = "read" /\ wire # <<>>
    /\ \/ Head(wire).kind = "urc"
       \/ Head(wire).kind \in {"data", "ok", "error"} /\ resp = NULL
    /\ wire' = Tail(wire)
    /\ UNCHANGED <<clientVars, callVars, modem, slipped>>

\* urc_httpContent_func: at_client_recv of up to 5 s and a delay of 20 ms.
\* A failed at_create_resp is printed, and the function goes on without.
ParseContent ==
    /\ pc["parser"] = "read" /\ wire # <<>> /\ Head(wire).kind = "content"
    /\ wire' = Tail(wire)
    /\ \/ Calls("parser", CloseRequest, "delay")
       \/ Goto("parser", "no_resp") /\ UNCHANGED obj
    /\ UNCHANGED <<clientVars, result, tries, modem, slipped>>

\* The parser calls at_exec_cmd.
ContentCall ==
    /\ pc["parser"] = "delay"
    /\ Goto("parser", "call")
    /\ UNCHANGED <<clientVars, obj, result, tries, lineVars>>

\* The delay is over and the lock free: at_exec_cmd without a response sends
\* the command and does not wait, and at_resp_get_line_by_kw then fails
\* RT_ASSERT(resp).  Nobody runs between: the parser preempts whoever releases
\* the lock.
CloseUnanswered ==
    /\ pc["parser"] = "no_resp" /\ lock = NULL
    /\ resp' = NULL
    /\ resp_status' = "OK"
    /\ SendCommand("parser")
    /\ Goto("parser", "asserted")
    /\ slipped' = TRUE
    /\ UNCHANGED <<tokens, lock, line_counts, obj, result, tries>>

ParserStep == \/ ParseResponse \/ ParseOther \/ ParseContent \/ ContentCall
              \/ CloseUnanswered \/ CallStep("parser")

-----------------------------------------------------------------------------
(* The modem and the serial line.                                          *)

Arrives(line) == Len(wire) < MaxWire /\ wire' = Append(wire, line)

\* The next line of the answer at hand.
ModemLine ==
    /\ modem # <<>>
    /\ LET a == Head(modem)
       IN  IF a.left > 0
           THEN /\ Arrives([kind |-> "data", of |-> a.of])
                /\ modem' = [modem EXCEPT ![1].left = @ - 1]
           ELSE /\ \E kind \in {"ok", "error"} : Arrives([kind |-> kind, of |-> a.of])
                /\ modem' = Tail(modem)
    /\ UNCHANGED <<clientVars, callVars, slipped>>

\* The modem never finishes its answer.
ModemDrop ==
    /\ modem # <<>>
    /\ modem' = Tail(modem)
    /\ UNCHANGED <<clientVars, callVars, wire, slipped>>

\* A URC of urc_table.
ModemUrc ==
    /\ \E kind \in {"urc", "content"} : Arrives([kind |-> kind, of |-> "none"])
    /\ UNCHANGED <<clientVars, callVars, modem, slipped>>

\* A line that is neither an answer nor in urc_table, or a damaged one.
UnknownLine ==
    /\ UnknownLines
    /\ Arrives(Gap)
    /\ slipped' = TRUE
    /\ UNCHANGED <<clientVars, callVars, modem>>

\* The receive FIFO drops its oldest bytes.
LoseLine ==
    /\ wire # <<>>
    /\ wire' = Tail(wire)
    /\ UNCHANGED <<clientVars, callVars, modem, slipped>>

ModemStep == ModemLine \/ ModemDrop \/ ModemUrc \/ UnknownLine \/ LoseLine

Next == NBCalls \/ NBStep \/ ParserStep \/ ModemStep \/ \E t \in Callers : Timeout(t)

Spec == Init /\ [][Next]_vars

\* A thread in a call runs when it may, and the timers run out.  SF for
\* NB_IOT, which the parser may preempt any number of times; but the parser
\* catches up with the line again and again, since a line takes milliseconds
\* to arrive and microseconds to parse, unless it has stopped.
Fairness ==
    /\ WF_vars(ParserStep) /\ SF_vars(NBStep)
    /\ \A t \in Callers : WF_vars(Timeout(t))
    /\ []<>(ParserBlocked \/ ParserStopped)

FairSpec == Spec /\ Fairness

-----------------------------------------------------------------------------
(* Properties.                                                             *)

Response == [req : Request, line_counts : Nat, buf : Seq(Line)]
NBPcs == {"start", "idle", "call", "lock", "granted", "open", "written", "sent", "wait",
          "woken", "timedout", "exit", "done", "c_call", "c_lock", "c_granted", "c_loop",
          "c_sent", "c_wait", "c_woken", "c_exit", "c_freed"}
ParserPcs == {"read", "delay", "call", "lock", "granted", "open", "written", "sent", "wait",
              "woken", "timedout", "exit", "done", "no_resp", "asserted"}

ClientType == /\ resp \in Callers \cup {NULL} /\ lock \in Callers \cup {NULL}
              /\ resp_status \in {"OK", "ERROR", "TIMEOUT", "BUFF_FULL"}
              /\ tokens \in Nat /\ line_counts \in Nat
CallType   == /\ pc \in [Callers -> NBPcs \cup ParserPcs]
              /\ pc["NB"] \in NBPcs /\ pc["parser"] \in ParserPcs
              /\ obj \in [Callers -> Response]
              /\ result \in [Callers -> {"none", "EOK", "ERROR", "ETIMEOUT", "connected"}]
              /\ tries \in 0..MaxTries
Answer     == [of : Callers \cup {"old"}, left : Nat]
LineType   == /\ modem \in Seq(Answer)
              /\ Len(modem) <= MaxModem
              /\ wire \in Seq(Line) /\ Len(wire) <= MaxWire
              /\ slipped \in BOOLEAN
TypeOK == ClientType /\ CallType /\ LineType

\* Where a thread owns client->lock.
Inside == {"granted", "open", "written", "sent", "wait", "woken", "timedout", "exit",
           "c_granted", "c_loop", "c_sent", "c_wait", "c_woken", "c_exit", "c_freed"}

\* A response is open only while its thread is between taking the lock and
\* the end of its call (where wait_connect has deleted it already, see
\* FreedUntouched): the parser never writes into a response of a call that
\* is over, or that another thread has replaced.
OpenOnlyUnderLock ==
    /\ \A t \in Callers : pc[t] \in Inside <=> lock = t
    /\ resp # NULL => lock = resp

\* A response that came while its caller was timing out leaves a token behind,
\* but tokens never pile up: between two calls there is at most one.
TokensBounded == lock = NULL => tokens <= 1

\* The response of a call that succeeded: lines of its own command and no
\* others, without a gap before them, up to the line that ends it unless the
\* buffer is full.  wait_connect takes any response.
WholeAnswer(t) ==
    LET o    == obj[t]
        ends == IF result[t] = "EOK" THEN {"ok"} ELSE {"ok", "error"}
    IN  /\ \A i \in 1..Len(o.buf) : o.buf[i].of = t
        /\ IF o.req.line_num # 0 THEN Len(o.buf) = o.req.line_num
           ELSE Len(o.buf) < o.req.room
                => o.buf # <<>> /\ o.buf[Len(o.buf)].kind \in ends

\* Commands and answers stay in step, with any losses on the serial line, up
\* to the first wait that times out or the first unknown line: every call
\* that succeeds has its own answer.
InStepUntilTimeout ==
    ~slipped => \A t \in Callers :
        \/ pc[t] = "done" /\ result[t] = "EOK"
        \/ pc[t] = "c_exit" /\ result[t] = "connected"
        => WholeAnswer(t)

\* The line count of a response may be lost, when it ends before its caller
\* clears the count (LinesCounted), but never in part: until something slips a
\* call returns with the number of the lines in its buffer or with none, so
\* that at_resp_get_line finds all of them or none and never runs beyond them.
CountWholeOrLost ==
    ~slipped => \A t \in Callers :
        pc[t] = "done" => obj[t].line_counts \in {0, Len(obj[t].buf)}

\* Every call returns, as long as the parser does not stop for want of a
\* response: the timeouts undo the waits of the parser for itself, and of
\* NB_IOT for a parser that waits for the lock.
CallReturns ==
    []~ParserStopped =>
        \A t \in Callers : pc[t] \in Inside \cup {"lock", "c_lock"} ~> pc[t] = "done"

\* "Send commands to AT server and wait response ... 0 : success": a call that
\* succeeds has received some of its response.
OkMeansAnswered ==
    \A t \in Callers :
        result[t] = "EOK" /\ pc[t] = "done" =>
            \E i \in 1..Len(obj[t].buf) : obj[t].buf[i].of = t

\* "The released memory block is taken back to system heap": between the
\* deletion of its response and the end of at_client_obj_wait_connect, nobody
\* writes into it.
FreedUntouched == pc["NB"] = "c_freed" => obj["NB"].buf = <<>>

\* "the count of received response lines": while nothing has slipped, a call
\* that succeeds returns a response whose line_counts is the number of lines
\* in its buffer, so that the at_resp_get_line functions find them.
LinesCounted ==
    ~slipped => \A t \in Callers :
        result[t] = "EOK" /\ pc[t] = "done" => obj[t].line_counts = Len(obj[t].buf)
=============================================================================
